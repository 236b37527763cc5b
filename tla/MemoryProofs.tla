---------------------------- MODULE MemoryProofs -----------------------------
(***************************************************************************)
(* The arithmetic of memory: what malloc relies on about chunk sizes and   *)
(* bins, for every request and every size, and where the entries of page   *)
(* tables lead, for every frame, every place and every former contents of  *)
(* an entry.                                                               *)
(***************************************************************************)
EXTENDS ChunkSizes, Pages, TLAPS
------------------------------------------------------------------------------
(* The chunks and bins of malloc                                           *)

\* The sizes from LastBinSize to WordSize, which is 2^32, are in the last bin.
LastBinSize == 16777216
WordSize == 65536 * 65536

\* A request fits in its chunk beside the size word, chunks keep the
\* alignment and hold the two bin links, and less than MINSIZE is wasted
\* (request2size, malloc.c:1993).
THEOREM RequestFits ==
  ASSUME NEW req \in Nat
  PROVE  /\ request2size(req) >= req + SIZE_SZ
         /\ request2size(req) >= MINSIZE
         /\ request2size(req) % MALLOC_ALIGNMENT = 0
         /\ request2size(req) < req + SIZE_SZ + MINSIZE
BY DEF request2size, RoundUp, SIZE_SZ, MINSIZE, MALLOC_ALIGNMENT

\* Asking again for nb - MALLOC_ALIGN_MASK bytes, as sYSMALLOc, rEALLOc and
\* iALLOc do with a size nb they have already padded, asks for exactly nb.
THEOREM RerequestExact ==
  ASSUME NEW nb \in Nat, nb >= MINSIZE, nb % MALLOC_ALIGNMENT = 0
  PROVE  request2size(nb - (MALLOC_ALIGNMENT - 1)) = nb
BY DEF request2size, RoundUp, SIZE_SZ, MINSIZE, MALLOC_ALIGNMENT

\* The chunks of a small bin all have the same size: malloc takes one
\* without looking at its size (malloc.c:3441).
THEOREM SmallBinsExact ==
  ASSUME NEW s \in Nat, NEW t \in Nat,
         s % MALLOC_ALIGNMENT = 0, t % MALLOC_ALIGNMENT = 0,
         in_smallbin_range(s), in_smallbin_range(t),
         bin_index(s) = bin_index(t)
  PROVE  s = t
BY DEF bin_index, in_smallbin_range, smallbin_index, MALLOC_ALIGNMENT

\* Every chunk malloc puts in a fastbin has a fastbin, whatever the value of
\* M_MXFAST (malloc.c:3759, 2325).
THEOREM FastbinExists ==
  ASSUME NEW mxfast \in 0..MAX_FAST_SIZE, NEW sz \in Nat, sz >= MINSIZE,
         sz <= request2size(mxfast)
  PROVE  fastbin_index(sz) \in 0..NFASTBINS - 1
BY DEF fastbin_index, NFASTBINS, request2size, RoundUp, MAX_FAST_SIZE,
       SIZE_SZ, MINSIZE, MALLOC_ALIGNMENT

LEMMA Powers ==
  /\ 2^6 = 64 /\ 2^7 = 128 /\ 2^8 = 256 /\ 2^9 = 512 /\ 2^10 = 1024
  /\ 2^11 = 2048 /\ 2^12 = 4096 /\ 2^13 = 8192 /\ 2^14 = 16384
  /\ 2^15 = 32768 /\ 2^16 = 65536 /\ 2^17 = 131072 /\ 2^18 = 262144
  /\ 2^19 = 524288 /\ 2^20 = 1048576 /\ 2^21 = 2097152
BY SMT

\* The branch-free search of the highest bit finds it.
LEMMA NlzOK ==
  ASSUME NEW x \in Nat, x > 0, x < 65536
  PROVE  \/ Nlz(x) = 0 /\ x < 2
         \/ Nlz(x) = 1 /\ 2 <= x /\ x < 4
         \/ Nlz(x) = 2 /\ 4 <= x /\ x < 8
         \/ Nlz(x) = 3 /\ 8 <= x /\ x < 16
         \/ Nlz(x) = 4 /\ 16 <= x /\ x < 32
         \/ Nlz(x) = 5 /\ 32 <= x /\ x < 64
         \/ Nlz(x) = 6 /\ 64 <= x /\ x < 128
         \/ Nlz(x) = 7 /\ 128 <= x /\ x < 256
         \/ Nlz(x) = 8 /\ 256 <= x /\ x < 512
         \/ Nlz(x) = 9 /\ 512 <= x /\ x < 1024
         \/ Nlz(x) = 10 /\ 1024 <= x /\ x < 2048
         \/ Nlz(x) = 11 /\ 2048 <= x /\ x < 4096
         \/ Nlz(x) = 12 /\ 4096 <= x /\ x < 8192
         \/ Nlz(x) = 13 /\ 8192 <= x /\ x < 16384
         \/ Nlz(x) = 14 /\ 16384 <= x /\ x < 32768
         \/ Nlz(x) = 15 /\ 32768 <= x
<1>1. CASE 1 <= x /\ x < 2
  <2>1. ((x * 256 * 16) * 4) \div 16384 = 1
    BY <1>1, SMTT(30)
  <2>2. Nlz(x) = 0
    BY <1>1, <2>1, SMTT(30) DEF Nlz, Nlz4, Nlz2, Below, Shifted, TopBits
  <2> QED BY <1>1, <2>2, SMTT(30)
<1>2. CASE 2 <= x /\ x < 4
  <2>1. ((x * 256 * 16) * 4) \div 16384 \in {2, 3}
    BY <1>2, SMTT(30)
  <2>2. Nlz(x) = 1
    BY <1>2, <2>1, SMTT(30) DEF Nlz, Nlz4, Nlz2, Below, Shifted, TopBits
  <2> QED BY <1>2, <2>2, SMTT(30)
<1>3. CASE 4 <= x /\ x < 8
  <2>1. (x * 256 * 16) \div 16384 = 1
    BY <1>3, SMTT(30)
  <2>2. Nlz(x) = 2
    BY <1>3, <2>1, SMTT(30) DEF Nlz, Nlz4, Nlz2, Below, Shifted, TopBits
  <2> QED BY <1>3, <2>2, SMTT(30)
<1>4. CASE 8 <= x /\ x < 16
  <2>1. (x * 256 * 16) \div 16384 \in {2, 3}
    BY <1>4, SMTT(30)
  <2>2. Nlz(x) = 3
    BY <1>4, <2>1, SMTT(30) DEF Nlz, Nlz4, Nlz2, Below, Shifted, TopBits
  <2> QED BY <1>4, <2>2, SMTT(30)
<1>5. CASE 16 <= x /\ x < 32
  <2>1. (x * 256 * 4) \div 16384 = 1
    BY <1>5, SMTT(30)
  <2>2. Nlz(x) = 4
    BY <1>5, <2>1, SMTT(30) DEF Nlz, Nlz4, Nlz2, Below, Shifted, TopBits
  <2> QED BY <1>5, <2>2, SMTT(30)
<1>6. CASE 32 <= x /\ x < 64
  <2>1. (x * 256 * 4) \div 16384 \in {2, 3}
    BY <1>6, SMTT(30)
  <2>2. Nlz(x) = 5
    BY <1>6, <2>1, SMTT(30) DEF Nlz, Nlz4, Nlz2, Below, Shifted, TopBits
  <2> QED BY <1>6, <2>2, SMTT(30)
<1>7. CASE 64 <= x /\ x < 128
  <2>1. (x * 256) \div 16384 = 1
    BY <1>7, SMTT(30)
  <2>2. Nlz(x) = 6
    BY <1>7, <2>1, SMTT(30) DEF Nlz, Nlz4, Nlz2, Below, Shifted, TopBits
  <2> QED BY <1>7, <2>2, SMTT(30)
<1>8. CASE 128 <= x /\ x < 256
  <2>1. (x * 256) \div 16384 \in {2, 3}
    BY <1>8, SMTT(30)
  <2>2. Nlz(x) = 7
    BY <1>8, <2>1, SMTT(30) DEF Nlz, Nlz4, Nlz2, Below, Shifted, TopBits
  <2> QED BY <1>8, <2>2, SMTT(30)
<1>9. CASE 256 <= x /\ x < 512
  <2>1. (x * 16 * 4) \div 16384 = 1
    BY <1>9, SMTT(30)
  <2>2. Nlz(x) = 8
    BY <1>9, <2>1, SMTT(30) DEF Nlz, Nlz4, Nlz2, Below, Shifted, TopBits
  <2> QED BY <1>9, <2>2, SMTT(30)
<1>10. CASE 512 <= x /\ x < 1024
  <2>1. (x * 16 * 4) \div 16384 \in {2, 3}
    BY <1>10, SMTT(30)
  <2>2. Nlz(x) = 9
    BY <1>10, <2>1, SMTT(30) DEF Nlz, Nlz4, Nlz2, Below, Shifted, TopBits
  <2> QED BY <1>10, <2>2, SMTT(30)
<1>11. CASE 1024 <= x /\ x < 2048
  <2>1. (x * 16) \div 16384 = 1
    BY <1>11, SMTT(30)
  <2>2. Nlz(x) = 10
    BY <1>11, <2>1, SMTT(30) DEF Nlz, Nlz4, Nlz2, Below, Shifted, TopBits
  <2> QED BY <1>11, <2>2, SMTT(30)
<1>12. CASE 2048 <= x /\ x < 4096
  <2>1. (x * 16) \div 16384 \in {2, 3}
    BY <1>12, SMTT(30)
  <2>2. Nlz(x) = 11
    BY <1>12, <2>1, SMTT(30) DEF Nlz, Nlz4, Nlz2, Below, Shifted, TopBits
  <2> QED BY <1>12, <2>2, SMTT(30)
<1>13. CASE 4096 <= x /\ x < 8192
  <2>1. (x * 4) \div 16384 = 1
    BY <1>13, SMTT(30)
  <2>2. Nlz(x) = 12
    BY <1>13, <2>1, SMTT(30) DEF Nlz, Nlz4, Nlz2, Below, Shifted, TopBits
  <2> QED BY <1>13, <2>2, SMTT(30)
<1>14. CASE 8192 <= x /\ x < 16384
  <2>1. (x * 4) \div 16384 \in {2, 3}
    BY <1>14, SMTT(30)
  <2>2. Nlz(x) = 13
    BY <1>14, <2>1, SMTT(30) DEF Nlz, Nlz4, Nlz2, Below, Shifted, TopBits
  <2> QED BY <1>14, <2>2, SMTT(30)
<1>15. CASE 16384 <= x /\ x < 32768
  <2>1. x \div 16384 = 1
    BY <1>15, SMTT(30)
  <2>2. Nlz(x) = 14
    BY <1>15, <2>1, SMTT(30) DEF Nlz, Nlz4, Nlz2, Below, Shifted, TopBits
  <2> QED BY <1>15, <2>2, SMTT(30)
<1>16. CASE 32768 <= x /\ x < 65536
  <2>1. x \div 16384 \in {2, 3}
    BY <1>16, SMTT(30)
  <2>2. Nlz(x) = 15
    BY <1>16, <2>1, SMTT(30) DEF Nlz, Nlz4, Nlz2, Below, Shifted, TopBits
  <2> QED BY <1>16, <2>2, SMTT(30)
<1> QED
  BY <1>1, <1>2, <1>3, <1>4, <1>5, <1>6, <1>7, <1>8, <1>9, <1>10, <1>11, <1>12,
     <1>13, <1>14, <1>15, <1>16, SMTT(30)

\* sz is in the bin of the sizes from q * w, with w = 2^(m + 6) its width.
InBin(sz, m, q) == q * 2^(m + 6) <= sz /\ sz < (q + 1) * 2^(m + 6)

\* Below 2^32 nothing of a size is cut off (malloc.c:2183).
LEMMA Unsigned8OK ==
  ASSUME NEW sz \in Nat, sz < WordSize
  PROVE  Unsigned8(sz) = sz \div 256
BY SMTT(30) DEF Unsigned8, WordSize

\* The size of a chunk of large bin i lies between two consecutive multiples
\* of the width of the bin.
LEMMA LargeBinRange ==
  ASSUME NEW sz \in Nat, ~in_smallbin_range(sz), sz < LastBinSize
  PROVE  \E m \in 0..15 : \E q \in 4..7 :
            largebin_index(sz) = 28 + 4 * m + q /\ InBin(sz, m, q)
<1> DEFINE x == sz \div 256
           m == Nlz(x)
           q == sz \div 2^(m + 6)
<1>1. x \in Nat /\ x > 0 /\ x < 65536 /\ 256 * x <= sz /\ sz < 256 * x + 256
  BY SMT DEF in_smallbin_range, MIN_LARGE_SIZE, LastBinSize
<1> HIDE DEF x
<1>2. m \in 0..15 /\ 2^(m + 6) \in Nat /\ q \in 4..7
      /\ q * 2^(m + 6) <= sz /\ sz < (q + 1) * 2^(m + 6)
  <2>1. CASE m = 0 /\ 1 <= x /\ x < 2
    <3>1. 2^(m + 6) = 64
      BY <2>1, Powers, SMTT(30)
    <3>2. QED
      BY <1>1, <2>1, <3>1, SMTT(30)
  <2>2. CASE m = 1 /\ 2 <= x /\ x < 4
    <3>1. 2^(m + 6) = 128
      BY <2>2, Powers, SMTT(30)
    <3>2. QED
      BY <1>1, <2>2, <3>1, SMTT(30)
  <2>3. CASE m = 2 /\ 4 <= x /\ x < 8
    <3>1. 2^(m + 6) = 256
      BY <2>3, Powers, SMTT(30)
    <3>2. QED
      BY <1>1, <2>3, <3>1, SMTT(30)
  <2>4. CASE m = 3 /\ 8 <= x /\ x < 16
    <3>1. 2^(m + 6) = 512
      BY <2>4, Powers, SMTT(30)
    <3>2. QED
      BY <1>1, <2>4, <3>1, SMTT(30)
  <2>5. CASE m = 4 /\ 16 <= x /\ x < 32
    <3>1. 2^(m + 6) = 1024
      BY <2>5, Powers, SMTT(30)
    <3>2. QED
      BY <1>1, <2>5, <3>1, SMTT(30)
  <2>6. CASE m = 5 /\ 32 <= x /\ x < 64
    <3>1. 2^(m + 6) = 2048
      BY <2>6, Powers, SMTT(30)
    <3>2. QED
      BY <1>1, <2>6, <3>1, SMTT(30)
  <2>7. CASE m = 6 /\ 64 <= x /\ x < 128
    <3>1. 2^(m + 6) = 4096
      BY <2>7, Powers, SMTT(30)
    <3>2. QED
      BY <1>1, <2>7, <3>1, SMTT(30)
  <2>8. CASE m = 7 /\ 128 <= x /\ x < 256
    <3>1. 2^(m + 6) = 8192
      BY <2>8, Powers, SMTT(30)
    <3>2. QED
      BY <1>1, <2>8, <3>1, SMTT(30)
  <2>9. CASE m = 8 /\ 256 <= x /\ x < 512
    <3>1. 2^(m + 6) = 16384
      BY <2>9, Powers, SMTT(30)
    <3>2. QED
      BY <1>1, <2>9, <3>1, SMTT(30)
  <2>10. CASE m = 9 /\ 512 <= x /\ x < 1024
    <3>1. 2^(m + 6) = 32768
      BY <2>10, Powers, SMTT(30)
    <3>2. QED
      BY <1>1, <2>10, <3>1, SMTT(30)
  <2>11. CASE m = 10 /\ 1024 <= x /\ x < 2048
    <3>1. 2^(m + 6) = 65536
      BY <2>11, Powers, SMTT(30)
    <3>2. QED
      BY <1>1, <2>11, <3>1, SMTT(30)
  <2>12. CASE m = 11 /\ 2048 <= x /\ x < 4096
    <3>1. 2^(m + 6) = 131072
      BY <2>12, Powers, SMTT(30)
    <3>2. QED
      BY <1>1, <2>12, <3>1, SMTT(30)
  <2>13. CASE m = 12 /\ 4096 <= x /\ x < 8192
    <3>1. 2^(m + 6) = 262144
      BY <2>13, Powers, SMTT(30)
    <3>2. QED
      BY <1>1, <2>13, <3>1, SMTT(30)
  <2>14. CASE m = 13 /\ 8192 <= x /\ x < 16384
    <3>1. 2^(m + 6) = 524288
      BY <2>14, Powers, SMTT(30)
    <3>2. QED
      BY <1>1, <2>14, <3>1, SMTT(30)
  <2>15. CASE m = 14 /\ 16384 <= x /\ x < 32768
    <3>1. 2^(m + 6) = 1048576
      BY <2>15, Powers, SMTT(30)
    <3>2. QED
      BY <1>1, <2>15, <3>1, SMTT(30)
  <2>16. CASE m = 15 /\ 32768 <= x /\ x < 65536
    <3>1. 2^(m + 6) = 2097152
      BY <2>16, Powers, SMTT(30)
    <3>2. QED
      BY <1>1, <2>16, <3>1, SMTT(30)
  <2>17. QED
    BY <1>1, NlzOK, <2>1, <2>2, <2>3, <2>4, <2>5, <2>6, <2>7, <2>8, <2>9, <2>10, <2>11, <2>12, <2>13, <2>14, <2>15, <2>16, SMTT(30)
<1>3. largebin_index(sz) = NSMALLBINS + 4 * m + (q % 4)
  <2>1. Unsigned8(sz) = x
    BY Unsigned8OK, SMTT(30) DEF x, LastBinSize, WordSize
  <2>2. QED
    BY <1>1, <2>1, SMTT(30) DEF largebin_index, Quarter, m, q
<1> HIDE DEF m, q
<1>4. q % 4 = q - 4
  BY <1>2, SMTT(30)
<1>5. largebin_index(sz) = 28 + 4 * m + q
  BY <1>2, <1>3, <1>4, SMTT(30) DEF NSMALLBINS
<1>6. InBin(sz, m, q)
  BY <1>2 DEF InBin
<1>7. QED
  BY <1>2, <1>5, <1>6, ZenonT(60)

\* The width of the four bins of sizes 4w to 8w, with m = log2(w) - 6.
WidthIs(m, w) ==
  \/ m = 0 /\ w = 64
  \/ m = 1 /\ w = 128
  \/ m = 2 /\ w = 256
  \/ m = 3 /\ w = 512
  \/ m = 4 /\ w = 1024
  \/ m = 5 /\ w = 2048
  \/ m = 6 /\ w = 4096
  \/ m = 7 /\ w = 8192
  \/ m = 8 /\ w = 16384
  \/ m = 9 /\ w = 32768
  \/ m = 10 /\ w = 65536
  \/ m = 11 /\ w = 131072
  \/ m = 12 /\ w = 262144
  \/ m = 13 /\ w = 524288
  \/ m = 14 /\ w = 1048576
  \/ m = 15 /\ w = 2097152

LEMMA BinWidth == ASSUME NEW m \in 0..15 PROVE WidthIs(m, 2^(m + 6))
<1>1. CASE m = 0
  BY <1>1, Powers, SMTT(30) DEF WidthIs
<1>2. CASE m = 1
  BY <1>2, Powers, SMTT(30) DEF WidthIs
<1>3. CASE m = 2
  BY <1>3, Powers, SMTT(30) DEF WidthIs
<1>4. CASE m = 3
  BY <1>4, Powers, SMTT(30) DEF WidthIs
<1>5. CASE m = 4
  BY <1>5, Powers, SMTT(30) DEF WidthIs
<1>6. CASE m = 5
  BY <1>6, Powers, SMTT(30) DEF WidthIs
<1>7. CASE m = 6
  BY <1>7, Powers, SMTT(30) DEF WidthIs
<1>8. CASE m = 7
  BY <1>8, Powers, SMTT(30) DEF WidthIs
<1>9. CASE m = 8
  BY <1>9, Powers, SMTT(30) DEF WidthIs
<1>10. CASE m = 9
  BY <1>10, Powers, SMTT(30) DEF WidthIs
<1>11. CASE m = 10
  BY <1>11, Powers, SMTT(30) DEF WidthIs
<1>12. CASE m = 11
  BY <1>12, Powers, SMTT(30) DEF WidthIs
<1>13. CASE m = 12
  BY <1>13, Powers, SMTT(30) DEF WidthIs
<1>14. CASE m = 13
  BY <1>14, Powers, SMTT(30) DEF WidthIs
<1>15. CASE m = 14
  BY <1>15, Powers, SMTT(30) DEF WidthIs
<1>16. CASE m = 15
  BY <1>16, Powers, SMTT(30) DEF WidthIs
<1>17. QED
  BY <1>1, <1>2, <1>3, <1>4, <1>5, <1>6, <1>7, <1>8, <1>9, <1>10, <1>11, <1>12, <1>13, <1>14, <1>15, <1>16, SMTT(30)

\* A larger size is in a wider bin, or in a later one of the same width.
LEMMA TwoBins ==
  ASSUME NEW s \in Nat, NEW t \in Nat, s <= t,
         NEW m \in 0..15, NEW q \in 4..7, NEW k \in 0..15, NEW r \in 4..7,
         InBin(t, m, q), InBin(s, k, r)
  PROVE  k <= m /\ (k = m => r <= q)
<1> DEFINE a == 2^(m + 6)
           b == 2^(k + 6)
<1>1. a \in Nat /\ b \in Nat /\ (m < k => 2 * a <= b) /\ (m = k => a = b)
  <2>1. WidthIs(m, a) /\ WidthIs(k, b)
    BY BinWidth, ZenonT(60)
  <2> HIDE DEF a, b
  <2>2. QED
    BY <2>1, SMTT(30) DEF WidthIs
<1>2. t < (q + 1) * a /\ r * b <= s
  BY DEF InBin
<1> HIDE DEF a, b
<1>3. (q + 1) * a <= 8 * a /\ 4 * b <= r * b
  <2>1. q = 4 \/ q = 5 \/ q = 6 \/ q = 7
    BY SMT
  <2>2. r = 4 \/ r = 5 \/ r = 6 \/ r = 7
    BY SMT
  <2>3. QED
    BY <1>1, <2>1, <2>2, SMTT(30)
<1>4. CASE m < k
  BY <1>1, <1>2, <1>3, <1>4, SMTT(30)
<1>5. CASE k = m
  <2>1. r * a < (q + 1) * a
    BY <1>1, <1>2, <1>5, SMTT(30)
  <2>2. r < q + 1
    BY <1>1, <2>1, SMTT(30)
  <2>3. QED
    BY <1>5, <2>2, SMTT(30)
<1>6. CASE k < m
  BY <1>6, SMTT(30)
<1>7. QED
  BY <1>4, <1>5, <1>6, SMTT(30)

\* Malloc scans upwards and takes any chunk of a higher bin without checking
\* its size (malloc.c:3653 asserts it): no bin below the one of a size holds
\* a larger one, as long as sizes are below 2^32.  Beyond that largebin_index
\* starts again with the lowest bins (malloc.c:2183).
THEOREM BinsMonotone ==
  ASSUME NEW s \in Nat, NEW t \in Nat, s <= t, t < WordSize
  PROVE  bin_index(s) <= bin_index(t)
<1>1. CASE in_smallbin_range(t)
  BY <1>1 DEF bin_index, in_smallbin_range, smallbin_index, MIN_LARGE_SIZE
<1>2. CASE t >= LastBinSize
  <2>1. bin_index(t) = 95
    <3>1. Unsigned8(t) >= 65536
      BY <1>2, Unsigned8OK, SMTT(30) DEF LastBinSize
    <3>2. QED
      BY <1>2, <3>1, SMTT(30) DEF bin_index, largebin_index, in_smallbin_range,
                             MIN_LARGE_SIZE, NBINS, LastBinSize
  <2>2. CASE s >= LastBinSize
    <3>1. s < WordSize
      BY SMTT(30) DEF WordSize
    <3>2. Unsigned8(s) >= 65536
      BY <2>2, <3>1, Unsigned8OK, SMTT(30) DEF LastBinSize
    <3>3. QED
      BY <2>1, <2>2, <3>2, SMTT(30) DEF bin_index, largebin_index,
                 in_smallbin_range, MIN_LARGE_SIZE, NBINS, LastBinSize
  <2>3. CASE in_smallbin_range(s)
    BY <2>1, <2>3, SMTT(30) DEF bin_index, in_smallbin_range, smallbin_index,
                           MIN_LARGE_SIZE
  <2>4. CASE ~in_smallbin_range(s) /\ s < LastBinSize
    BY <2>1, <2>4, LargeBinRange, SMTT(30) DEF bin_index
  <2>5. QED
    BY <2>2, <2>3, <2>4, SMTT(30) DEF LastBinSize
<1>3. CASE ~in_smallbin_range(t) /\ t < LastBinSize
  <2>1. PICK m \in 0..15, q \in 4..7 :
           largebin_index(t) = 28 + 4 * m + q /\ InBin(t, m, q)
    BY <1>3, LargeBinRange, ZenonT(60)
  <2>2. CASE in_smallbin_range(s)
    BY <1>3, <2>1, <2>2, SMTT(30) DEF bin_index, in_smallbin_range, smallbin_index,
                                 MIN_LARGE_SIZE
  <2>3. CASE ~in_smallbin_range(s)
    <3>1. PICK k \in 0..15, r \in 4..7 :
             largebin_index(s) = 28 + 4 * k + r /\ InBin(s, k, r)
      BY <1>3, <2>3, LargeBinRange, SMTT(30) DEF LastBinSize
    <3>2. k <= m /\ (k = m => r <= q)
      BY <2>1, <3>1, TwoBins, ZenonT(60)
    <3>3. QED
      BY <1>3, <2>1, <2>3, <3>1, <3>2, SMTT(30) DEF bin_index
  <2>4. QED
    BY <2>2, <2>3
<1>4. QED
  BY <1>1, <1>2, <1>3, SMTT(30) DEF in_smallbin_range, MIN_LARGE_SIZE, LastBinSize
------------------------------------------------------------------------------
(* The entries of page tables                                              *)

\* A frame is found by its page number.
LEMMA FramePage ==
  ASSUME NEW a \in FrameAddress
  PROVE  /\ a \div 4096 \in Nat /\ a \div 4096 < 17592186044416
         /\ (a \div 4096) * 4096 = a
  BY SMT DEF FrameAddress, FRAME_SIZE, GIGA_SIZE, PPN2_SIZE

\* What configure_page_entry leaves in the entry of a small page or of a table,
\* whatever was there.
LEMMA EntryFields ==
  ASSUME NEW pte \in page_table_entry, NEW a \in FrameAddress,
         NEW read \in Bit, NEW write \in Bit, NEW exec \in Bit,
         NEW user \in Bit,
         NEW e, e = configure_page_entry(pte, a, read, write, exec, user, "KILO")
  PROVE  /\ e.valid = 1 /\ e.read = read /\ e.write = write /\ e.exec = exec
         /\ e.resU = user
         /\ e.ppn0 = (a \div 4096) % 512
         /\ e.ppn1 = ((a \div 4096) \div 512) % 512
         /\ e.ppn2 = ((a \div 4096) \div 262144) % 67108864
<1> DEFINE e1 == set_valid(pte)
           e2 == set_access(e1, read, write, exec)
           e3 == set_user_mode(e2, user)
<1>0. 0 \in Bit /\ 1 \in Bit
  BY DEF Bit
<1>1. e1 \in page_table_entry /\ e1.valid = 1
  BY <1>0, ZenonT(60) DEF page_table_entry, set_valid
<1> HIDE DEF e1
<1>2. /\ e2 \in page_table_entry /\ e2.valid = 1
      /\ e2.read = read /\ e2.write = write /\ e2.exec = exec
  BY <1>1, ZenonT(60) DEF page_table_entry, set_access
<1> HIDE DEF e2
<1>3. /\ e3 \in page_table_entry /\ e3.valid = 1 /\ e3.resU = user
      /\ e3.read = read /\ e3.write = write /\ e3.exec = exec
  BY <1>2, ZenonT(60) DEF page_table_entry, set_user_mode
<1>4. e = link_pte(e3, a)
  BY SMT DEF configure_page_entry, Sized, e1, e2
<1> HIDE DEF e3
<1> DEFINE x == (a \div 4096) % 512
           y == ((a \div 4096) \div 512) % 512
           z == ((a \div 4096) \div 262144) % 67108864
<1>5. e = [e3 EXCEPT !.ppn0 = x, !.ppn1 = y, !.ppn2 = z]
  BY <1>4, SMTT(30) DEF link_pte, FRAME_SIZE, PT_SIZE, PPN2_SIZE
<1>6. e.ppn0 = x /\ e.ppn1 = y /\ e.ppn2 = z =>
        /\ e.ppn0 = (a \div 4096) % 512
        /\ e.ppn1 = ((a \div 4096) \div 512) % 512
        /\ e.ppn2 = ((a \div 4096) \div 262144) % 67108864
  BY SMT
<1> HIDE DEF x, y, z
<1>7. /\ e.valid = e3.valid /\ e.read = e3.read /\ e.write = e3.write
      /\ e.exec = e3.exec /\ e.resU = e3.resU
      /\ e.ppn0 = x /\ e.ppn1 = y /\ e.ppn2 = z
  BY <1>3, <1>5, ZenonT(60) DEF page_table_entry
<1> QED BY <1>3, <1>6, <1>7, SMTT(30)

\* The entry leads to the frame, for the hardware and for the kernel.
LEMMA EntryLeads ==
  ASSUME NEW pte \in page_table_entry, NEW a \in FrameAddress,
         NEW read \in Bit, NEW write \in Bit, NEW exec \in Bit,
         NEW user \in Bit,
         NEW e, e = configure_page_entry(pte, a, read, write, exec, user, "KILO")
  PROVE  At(e) = a /\ find_pte_adress(e) = a
<1> DEFINE p == a \div 4096
           q == p \div 512
           r == p \div 262144
<1>1. p \in Nat /\ p < 17592186044416 /\ p * 4096 = a
  BY FramePage, SMTT(30)
<1>2. /\ e.ppn0 = p % 512
      /\ e.ppn1 = q % 512
      /\ e.ppn2 = r % 67108864
  BY EntryFields, SMTT(30)
<1>3. q = p \div 512 /\ r = p \div 262144
  BY SMT
<1> HIDE DEF p, q, r
<1>4. q \in Nat /\ r \in Nat /\ r < 67108864 /\ r = q \div 512
  BY <1>1, <1>3, SMTT(30)
<1>5. e.ppn0 \in Int /\ e.ppn1 \in Int /\ e.ppn2 \in Int
  BY <1>1, <1>2, <1>4, SMTT(30)
<1>6. p = 512 * q + e.ppn0
  BY <1>1, <1>2, <1>3, SMTT(30)
<1>7. q = 512 * r + e.ppn1 /\ r = e.ppn2
  BY <1>2, <1>4, SMTT(30)
<1> DEFINE x == e.ppn0
           y == e.ppn1
           z == e.ppn2
<1>8. /\ At(e) = (x + 512 * (y + 512 * z)) * 4096
      /\ find_pte_adress(e) = z * 1073741824 + y * 2097152 + x * 4096
  BY SMT DEF At, PT_SIZE, FRAME_SIZE, find_pte_adress, GIGA_SIZE, MEGA_SIZE,
             KILO_SIZE
<1>9. x \in Int /\ y \in Int /\ z \in Int
  BY <1>5
<1>10. x + 512 * (y + 512 * z) = p
  BY <1>4, <1>5, <1>6, <1>7, SMTT(30)
<1> HIDE DEF x, y, z
<1>11. z * 1073741824 + y * 2097152 + x * 4096
         = (x + 512 * (y + 512 * z)) * 4096
  BY <1>9, SMTT(30)
<1> QED BY <1>1, <1>8, <1>10, <1>11, SMTT(30)

-----------------------------------------------------------------------------
\* A frame linked in an entry is the frame found there when the process is
\* freed (find_pte_adress undoes link_pte), and the one the hardware goes to,
\* whatever the entry held before.
THEOREM LinkedFrameFound ==
  ASSUME NEW pte \in page_table_entry, NEW a \in FrameAddress
  PROVE  /\ find_pte_adress(SharedEntry(pte, a)) = a
         /\ At(SharedEntry(pte, a)) = a
         /\ At(TableEntry(pte, a)) = a
<1>1. 0 \in Bit /\ 1 \in Bit
  BY DEF Bit
<1> QED BY <1>1, EntryLeads, SMTT(30) DEF SharedEntry, TableEntry

\* The walk goes on from the entry of a table, and ends at the entry of a
\* shared page.
LEMMA EntriesWalked ==
  ASSUME NEW pte \in page_table_entry, NEW a \in FrameAddress
  PROVE  /\ TableEntry(pte, a).valid = 1 /\ ~is_leaf(TableEntry(pte, a))
         /\ SharedEntry(pte, a).valid = 1 /\ is_leaf(SharedEntry(pte, a))
<1>1. 0 \in Bit /\ 1 \in Bit
  BY DEF Bit
<1>2. /\ TableEntry(pte, a).valid = 1
      /\ TableEntry(pte, a).read = 0 /\ TableEntry(pte, a).exec = 0
  BY <1>1, EntryFields, SMTT(30) DEF TableEntry
<1>3. SharedEntry(pte, a).valid = 1 /\ SharedEntry(pte, a).read = 1
  BY <1>1, EntryFields, SMTT(30) DEF SharedEntry
<1> QED BY <1>2, <1>3, SMTT(30) DEF is_leaf

\* The virtual address of a byte of the page at a place is taken apart into
\* the indexes of the place.
LEMMA PlaceIndexes ==
  ASSUME NEW i2 \in Index, NEW i1 \in Index, NEW i0 \in Index,
         NEW off \in Offset
  PROVE  LET va == map_address_for_process(i2, i1, i0) + off
         IN /\ VPN2(va) = i2 /\ VPN1(va) = i1 /\ VPN0(va) = i0
            /\ va % KILO_SIZE = off
<1> DEFINE va == map_address_for_process(i2, i1, i0) + off
<1>1. i2 \in 0..511 /\ i1 \in 0..511 /\ i0 \in 0..511 /\ off \in 0..4095
  BY SMT DEF Index, PT_SIZE, Offset, FRAME_SIZE
<1>2. va = i2 * 1073741824 + i1 * 2097152 + i0 * 4096 + off
  BY SMT DEF map_address_for_process, GIGA_SIZE, MEGA_SIZE, KILO_SIZE, FRAME_SIZE
<1> HIDE DEF va
<1>3. /\ va \div 1073741824 = i2
      /\ va \div 2097152 = i2 * 512 + i1
      /\ va \div 4096 = i2 * 262144 + i1 * 512 + i0
      /\ va % 4096 = off
  BY <1>1, <1>2, SMTT(30)
<1>4. /\ i2 % 512 = i2
      /\ (i2 * 512 + i1) % 512 = i1
      /\ (i2 * 262144 + i1 * 512 + i0) % 512 = i0
  BY <1>1, SMTT(30)
<1>5. /\ VPN2(va) = i2 /\ VPN1(va) = i1 /\ VPN0(va) = i0
      /\ va % KILO_SIZE = off
  BY <1>3, <1>4, SMTT(30) DEF VPN2, VPN1, VPN0, GIGA_SIZE, MEGA_SIZE, KILO_SIZE,
                         FRAME_SIZE, PT_SIZE
<1> QED BY <1>5, ZenonT(60) DEF va

\* Every byte of a shared page is reached at the address shm_create or
\* shm_acquire returned plus the byte's offset, once the entries of the three
\* levels are linked, wherever the tables and the page are and whatever the
\* entries held before.
THEOREM SharedPageReached ==
  ASSUME NEW T, NEW root,
         NEW i2 \in Index, NEW i1 \in Index, NEW i0 \in Index,
         NEW off \in Offset,
         NEW table1 \in FrameAddress, NEW table0 \in FrameAddress,
         NEW frame \in FrameAddress,
         NEW pte2 \in page_table_entry, NEW pte1 \in page_table_entry,
         NEW pte0 \in page_table_entry,
         T[root][i2] = TableEntry(pte2, table1),
         T[table1][i1] = TableEntry(pte1, table0),
         T[table0][i0] = SharedEntry(pte0, frame)
  PROVE  Translate(T, root, map_address_for_process(i2, i1, i0) + off)
           = frame + off
<1> DEFINE va == map_address_for_process(i2, i1, i0) + off
           e2 == TableEntry(pte2, table1)
           e1 == TableEntry(pte1, table0)
           e0 == SharedEntry(pte0, frame)
<1>1. VPN2(va) = i2 /\ VPN1(va) = i1 /\ VPN0(va) = i0 /\ va % KILO_SIZE = off
  BY PlaceIndexes, SMTT(30)
<1>2. e2.valid = 1 /\ ~is_leaf(e2) /\ At(e2) = table1
  BY EntriesWalked, LinkedFrameFound, SMTT(30)
<1>3. e1.valid = 1 /\ ~is_leaf(e1) /\ At(e1) = table0
  BY EntriesWalked, LinkedFrameFound, SMTT(30)
<1>4. e0.valid = 1 /\ is_leaf(e0) /\ At(e0) = frame
  BY EntriesWalked, LinkedFrameFound, SMTT(30)
<1>5. T[root][i2] = e2 /\ T[table1][i1] = e1 /\ T[table0][i0] = e0
  OBVIOUS
<1> HIDE DEF va, e2, e1, e0
<1>6. Level0(e0, va) = frame + off
  BY <1>1, <1>4, SMTT(30) DEF Level0
<1>7. Level1(T, e1, va) = frame + off
  BY <1>1, <1>3, <1>5, <1>6, SMTT(30) DEF Level1
<1>8. Level2(T, e2, va) = frame + off
  BY <1>1, <1>2, <1>5, <1>7, SMTT(30) DEF Level2
<1>9. Translate(T, root, va) = frame + off
  BY <1>1, <1>5, <1>8, SMTT(30) DEF Translate
<1> QED BY <1>9 DEF va
\* After shm_release the same addresses fault, although release configures the
\* entry it has just made invalid, which makes it valid again.
THEOREM ReleasedPageFaults ==
  ASSUME NEW T, NEW root,
         NEW i2 \in Index, NEW i1 \in Index, NEW i0 \in Index,
         NEW off \in Offset,
         NEW table1 \in FrameAddress, NEW table0 \in FrameAddress,
         NEW pte2 \in page_table_entry, NEW pte1 \in page_table_entry,
         NEW pte0 \in page_table_entry,
         T[root][i2] = TableEntry(pte2, table1),
         T[table1][i1] = TableEntry(pte1, table0),
         T[table0][i0] = ReleasedEntry(pte0)
  PROVE  Translate(T, root, map_address_for_process(i2, i1, i0) + off)
           = PageFault
<1> DEFINE va == map_address_for_process(i2, i1, i0) + off
           e2 == TableEntry(pte2, table1)
           e1 == TableEntry(pte1, table0)
           e0 == ReleasedEntry(pte0)
           gone == set_invalid(pte0)
<1>1. VPN2(va) = i2 /\ VPN1(va) = i1 /\ VPN0(va) = i0
  BY PlaceIndexes, SMTT(30)
<1>2. e2.valid = 1 /\ ~is_leaf(e2) /\ At(e2) = table1
  BY EntriesWalked, LinkedFrameFound, SMTT(30)
<1>3. e1.valid = 1 /\ ~is_leaf(e1) /\ At(e1) = table0
  BY EntriesWalked, LinkedFrameFound, SMTT(30)
<1>4. 0 \in Bit
  BY DEF Bit
<1>5. gone \in page_table_entry
  BY <1>4, ZenonT(60) DEF page_table_entry, set_invalid
<1>6. 0 \in FrameAddress
  BY SMT DEF FrameAddress, FRAME_SIZE, GIGA_SIZE, PPN2_SIZE
<1>7. e0 = configure_page_entry(gone, 0, 0, 0, 0, 0, "KILO")
  BY DEF ReleasedEntry
<1> HIDE DEF e0, gone
<1>8. e0.valid = 1 /\ e0.read = 0 /\ e0.exec = 0
  BY <1>4, <1>5, <1>6, <1>7, EntryFields, SMTT(30)
<1>9. T[root][i2] = e2 /\ T[table1][i1] = e1 /\ T[table0][i0] = e0
  BY DEF e0
<1> HIDE DEF va, e2, e1
<1>10. Level0(e0, va) = PageFault
  BY <1>8, SMTT(30) DEF Level0, is_leaf
<1>11. Level1(T, e1, va) = PageFault
  BY <1>1, <1>3, <1>9, <1>10, SMTT(30) DEF Level1
<1>12. Level2(T, e2, va) = PageFault
  BY <1>1, <1>2, <1>9, <1>11, SMTT(30) DEF Level2
<1>13. Translate(T, root, va) = PageFault
  BY <1>1, <1>9, <1>12, SMTT(30) DEF Translate
<1> QED BY <1>13 DEF va

\* The entry of a gigabyte of the kernel.
LEMMA KernelEntry ==
  ASSUME NEW s \in 0..3, NEW exec \in Bit, NEW e, e = KernelPage(s, exec)
  PROVE  e.valid = 1 /\ e.read = 1 /\ e.ppn0 = 0 /\ e.ppn1 = 0 /\ e.ppn2 = s
<1> DEFINE page == (s * GIGA_SIZE) \div FRAME_SIZE
           x == page % PT_SIZE
           y == (page \div PT_SIZE) % PT_SIZE
           z == (page \div (PT_SIZE * PT_SIZE)) % PPN2_SIZE
           e1 == set_valid(Cleared)
           e2 == set_access(e1, 1, 1, exec)
           e3 == set_user_mode(e2, 0)
           e4 == link_pte(e3, s * GIGA_SIZE)
<1>1. z = s
  BY SMT DEF GIGA_SIZE, FRAME_SIZE, PT_SIZE, PPN2_SIZE
<1>2. e4 = [e3 EXCEPT !.ppn0 = x, !.ppn1 = y, !.ppn2 = z]
  BY ZenonT(60) DEF link_pte
<1>3. e = set_ppn1(set_ppn0(e4, 0), 0)
  BY SMT DEF KernelPage, configure_page_entry, Sized
<1>4. 0 \in Bit /\ 1 \in Bit /\ 0 \in Index /\ 0 \in PPN2
  BY SMT DEF Bit, Index, PT_SIZE, PPN2, PPN2_SIZE
<1>5. Cleared \in page_table_entry
  BY <1>4, ZenonT(60) DEF page_table_entry, Cleared
<1> HIDE DEF x, y, z, e4, e3, e2, e1
<1>6. e1 \in page_table_entry /\ e1.valid = 1
  BY <1>4, <1>5, ZenonT(60) DEF page_table_entry, set_valid, e1
<1>7. e2 \in page_table_entry /\ e2.valid = 1 /\ e2.read = 1
  BY <1>4, <1>6, ZenonT(60) DEF page_table_entry, set_access, e2
<1>8. e3 \in page_table_entry /\ e3.valid = 1 /\ e3.read = 1
  BY <1>4, <1>7, ZenonT(60) DEF page_table_entry, set_user_mode, e3
<1>9. e = [[[e3 EXCEPT !.ppn0 = x, !.ppn1 = y, !.ppn2 = z] EXCEPT !.ppn0 = 0]
             EXCEPT !.ppn1 = 0]
  BY <1>2, <1>3, ZenonT(60) DEF set_ppn0, set_ppn1
<1>10. /\ e.valid = e3.valid /\ e.read = e3.read
       /\ e.ppn0 = 0 /\ e.ppn1 = 0 /\ e.ppn2 = z
  BY <1>8, <1>9, ZenonT(60) DEF page_table_entry
<1> QED BY <1>1, <1>8, <1>10

\* On both machines the kernel's directory maps the gigabytes the kernel works
\* in to themselves: virtual_memory.c turns translation on while the kernel
\* runs, and every address it holds keeps its meaning.
THEOREM KernelIdentity ==
  ASSUME NEW T, NEW root, NEW virt \in BOOLEAN,
         T[root] = init_directory(virt),
         NEW s \in KernelSpaces(virt), NEW off \in GigaOffset
  PROVE  Translate(T, root, s * GIGA_SIZE + off) = s * GIGA_SIZE + off
<1> DEFINE va == s * GIGA_SIZE + off
           e == T[root][s]
<1>1. s \in 0..3
  BY SMT DEF KernelSpaces, KERNEL_SPACE, VRAM_SPACE_1, VRAM_SPACE_2
<1>2. \E exec \in Bit : e = KernelPage(s, exec)
  <2>1. s \in Index /\ DOMAIN create_page_table = Index
    BY <1>1, SMTT(30) DEF create_page_table, Index, PT_SIZE
  <2>2. CASE virt
    <3>1. s = 0 \/ s = 2
      BY <2>2, SMTT(30) DEF KernelSpaces, KERNEL_SPACE, VRAM_SPACE_1
    <3>2. e = KernelPage(s, 1)
      BY <2>1, <2>2, <3>1, SMTT(30)
         DEF init_directory, KERNEL_SPACE, VRAM_SPACE_1
    <3> QED BY <3>2, SMTT(30) DEF Bit
  <2>3. CASE ~virt
    <3>1. s = 0 \/ s = 2 \/ s = 3
      BY <2>3, SMTT(30) DEF KernelSpaces, KERNEL_SPACE, VRAM_SPACE_1, VRAM_SPACE_2
    <3>2. e = KernelPage(s, 0) \/ e = KernelPage(s, 1)
      BY <2>1, <2>3, <3>1, SMTT(30)
         DEF init_directory, KERNEL_SPACE, USERSPACE, VRAM_SPACE_1, VRAM_SPACE_2
    <3> QED BY <3>2, SMTT(30) DEF Bit
  <2> QED BY <2>2, <2>3
<1>3. /\ e.valid = 1 /\ e.read = 1
      /\ e.ppn0 = 0 /\ e.ppn1 = 0 /\ e.ppn2 = s
  BY <1>1, <1>2, KernelEntry, SMTT(30)
<1>4. VPN2(va) = s /\ va % GIGA_SIZE = off
  BY <1>1, SMTT(30) DEF VPN2, GIGA_SIZE, PT_SIZE, GigaOffset
<1> HIDE DEF e
<1>5. At(e) = s * GIGA_SIZE
  BY <1>1, <1>3, SMTT(30) DEF At, PT_SIZE, FRAME_SIZE, GIGA_SIZE
<1>6. Level2(T, e, va) = s * GIGA_SIZE + off
  BY <1>3, <1>4, <1>5, SMTT(30) DEF Level2, is_leaf
<1> QED BY <1>4, <1>6, SMTT(30) DEF Translate, e
==============================================================================
