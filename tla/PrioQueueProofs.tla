--------------------------- MODULE PrioQueueProofs ---------------------------
(***************************************************************************)
(* What the operations of lib/include/queue.h do, for queues of any length *)
(* over any set of elements.  The modules about the kernel cite these      *)
(* lemmas instead of the definitions.                                      *)
(***************************************************************************)
EXTENDS PrioQueue, WellFoundedInduction, TLAPS

(* A queue is a function on the places from 1 to its length ...            *)
LEMMA LenProperties ==
  ASSUME NEW S, NEW q \in Seq(S)
  PROVE  Len(q) \in Nat /\ DOMAIN q = 1..Len(q) /\ q \in [1..Len(q) -> S]
OBVIOUS

(* ... which is 0 for the empty queue only.                                *)
LEMMA EmptySeq ==
  ASSUME NEW S
  PROVE  /\ << >> \in Seq(S) /\ Len(<< >>) = 0
         /\ \A q \in Seq(S) : q # << >> => Len(q) \in Nat \ {0}
OBVIOUS

(* The places of the part of a queue from m to n.                          *)
LEMMA SubSeqProperties ==
  ASSUME NEW S, NEW q, NEW m \in Int, NEW n \in Int, \A i \in m..n : q[i] \in S
  PROVE  /\ SubSeq(q, m, n) \in Seq(S)
         /\ Len(SubSeq(q, m, n)) = IF m <= n THEN n - m + 1 ELSE 0
         /\ \A i \in 1..n - m + 1 : SubSeq(q, m, n)[i] = q[m + i - 1]
OBVIOUS

(* The places of two queues put together.                                  *)
LEMMA ConcatProperties ==
  ASSUME NEW S, NEW q \in Seq(S), NEW r \in Seq(S)
  PROVE  /\ q \o r \in Seq(S)
         /\ Len(q \o r) = Len(q) + Len(r)
         /\ \A i \in 1..Len(q) + Len(r) :
              (q \o r)[i] = IF i <= Len(q) THEN q[i] ELSE r[i - Len(q)]
OBVIOUS

(* Every nonempty set of natural numbers has a least element.              *)
LEMMA LeastNat ==
  ASSUME NEW T \in SUBSET Nat, T # {}
  PROVE  \E x \in T : \A y \in T : x <= y
<1>1. IsWellFoundedOn(OpToRel(<, Nat), Nat)
  BY NatLessThanWellFounded
<1>2. PICK x \in T : \A y \in T : ~ (<<y, x>> \in OpToRel(<, Nat))
  BY <1>1, WFMin
<1>3. \A y \in T : ~ (y < x)
  BY <1>2 DEF OpToRel
<1> QED BY <1>3

(* The elements of a queue are the values at its places.                   *)
LEMMA QueueElements ==
  ASSUME NEW S, NEW q \in Seq(S)
  PROVE  \A x \in Range(q) : x \in S
BY LenProperties DEF Range

(* The scan of queue_add stops somewhere: at the first element that is not *)
(* below the new one, or after the last element.                           *)
LEMMA InsertionPointExists ==
  ASSUME NEW S, NEW q \in Seq(S), NEW e \in S, NEW key \in [S -> Int]
  PROVE  LET i == InsertionPoint(q, e, key) IN
           /\ i \in 1..Len(q)+1
           /\ i <= Len(q) => key[q[i]] >= key[e]
           /\ \A j \in 1..i-1 : key[q[j]] < key[e]
<1> DEFINE T == {i \in 1..Len(q)+1 : i <= Len(q) => key[q[i]] >= key[e]}
<1>1. Len(q) \in Nat /\ \A j \in 1..Len(q) : q[j] \in S
  BY LenProperties
<1>2. \A j \in 1..Len(q) : key[q[j]] \in Int
  BY <1>1
<1>3. T \in SUBSET Nat /\ Len(q)+1 \in T
  BY <1>1
<1>4. PICK i \in T : \A y \in T : i <= y
  BY <1>3, LeastNat
<1>5. \A j \in 1..i-1 : key[q[j]] < key[e]
  <2> TAKE j \in 1..i-1
  <2>1. j \in 1..Len(q) /\ j \notin T
    BY <1>1, <1>4
  <2> QED BY <2>1, <1>2
<1>6. \E k \in 1..Len(q)+1 :
        /\ k <= Len(q) => key[q[k]] >= key[e]
        /\ \A j \in 1..k-1 : key[q[j]] < key[e]
  BY <1>4, <1>5
<1> QED BY <1>6 DEF InsertionPoint

(* The elements of the queue after queue_add, place by place.              *)
LEMMA QueueAddElements ==
  ASSUME NEW S, NEW q \in Seq(S), NEW e \in S, NEW key \in [S -> Int]
  PROVE  LET i == InsertionPoint(q, e, key)
             r == queue_add(q, e, key)
         IN  /\ r \in Seq(S)
             /\ Len(r) = Len(q) + 1
             /\ \A j \in 1..Len(q)+1 :
                  r[j] = IF j < i THEN q[j] ELSE IF j = i THEN e ELSE q[j-1]
<1> DEFINE i == InsertionPoint(q, e, key)
           a == SubSeq(q, 1, i-1)
           b == SubSeq(q, i, Len(q))
<1>1. i \in 1..Len(q)+1
  BY InsertionPointExists
<1>2. Len(q) \in Nat /\ \A j \in 1..Len(q) : q[j] \in S
  BY LenProperties
<1> HIDE DEF i
<1>3. a \in Seq(S) /\ Len(a) = i-1 /\ \A j \in 1..i-1 : a[j] = q[j]
  <2>1. 1 \in Int /\ i - 1 \in Int /\ \A j \in 1..i-1 : q[j] \in S
    BY <1>1, <1>2
  <2>2. /\ a \in Seq(S) /\ Len(a) = IF 1 <= i-1 THEN (i-1)-1+1 ELSE 0
        /\ \A j \in 1..(i-1)-1+1 : a[j] = q[1+j-1]
    BY ONLY <2>1, SubSeqProperties
  <2> HIDE DEF a
  <2> QED BY <2>2, <1>1, <1>2
<1>4. /\ b \in Seq(S) /\ Len(b) = Len(q)-i+1
      /\ \A j \in 1..Len(q)-i+1 : b[j] = q[i+j-1]
  <2>1. i \in Int /\ Len(q) \in Int /\ \A j \in i..Len(q) : q[j] \in S
    BY <1>1, <1>2
  <2>2. /\ b \in Seq(S) /\ Len(b) = IF i <= Len(q) THEN Len(q)-i+1 ELSE 0
        /\ \A j \in 1..Len(q)-i+1 : b[j] = q[i+j-1]
    BY ONLY <2>1, SubSeqProperties
  <2> HIDE DEF b
  <2> QED BY <2>2, <1>1, <1>2
<1>5. <<e>> \in Seq(S) /\ Len(<<e>>) = 1 /\ <<e>>[1] = e
  OBVIOUS
<1> DEFINE c == a \o <<e>>
<1> HIDE DEF a, b
<1>6. /\ c \in Seq(S) /\ Len(c) = i
      /\ \A j \in 1..i : c[j] = IF j <= i-1 THEN q[j] ELSE e
  <2>1. /\ c \in Seq(S) /\ Len(c) = Len(a) + 1
        /\ \A j \in 1..Len(a)+1 :
             c[j] = IF j <= Len(a) THEN a[j] ELSE <<e>>[j - Len(a)]
    BY <1>3, <1>5, ConcatProperties
  <2> QED BY <2>1, <1>1, <1>3, <1>5
<1> HIDE DEF c
<1> DEFINE r == c \o b
<1>7. /\ r \in Seq(S) /\ Len(r) = Len(c) + Len(b)
      /\ \A j \in 1..Len(c)+Len(b) :
           r[j] = IF j <= Len(c) THEN c[j] ELSE b[j - Len(c)]
  BY <1>4, <1>6, ConcatProperties
<1>8. queue_add(q, e, key) = r
  BY DEF queue_add, a, b, c, i
<1> HIDE DEF r
<1>9. Len(r) = Len(q) + 1
  BY <1>1, <1>2, <1>4, <1>6, <1>7
<1>10. ASSUME NEW j \in 1..Len(q)+1
       PROVE  r[j] = IF j < i THEN q[j] ELSE IF j = i THEN e ELSE q[j-1]
  <2>1. j \in Int /\ i \in Int /\ Len(c) = i /\ j \in 1..Len(c)+Len(b)
    BY <1>1, <1>2, <1>6, <1>7, <1>9
  <2>2. CASE j <= i
    <3>1. r[j] = c[j]
      BY <2>1, <2>2, <1>7
    <3> QED BY <2>1, <2>2, <3>1, <1>6
  <2>3. CASE ~(j <= i)
    <3>1. r[j] = b[j - i]
      BY <2>1, <2>3, <1>7
    <3>2. j - i \in 1..Len(q)-i+1 /\ i + (j-i) - 1 = j - 1
      BY <2>1, <2>3, <1>2
    <3>3. b[j - i] = q[j - 1]
      BY <3>2, <1>4
    <3> QED BY <2>1, <2>3, <3>1, <3>3
  <2> QED BY <2>2, <2>3
<1> QED BY <1>7, <1>8, <1>9, <1>10 DEF i

(* The four facts about queue_add the kernel relies on: it stores exactly  *)
(* one more element, keeps the elements distinct, keeps the order, and     *)
(* never returns an empty queue.                                           *)
LEMMA QueueAdd ==
  ASSUME NEW S, NEW q \in Seq(S), NEW e \in S, NEW key \in [S -> Int]
  PROVE  /\ queue_add(q, e, key) \in Seq(S)
         /\ Range(queue_add(q, e, key)) = Range(q) \cup {e}
         /\ IsInjective(q) /\ e \notin Range(q)
              => IsInjective(queue_add(q, e, key))
         /\ SortedBy(q, key) => SortedBy(queue_add(q, e, key), key)
<1> DEFINE i == InsertionPoint(q, e, key)
           r == queue_add(q, e, key)
<1>1. /\ i \in 1..Len(q)+1
      /\ i <= Len(q) => key[q[i]] >= key[e]
      /\ \A j \in 1..i-1 : key[q[j]] < key[e]
  BY InsertionPointExists
<1>2. /\ r \in Seq(S) /\ Len(r) = Len(q) + 1
      /\ \A j \in 1..Len(q)+1 :
           r[j] = IF j < i THEN q[j] ELSE IF j = i THEN e ELSE q[j-1]
  BY QueueAddElements
<1> HIDE DEF i, r
<1>3. /\ Len(q) \in Nat /\ DOMAIN q = 1..Len(q) /\ DOMAIN r = 1..Len(q)+1
      /\ i \in Int
      /\ \A j \in 1..Len(q) : q[j] \in S
  BY <1>1, <1>2, LenProperties
<1>4. Range(r) = Range(q) \cup {e}
  <2>1. ASSUME NEW j \in 1..Len(q)+1 PROVE r[j] \in Range(q) \cup {e}
    <3>1. CASE j < i
      <4>1. j \in 1..Len(q) /\ r[j] = q[j]
        BY <3>1, <1>1, <1>2, <1>3
      <4> QED BY <4>1, <1>3 DEF Range
    <3>2. CASE j = i
      BY <3>2, <1>1, <1>2, <1>3
    <3>3. CASE j > i
      <4>1. j - 1 \in 1..Len(q) /\ r[j] = q[j-1]
        BY <3>3, <1>1, <1>2, <1>3
      <4> QED BY <4>1, <1>3 DEF Range
    <3> QED BY <3>1, <3>2, <3>3, <1>3
  <2>2. e \in Range(r)
    <3>1. i \in DOMAIN r /\ r[i] = e
      BY <1>1, <1>2, <1>3
    <3> QED BY <3>1 DEF Range
  <2>3. ASSUME NEW j \in 1..Len(q) PROVE q[j] \in Range(r)
    <3>1. CASE j < i
      <4>1. j \in DOMAIN r /\ r[j] = q[j]
        BY <3>1, <1>1, <1>2, <1>3
      <4> QED BY <4>1 DEF Range
    <3>2. CASE j >= i
      <4>1. j+1 \in DOMAIN r /\ r[j+1] = q[(j+1)-1] /\ (j+1)-1 = j
        BY <3>2, <1>1, <1>2, <1>3
      <4> QED BY <4>1 DEF Range
    <3> QED BY <3>1, <3>2, <1>3
  <2> QED BY <2>1, <2>2, <2>3, <1>3 DEF Range
<1>5. ASSUME IsInjective(q), e \notin Range(q) PROVE IsInjective(r)
  <2> SUFFICES ASSUME NEW x \in 1..Len(q)+1, NEW y \in 1..Len(q)+1,
                      r[x] = r[y], x < y
               PROVE  FALSE
    BY <1>3 DEF IsInjective
  <2>1. \A j \in 1..Len(q) : q[j] # e
    BY <1>3, <1>5 DEF Range
  <2>2. \A j, k \in 1..Len(q) : q[j] = q[k] => j = k
    BY <1>3, <1>5 DEF IsInjective
  <2>3. CASE y < i
    BY <2>2, <2>3, <1>1, <1>2, <1>3
  <2>4. CASE y = i
    BY <2>1, <2>4, <1>1, <1>2, <1>3
  <2>5. CASE y > i /\ x = i
    BY <2>1, <2>5, <1>1, <1>2, <1>3
  <2>6. CASE y > i /\ x < i
    BY <2>2, <2>6, <1>1, <1>2, <1>3
  <2>7. CASE y > i /\ x > i
    <3>1. /\ y-1 \in 1..Len(q) /\ x-1 \in 1..Len(q) /\ x-1 # y-1
          /\ r[y] = q[y-1] /\ r[x] = q[x-1]
      BY <2>7, <1>1, <1>2, <1>3
    <3> QED BY <3>1, <2>2
  <2> QED BY <2>3, <2>4, <2>5, <2>6, <2>7, <1>3
<1>6. ASSUME SortedBy(q, key) PROVE SortedBy(r, key)
  <2> SUFFICES ASSUME NEW x \in 1..Len(q)+1, NEW y \in 1..Len(q)+1, x < y
               PROVE  key[r[x]] <= key[r[y]]
    BY <1>3 DEF SortedBy
  <2>1. \A j, k \in 1..Len(q) : j < k => key[q[j]] <= key[q[k]]
    BY <1>3, <1>6 DEF SortedBy
  <2>2. \A j \in 1..Len(q) : key[q[j]] \in Int
    BY <1>3
  <2>3. \A j \in 1..Len(q) : j >= i => key[q[j]] >= key[e]
    BY <2>1, <2>2, <1>1, <1>3
  <2>4. CASE y < i
    BY <2>1, <2>4, <1>1, <1>2, <1>3
  <2>5. CASE y = i
    BY <2>2, <2>5, <1>1, <1>2, <1>3
  <2>6. CASE y > i /\ x = i
    <3>1. y-1 \in 1..Len(q) /\ y-1 >= i /\ r[y] = q[y-1] /\ r[x] = e
      BY <2>6, <1>1, <1>2, <1>3
    <3> QED BY <3>1, <2>2, <2>3
  <2>7. CASE y > i /\ x < i
    <3>1. y-1 \in 1..Len(q) /\ y-1 >= i /\ r[y] = q[y-1] /\ r[x] = q[x]
          /\ x \in 1..i-1 /\ x \in 1..Len(q)
      BY <2>7, <1>1, <1>2, <1>3
    <3>2. key[q[x]] < key[e] /\ key[q[y-1]] >= key[e]
      BY <3>1, <2>3, <1>1
    <3>3. key[q[x]] \in Int /\ key[q[y-1]] \in Int /\ key[e] \in Int
      BY <3>1, <2>2
    <3> QED BY <3>1, <3>2, <3>3
  <2>8. CASE y > i /\ x > i
    <3>1. /\ y-1 \in 1..Len(q) /\ x-1 \in 1..Len(q) /\ x-1 < y-1
          /\ r[y] = q[y-1] /\ r[x] = q[x-1]
      BY <2>8, <1>1, <1>2, <1>3
    <3> QED BY <3>1, <2>1
  <2> QED BY <2>4, <2>5, <2>6, <2>7, <2>8, <1>3
<1> QED BY <1>2, <1>4, <1>5, <1>6 DEF r

(* queue_top is an element no other exceeds, and queue_out removes it and  *)
(* nothing else.                                                           *)
LEMMA QueueOut ==
  ASSUME NEW S, NEW q \in Seq(S), q # << >>, NEW key \in [S -> Int]
  PROVE  /\ queue_top(q) \in Range(q) /\ queue_top(q) \in S
         /\ queue_out(q) \in Seq(S)
         /\ Range(queue_out(q)) \cup {queue_top(q)} = Range(q)
         /\ IsInjective(q) => /\ IsInjective(queue_out(q))
                              /\ queue_top(q) \notin Range(queue_out(q))
         /\ SortedBy(q, key) =>
              /\ SortedBy(queue_out(q), key)
              /\ \A x \in Range(q) : key[x] <= key[queue_top(q)]
<1> DEFINE n == Len(q)
           r == queue_out(q)
<1>1. n \in Nat \ {0} /\ DOMAIN q = 1..n /\ \A j \in 1..n : q[j] \in S
  BY EmptySeq, LenProperties
<1> HIDE DEF n
<1>2. /\ r \in Seq(S) /\ Len(r) = n-1
      /\ \A j \in 1..n-1 : r[j] = q[j]
  <2>1. n-1 \in Int /\ \A j \in 1..n-1 : q[j] \in S
    BY <1>1
  <2>2. /\ SubSeq(q, 1, n-1) \in Seq(S)
        /\ Len(SubSeq(q, 1, n-1)) = IF 1 <= n-1 THEN (n-1)-1+1 ELSE 0
        /\ \A j \in 1..(n-1)-1+1 : SubSeq(q, 1, n-1)[j] = q[1+j-1]
    BY <2>1, SubSeqProperties
  <2>3. r = SubSeq(q, 1, n-1)
    BY DEF queue_out, n
  <2> HIDE DEF r
  <2> QED BY <2>2, <2>3, <1>1
<1>3. DOMAIN r = 1..n-1
  BY <1>2, LenProperties
<1>4. queue_top(q) = q[n] /\ n \in DOMAIN q
  BY <1>1 DEF queue_top, n
<1> HIDE DEF r
<1>5. queue_top(q) \in Range(q) /\ queue_top(q) \in S
  BY <1>1, <1>4 DEF Range
<1>6. Range(r) \cup {queue_top(q)} = Range(q)
  <2>1. \A j \in 1..n-1 : r[j] = q[j] /\ j \in 1..n
    BY <1>1, <1>2
  <2>2. \A j \in 1..n : j = n \/ j \in 1..n-1
    BY <1>1
  <2> QED BY <2>1, <2>2, <1>1, <1>3, <1>4 DEF Range
<1>7. ASSUME IsInjective(q)
      PROVE  IsInjective(r) /\ queue_top(q) \notin Range(r)
  <2>1. \A j, k \in 1..n : q[j] = q[k] => j = k
    BY <1>1, <1>7 DEF IsInjective
  <2>2. \A j \in 1..n-1 : r[j] = q[j] /\ j \in 1..n /\ j # n
    BY <1>1, <1>2
  <2> QED BY <2>1, <2>2, <1>1, <1>3, <1>4 DEF IsInjective, Range
<1>8. ASSUME SortedBy(q, key)
      PROVE  /\ SortedBy(r, key)
             /\ \A x \in Range(q) : key[x] <= key[queue_top(q)]
  <2>1. \A j, k \in 1..n : j < k => key[q[j]] <= key[q[k]]
    BY <1>1, <1>8 DEF SortedBy
  <2>2. \A j \in 1..n-1 : r[j] = q[j] /\ j \in 1..n
    BY <1>1, <1>2
  <2>3. \A j \in 1..n : key[q[j]] \in Int /\ (j = n \/ j < n)
    BY <1>1
  <2>4. \A j \in 1..n : key[q[j]] <= key[q[n]]
    BY <2>1, <2>3, <1>1
  <2>5. SortedBy(r, key)
    BY <2>1, <2>2, <1>3 DEF SortedBy
  <2> QED BY <2>4, <2>5, <1>1, <1>4 DEF Range
<1> QED BY <1>2, <1>5, <1>6, <1>7, <1>8 DEF r

(* queue_del removes the given element and nothing else, and keeps the     *)
(* order of the others.                                                    *)
LEMMA QueueDel ==
  ASSUME NEW S, NEW q \in Seq(S), NEW e \in Range(q), IsInjective(q)
  PROVE  /\ queue_del(q, e) \in Seq(S)
         /\ Range(queue_del(q, e)) = Range(q) \ {e}
         /\ IsInjective(queue_del(q, e))
         /\ \A key : SortedBy(q, key) => SortedBy(queue_del(q, e), key)
<1> DEFINE n == Len(q)
           i == CHOOSE k \in DOMAIN q : q[k] = e
           a == SubSeq(q, 1, i-1)
           b == SubSeq(q, i+1, n)
           r == a \o b
<1>1. n \in Nat /\ DOMAIN q = 1..n /\ \A j \in 1..n : q[j] \in S
  BY LenProperties
<1>2. i \in 1..n /\ q[i] = e
  BY <1>1 DEF Range
<1>3. queue_del(q, e) = r
  BY DEF queue_del
<1> HIDE DEF i, n
<1>4. a \in Seq(S) /\ Len(a) = i-1 /\ \A j \in 1..i-1 : a[j] = q[j]
  <2>1. 1 \in Int /\ i - 1 \in Int /\ \A j \in 1..i-1 : q[j] \in S
    BY <1>1, <1>2
  <2>2. /\ a \in Seq(S) /\ Len(a) = IF 1 <= i-1 THEN (i-1)-1+1 ELSE 0
        /\ \A j \in 1..(i-1)-1+1 : a[j] = q[1+j-1]
    BY ONLY <2>1, SubSeqProperties
  <2> HIDE DEF a
  <2> QED BY <2>2, <1>1, <1>2
<1>5. /\ b \in Seq(S) /\ Len(b) = n-i
      /\ \A j \in 1..n-i : b[j] = q[i+j]
  <2>1. i+1 \in Int /\ n \in Int /\ \A j \in i+1..n : q[j] \in S
    BY <1>1, <1>2
  <2>2. /\ b \in Seq(S) /\ Len(b) = IF i+1 <= n THEN n-(i+1)+1 ELSE 0
        /\ \A j \in 1..n-(i+1)+1 : b[j] = q[(i+1)+j-1]
    BY <2>1, SubSeqProperties
  <2> HIDE DEF b
  <2>3. \A j \in 1..n-i : j \in 1..n-(i+1)+1 /\ (i+1)+j-1 = i+j
    BY <1>1, <1>2
  <2> QED BY <2>2, <2>3, <1>1, <1>2
<1> HIDE DEF a, b
<1>6. /\ r \in Seq(S) /\ Len(r) = Len(a) + Len(b)
      /\ \A j \in 1..Len(a)+Len(b) :
           r[j] = IF j <= Len(a) THEN a[j] ELSE b[j - Len(a)]
  BY <1>4, <1>5, ConcatProperties
<1> HIDE DEF r
<1>7. DOMAIN r = 1..n-1 /\ n-1 \in Nat /\ i \in Int
  BY <1>1, <1>2, <1>4, <1>5, <1>6, LenProperties
<1>8. ASSUME NEW j \in 1..n-1 PROVE r[j] = IF j < i THEN q[j] ELSE q[j+1]
  <2>1. j \in 1..Len(a)+Len(b) /\ Len(a) = i-1
    BY <1>1, <1>2, <1>4, <1>5
  <2>2. CASE j < i
    <3>1. r[j] = a[j] /\ j \in 1..i-1
      BY <2>1, <2>2, <1>6, <1>7
    <3> QED BY <3>1, <2>2, <1>4
  <2>3. CASE ~(j < i)
    <3>1. r[j] = b[j - (i-1)]
      BY <2>1, <2>3, <1>6, <1>7
    <3>2. j - (i-1) \in 1..n-i /\ i + (j - (i-1)) = j+1
      BY <2>3, <1>1, <1>2, <1>7
    <3>3. b[j - (i-1)] = q[j+1]
      BY <3>2, <1>5
    <3> QED BY <3>1, <3>3, <2>3
  <2> QED BY <2>2, <2>3
<1>9. \A j, k \in 1..n : q[j] = q[k] => j = k
  BY <1>1 DEF IsInjective
<1> DEFINE f(j) == IF j < i THEN j ELSE j+1
<1>10. \A j \in 1..n-1 : f(j) \in 1..n /\ f(j) # i /\ r[j] = q[f(j)]
  BY <1>1, <1>2, <1>7, <1>8
<1>11. \A j, k \in 1..n-1 : j < k => f(j) < f(k)
  BY <1>7
<1>12. \A k \in 1..n : k # i => \E j \in 1..n-1 : f(j) = k
  <2> SUFFICES ASSUME NEW k \in 1..n, k # i PROVE \E j \in 1..n-1 : f(j) = k
    OBVIOUS
  <2>1. CASE k < i
    <3>1. k \in 1..n-1 /\ f(k) = k
      BY <2>1, <1>1, <1>2, <1>7
    <3> QED BY <3>1
  <2>2. CASE k > i
    <3>1. k-1 \in 1..n-1 /\ f(k-1) = k
      BY <2>2, <1>1, <1>2, <1>7
    <3> HIDE DEF f
    <3> QED BY <3>1
  <2> QED BY <2>1, <2>2, <1>7
<1> HIDE DEF f
<1>13. Range(r) = Range(q) \ {e}
  <2>1. \A j \in 1..n-1 : r[j] \in Range(q) /\ r[j] # e
    BY <1>1, <1>2, <1>9, <1>10 DEF Range
  <2>2. ASSUME NEW k \in 1..n, q[k] # e PROVE q[k] \in Range(r)
    <3>1. k # i
      BY <2>2, <1>2
    <3>2. PICK j \in 1..n-1 : f(j) = k
      BY <3>1, <1>12
    <3>3. r[j] = q[k]
      BY <3>2, <1>10
    <3> QED BY <3>3, <1>7 DEF Range
  <2> QED BY <2>1, <2>2, <1>1, <1>7 DEF Range
<1>14. IsInjective(r)
  <2> SUFFICES ASSUME NEW x \in 1..n-1, NEW y \in 1..n-1, x < y
               PROVE  r[x] # r[y]
    BY <1>7 DEF IsInjective
  <2>1. f(x) \in 1..n /\ f(y) \in 1..n /\ f(x) < f(y)
    BY <1>10, <1>11
  <2>2. f(x) # f(y)
    BY <2>1
  <2> QED BY <2>1, <2>2, <1>9, <1>10
<1>15. ASSUME NEW key, SortedBy(q, key) PROVE SortedBy(r, key)
  <2>1. \A j, k \in 1..n : j < k => key[q[j]] <= key[q[k]]
    BY <1>1, <1>15 DEF SortedBy
  <2> QED BY <2>1, <1>7, <1>10, <1>11 DEF SortedBy
<1> QED BY <1>3, <1>6, <1>13, <1>14, <1>15
==============================================================================
