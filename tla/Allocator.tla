----------------------------- MODULE Allocator -----------------------------
(***************************************************************************)
(* What a heap allocator promises its client.  Its state is the set of the *)
(* blocks the client holds: address |-> [size, align, defined], where      *)
(* "defined" is the number of leading bytes whose contents the allocator   *)
(* answers for (zeroed by calloc, preserved by realloc).  Nothing is said  *)
(* of where a block goes, only that it is inside the heap, aligned, and    *)
(* shares no byte with another one; and no call touches a block it was not *)
(* given.                                                                  *)
(***************************************************************************)
EXTENDS Integers, FiniteSets

CONSTANTS Lo, Hi   \* the bounds of the heap

VARIABLE blocks

Without(B, S) == [a \in DOMAIN B \ S |-> B[a]]

Placed(B) ==
  /\ \A a \in DOMAIN B : Lo <= a /\ a + B[a].size <= Hi /\ a % B[a].align = 0
  /\ \A a, b \in DOMAIN B : a < b => a + B[a].size <= b

Init == blocks = << >>

\* malloc, calloc, memalign and the independent_ functions.
Allocate ==
  /\ DOMAIN blocks \subseteq DOMAIN blocks'
  /\ Without(blocks', DOMAIN blocks' \ DOMAIN blocks) = blocks
  /\ \A a \in DOMAIN blocks' \ DOMAIN blocks :
       blocks'[a].defined \in {0, blocks'[a].size}
  /\ Placed(blocks')

Release == \E a \in DOMAIN blocks : blocks' = Without(blocks, {a})

\* realloc: the block may move, and keeps what fits of its contents.
Resize ==
  \E a \in DOMAIN blocks : \E b \in DOMAIN blocks' :
    /\ Without(blocks', {b}) = Without(blocks, {a})
    /\ b \notin DOMAIN blocks \ {a}
    /\ blocks'[b].defined = IF blocks'[b].size < blocks[a].size
                            THEN blocks'[b].size ELSE blocks[a].size
    /\ Placed(blocks')

Next == Allocate \/ Release \/ Resize

Spec == Init /\ [][Next]_blocks
=============================================================================
