----------------------------- MODULE MCHashTable -----------------------------
(* Keys whose hashes collide in a table of 8 slots, three of them entirely. *)
EXTENDS HashTable

CONSTANTS k1, k2, k3, k4, k5, k6

MCHash == k1 :> 3 @@ k2 :> 11 @@ k3 :> 11 @@ k4 :> 11 @@ k5 :> 259 @@ k6 :> 6

MCBindings == {<<k, 1>> : k \in Keys} \cup {<<k1, 2>>}

\* Keys of the same hash, and no other, may be exchanged.
SameHash == Permutations({k2, k3, k4})
=============================================================================
