----------------------------- MODULE Dictionary -----------------------------
(***************************************************************************)
(* What include/hash.h promises of a hash table: a map from keys to        *)
(* values.  "answer" is what the last call returned, <<>> when nothing.    *)
(***************************************************************************)
EXTENDS Integers

CONSTANTS Keys, Values, Default

VARIABLES
  dict,   \* the map, a function on the keys that are set
  answer

TypeOK == /\ DOMAIN dict \subseteq Keys
          /\ \A k \in DOMAIN dict : dict[k] \in Values

Init == DOMAIN dict = {} /\ answer = << >>

Without(k) == [j \in DOMAIN dict \ {k} |-> dict[j]]

Bound(k, v) ==
  dict' = [j \in DOMAIN dict \cup {k} |-> IF j = k THEN v ELSE dict[j]]

Unbound(k) == dict' = Without(k)

\* 0 is returned when the call has succeeded, and nothing else.
Set(k, v) == answer' = <<0>> /\ Bound(k, v)

Delete(k) == answer' = <<0>> /\ Unbound(k)

\* A call that has not succeeded has done nothing.
Refuse == answer' = <<-1>> /\ UNCHANGED dict

Get(k) == answer' = <<IF k \in DOMAIN dict THEN dict[k] ELSE Default>>

IsSet(k) == answer' = <<IF k \in DOMAIN dict THEN 1 ELSE 0>>

Clear == answer' = << >> /\ DOMAIN dict' = {}

Next ==
  \/ UNCHANGED dict /\ \E k \in Keys : Get(k) \/ IsSet(k)
  \/ Refuse
  \/ Clear
  \/ \E k \in Keys : Delete(k) \/ \E v \in Values : Set(k, v)

Spec == Init /\ [][Next]_<<dict, answer>>
=============================================================================
