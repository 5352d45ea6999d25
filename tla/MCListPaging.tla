---------------------------- MODULE MCListPaging -----------------------------
(* The instance of ListPaging for TLC. *)
EXTENDS ListPaging

CONSTANTS s1, s2,       \* DSMs
          v1, v2        \* volumes

\* Snapshots sorted by their volumes, of which the DSMs have one in turn.
InTurn == [i \in Items |-> IF i % 2 = 1 THEN s1 ELSE s2]
ByVolume == [i \in Items |-> IF i % 2 = 1 THEN v1 ELSE v2]

=============================================================================
