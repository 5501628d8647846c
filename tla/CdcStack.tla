------------------------------ MODULE CdcStack ------------------------------
(***************************************************************************)
(* What the CDC stream promises to a consumer, with no block cache, no     *)
(* polling and no RPC in sight (docs/cdc-concepts.md, "CDC and Reorgs" and *)
(* "CDC and Ordering"): the blocks whose changes are in force form a stack *)
(* ordered by height.  A block enters above everything in force; a reorg   *)
(* withdraws everything above some height, and nothing at or below it.     *)
(***************************************************************************)
EXTENDS Integers

CONSTANTS Height,    \* block heights
          Version    \* what tells two blocks of one height apart

VARIABLE inForce     \* the <<height, version>> pairs whose changes are in force

TypeOK == inForce \subseteq Height \X Version

Init == inForce = {}

Publish(k, v) ==
  /\ \A b \in inForce : b[1] < k
  /\ inForce' = inForce \cup {<<k, v>>}

WithdrawAbove(a) == inForce' = {b \in inForce : b[1] <= a}

Next == \/ \E k \in Height, v \in Version : Publish(k, v)
        \/ \E a \in Height : WithdrawAbove(a)

Spec == Init /\ [][Next]_inForce

=============================================================================
