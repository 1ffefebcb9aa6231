--------------------------- MODULE SmListMachine ---------------------------
(***************************************************************************)
(* What the lists of sm promise: a pool of nodes, each on one list, and any *)
(* node can be moved to either end of any list.                             *)
(***************************************************************************)
EXTENDS SmLists

CONSTANTS N, Lists, Free   \* nodes 1..N, all of them on the list Free at first

VARIABLE lists

Init == lists = [nodes  |-> [l \in Lists |-> IF l = Free THEN [s \in 1..N |-> s] ELSE <<>>],
                 parent |-> [s \in 1..N |-> Free]]

Next == \E s \in 1..N, dst \in Lists, back \in BOOLEAN :
          lists' = MoveNode(lists, s, dst, back)

Spec == Init /\ [][Next]_lists
=============================================================================
