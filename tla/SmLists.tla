------------------------------ MODULE SmLists -------------------------------
(***************************************************************************)
(* The lists of the sm sysmodule (list.c), seen through their contents.     *)
(* A list family L is a record: L.nodes maps the name of a list to the      *)
(* sequence of its nodes, first to last, and L.parent is the parent field   *)
(* every node carries, which moveNode trusts to find the list to leave.     *)
(* LinkedLists.tla models the same operations on prev, next, first and last *)
(* and is checked to implement these.                                       *)
(***************************************************************************)
EXTENDS Integers, Sequences, SequencesExt

ListNames == {"free", "inUse", "waitReg", "toWake", "waitPort"}

Position(q, e) == CHOOSE i \in DOMAIN q : q[i] = e

(* mutant: the node keeps pointing at the list it has left                  *)
MoveNodeStaleParent(L, s, dst, back) ==
  LET src == L.parent[s]
      left == RemoveAt(L.nodes[src], Position(L.nodes[src], s))
      joined == IF back THEN Append(L.nodes[dst], s) ELSE <<s>> \o L.nodes[dst]
  IN  [L EXCEPT !.nodes = [@ EXCEPT ![src] = left, ![dst] = joined]]

(* moveNode: nothing happens to a node that is already in dst.             *)
MoveNode(L, s, dst, back) ==
  LET src == L.parent[s]
      left == RemoveAt(L.nodes[src], Position(L.nodes[src], s))
      joined == IF back THEN Append(L.nodes[dst], s) ELSE <<s>> \o L.nodes[dst]
  IN  IF src = dst THEN L
      ELSE [nodes  |-> [L.nodes EXCEPT ![src] = left, ![dst] = joined],
            parent |-> [L.parent EXCEPT ![s] = dst]]

(* Every node is in the list its parent field names, in no other, and once. *)
IsPartition(L, Nodes) ==
  /\ \A l \in DOMAIN L.nodes : \A i \in DOMAIN L.nodes[l] :
       /\ L.nodes[l][i] \in Nodes
       /\ L.parent[L.nodes[l][i]] = l
       /\ \A j \in DOMAIN L.nodes[l] : L.nodes[l][i] = L.nodes[l][j] => i = j
  /\ \A s \in Nodes : \E i \in DOMAIN L.nodes[L.parent[s]] :
       L.nodes[L.parent[s]][i] = s
=============================================================================
