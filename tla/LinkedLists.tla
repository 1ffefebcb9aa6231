---------------------------- MODULE LinkedLists ----------------------------
(***************************************************************************)
(* list.c as it is written: nodes with prev, next and parent pointers,      *)
(* lists with first and last.  It implements SmListMachine, whose MoveNode  *)
(* SmServer is built from.                                                  *)
(***************************************************************************)
EXTENDS Integers, Sequences, SequencesExt

CONSTANTS N, Lists, Free

ASSUME PoolAssumption == N \in Nat \ {0} /\ Free \in Lists

VARIABLES first, last, prev, next, parent
vars == <<first, last, prev, next, parent>>

Null  == 0
Nodes == 1..N

(* buildList links the pool in order; the other lists are zeroed memory.    *)
Init ==
  /\ prev = [s \in Nodes |-> IF s = 1 THEN Null ELSE s - 1]
  /\ next = [s \in Nodes |-> IF s = N THEN Null ELSE s + 1]
  /\ parent = [s \in Nodes |-> Free]
  /\ first = [l \in Lists |-> IF l = Free THEN 1 ELSE Null]
  /\ last  = [l \in Lists |-> IF l = Free THEN N ELSE Null]

(* Assigns v to the field of a node, if there is a node.                    *)
Set(field, s, v) == IF s = Null THEN field ELSE [field EXCEPT ![s] = v]

(* mutant: does not fix the other end of a list that was empty              *)
NormalizeNothing(ends, other, dst) == ends
(* Fills the end of dst that the insertion at the other end left NULL.      *)
Normalize(ends, other, dst) ==
  [ends EXCEPT ![dst] = IF @ = Null THEN other[dst] ELSE @]

(* mutant: leaves the prev of the node behind the removed one               *)
UnlinkPrevForgotten(s) == prev
UnlinkPrev(s) == Set(prev, next[s], prev[s])
UnlinkNext(s) == Set(next, prev[s], next[s])

moveNode(s, dst, back) ==
  LET src == parent[s]
      p == UnlinkPrev(s)
      n == UnlinkNext(s)
      f == [first EXCEPT ![src] = IF @ = s THEN n[s] ELSE @]
      l == [last  EXCEPT ![src] = IF @ = s THEN p[s] ELSE @]
  IN  /\ src # dst
      /\ parent' = [parent EXCEPT ![s] = dst]
      /\ IF back
         THEN LET end == [l EXCEPT ![dst] = s]
              IN  /\ next'  = Set(Set(n, l[dst], s), s, Null)
                  /\ prev'  = Set(p, s, l[dst])
                  /\ last'  = end
                  /\ first' = Normalize(f, end, dst)
         ELSE LET start == [f EXCEPT ![dst] = s]
              IN  /\ prev'  = Set(Set(p, f[dst], s), s, Null)
                  /\ next'  = Set(n, s, f[dst])
                  /\ first' = start
                  /\ last'  = Normalize(l, start, dst)

(* allocateNode, when the free list is not empty: the first node.           *)
allocateNode(dst, back) == first[Free] # Null /\ moveNode(first[Free], dst, back)

Next == \E dst \in Lists, back \in BOOLEAN :
          allocateNode(dst, back) \/ \E s \in Nodes : moveNode(s, dst, back)

Spec == Init /\ [][Next]_vars

---------------------------------------------------------------------------
(* The nodes a loop from an end of a list meets, N at most                  *)
Walk(start, link) ==
  LET path[s \in Nodes \cup {Null}, k \in 0..N] ==
        IF s = Null \/ k = 0 THEN <<>> ELSE <<s>> \o path[link[s], k - 1]
  IN  path[start, N]

Contents == [nodes |-> [l \in Lists |-> Walk(first[l], next)], parent |-> parent]

Abstract == INSTANCE SmListMachine WITH lists <- Contents

(* Seen from the front, the pointers are the sequences of SmListMachine,    *)
(* and every moveNode moves one node between them.                          *)
Implements == Abstract!Spec

(* Seen from the back, a list holds the same nodes in reverse order: the    *)
(* prev pointers and last, which moveNode uses to unlink, follow the rest.  *)
BackwardsToo == \A l \in Lists : Walk(last[l], prev) = Reverse(Walk(first[l], next))
=============================================================================
