--------------------------- MODULE SmServerProofs --------------------------
(***************************************************************************)
(* SmServer for every number of sessions, services, clients and ports: the  *)
(* session pool, the semaphore and the pending requests; then the service   *)
(* table, which names every service once, the sessions parked on it, and    *)
(* the two panics that can be reached.                                      *)
(***************************************************************************)
EXTENDS SmServer, SequenceLemmas, FiniteSetTheorems

(* A list family: a sequence of nodes for each list, a parent for each node *)
ListFamily(Nodes) == [nodes : [ListNames -> Seq(Nodes)], parent : [Nodes -> ListNames]]

(* The position of an element that is in the sequence.                      *)
LEMMA PositionProperties ==
  ASSUME NEW q, NEW e, \E k \in DOMAIN q : q[k] = e
  PROVE  Position(q, e) \in DOMAIN q /\ q[Position(q, e)] = e
BY DEF Position

(* moveNode keeps the partition, and says where every node is afterwards.   *)
LEMMA MoveNodeProperties ==
  ASSUME NEW Nodes, NEW L \in ListFamily(Nodes), IsPartition(L, Nodes),
         NEW s \in Nodes, NEW dst \in ListNames, NEW back \in BOOLEAN
  PROVE  LET M == MoveNode(L, s, dst, back)
         IN  /\ M \in ListFamily(Nodes)
             /\ IsPartition(M, Nodes)
             /\ M.parent = [L.parent EXCEPT ![s] = dst]
             /\ \A l \in ListNames \ {dst, L.parent[s]} : M.nodes[l] = L.nodes[l]
             /\ L.parent[s] # dst =>
                  /\ Len(M.nodes[dst]) = Len(L.nodes[dst]) + 1
                  /\ Len(M.nodes[L.parent[s]]) = Len(L.nodes[L.parent[s]]) - 1
<1> DEFINE M == MoveNode(L, s, dst, back)
           src == L.parent[s]
           q == L.nodes[src]
           p == Position(q, s)
           d == L.nodes[dst]
           left == RemoveAt(q, p)
           joined == IF back THEN Append(d, s) ELSE <<s>> \o d
<1>1. src \in ListNames /\ q \in Seq(Nodes) /\ d \in Seq(Nodes)
  BY DEF ListFamily
<1>2. p \in 1..Len(q) /\ q[p] = s
  BY <1>1, PositionProperties DEF IsPartition
<1>3. CASE src = dst
  <2>1. M = L
    BY <1>3 DEF MoveNode
  <2>2. [L.parent EXCEPT ![s] = dst] = L.parent
    BY <1>3 DEF ListFamily
  <2> QED BY <1>3, <2>1, <2>2
<1>4. CASE src # dst
  <2>1. M = [nodes  |-> [L.nodes EXCEPT ![src] = left, ![dst] = joined],
             parent |-> [L.parent EXCEPT ![s] = dst]]
    BY <1>4 DEF MoveNode
  <2>2. /\ left \in Seq(Nodes) /\ Len(left) = Len(q) - 1
        /\ \A k \in 1..Len(q)-1 : left[k] = IF k < p THEN q[k] ELSE q[k+1]
    BY <1>1, <1>2, RemoveAtProperties
  <2>3. /\ joined \in Seq(Nodes) /\ Len(joined) = Len(d) + 1
        /\ \A k \in 1..Len(d)+1 :
             joined[k] = IF back THEN IF k = Len(d) + 1 THEN s ELSE d[k]
                         ELSE IF k = 1 THEN s ELSE d[k-1]
    <3>1. CASE back
      BY <3>1, <1>1, AppendProperties
    <3>2. CASE ~back
      <4>1. <<s>> \in Seq(Nodes) /\ Len(<<s>>) = 1 /\ <<s>>[1] = s
        OBVIOUS
      <4>2. /\ <<s>> \o d \in Seq(Nodes) /\ Len(<<s>> \o d) = 1 + Len(d)
            /\ \A k \in 1..1+Len(d) : (<<s>> \o d)[k] = IF k <= 1 THEN <<s>>[k] ELSE d[k-1]
        BY <1>1, <4>1, ConcatProperties
      <4> QED BY <3>2, <4>1, <4>2, <1>1
    <3> QED BY <3>1, <3>2
  <2> HIDE DEF left, joined, M, p
  <2>4. M \in ListFamily(Nodes)
    BY <2>1, <2>2, <2>3, <1>1 DEF ListFamily
  <2>5. M.parent = [L.parent EXCEPT ![s] = dst]
    BY <2>1
  <2>9. \A t \in Nodes : M.parent[t] = IF t = s THEN dst ELSE L.parent[t]
    BY <2>5 DEF ListFamily
  <2>6. /\ M.nodes[src] = left /\ M.nodes[dst] = joined
        /\ \A l \in ListNames \ {dst, src} : M.nodes[l] = L.nodes[l]
    BY <1>1, <1>4, <2>1 DEF ListFamily
  <2>7. IsPartition(M, Nodes)
    <3>1. ASSUME NEW l \in ListNames, NEW k \in DOMAIN M.nodes[l]
          PROVE  /\ M.nodes[l][k] \in Nodes
                 /\ M.parent[M.nodes[l][k]] = l
                 /\ \A j \in DOMAIN M.nodes[l] : M.nodes[l][k] = M.nodes[l][j] => k = j
      <4>0. /\ \A x \in ListNames : \A y \in DOMAIN L.nodes[x] :
                 /\ L.nodes[x][y] \in Nodes /\ L.parent[L.nodes[x][y]] = x
                 /\ \A j \in DOMAIN L.nodes[x] : L.nodes[x][y] = L.nodes[x][j] => y = j
        BY DEF IsPartition, ListFamily
      <4>1. CASE l = src
        <5>1. k \in 1..Len(q)-1 /\ DOMAIN M.nodes[l] = 1..Len(q)-1
          BY <4>1, <2>6, <2>2
        <5>2. \A j \in 1..Len(q)-1 :
                \E x \in 1..Len(q) : x # p /\ left[j] = q[x] /\ x = IF j < p THEN j ELSE j+1
          BY <2>2, <1>1, <1>2
        <5>3. \A j \in 1..Len(q)-1 : left[j] \in Nodes /\ left[j] # s /\ L.parent[left[j]] = src
          BY <5>2, <4>0, <1>1, <1>2, SMTT(30)
        <5>4. \A j \in 1..Len(q)-1 : left[k] = left[j] => k = j
          <6> SUFFICES ASSUME NEW j \in 1..Len(q)-1, left[k] = left[j] PROVE k = j
            OBVIOUS
          <6>1. PICK x \in 1..Len(q) : x # p /\ left[k] = q[x] /\ x = IF k < p THEN k ELSE k+1
            BY <5>1, <5>2
          <6>2. PICK y \in 1..Len(q) : y # p /\ left[j] = q[y] /\ y = IF j < p THEN j ELSE j+1
            BY <5>2
          <6>3. x = y
            <7>1. \A u, v \in 1..Len(q) : q[u] = q[v] => u = v
              BY <4>0, <1>1, SMTT(30)
            <7>2. q[x] = q[y]
              BY <6>1, <6>2
            <7> QED BY <7>1, <7>2
          <6> QED BY <6>1, <6>2, <6>3, <1>2, <5>1
        <5>5. M.parent[left[k]] = src
          BY <5>1, <5>3, <2>5 DEF ListFamily
        <5> QED BY <4>1, <5>1, <5>3, <5>4, <5>5, <2>6
      <4>2. CASE l = dst
        <5>1. k \in 1..Len(d)+1 /\ DOMAIN M.nodes[l] = 1..Len(d)+1
          BY <4>2, <2>6, <2>3
        <5>2. \A j \in 1..Len(d) : d[j] \in Nodes /\ d[j] # s /\ L.parent[d[j]] = dst
          BY <4>0, <1>1, <1>4
        <5>3. \A x, y \in 1..Len(d) : d[x] = d[y] => x = y
          BY <4>0, <1>1
        <5>4. CASE back
          <6>1. \A j \in 1..Len(d)+1 : joined[j] = IF j = Len(d) + 1 THEN s ELSE d[j]
            BY <2>3, <5>4
          <6>2. joined[k] \in Nodes /\ M.parent[joined[k]] = dst
            <7>1. CASE k = Len(d) + 1
              BY <7>1, <6>1, <5>1, <2>9
            <7>2. CASE k # Len(d) + 1
              <8>1. k \in 1..Len(d) /\ joined[k] = d[k]
                BY <7>2, <6>1, <5>1, <1>1
              <8> QED BY <8>1, <5>2, <2>9
            <7> QED BY <7>1, <7>2
          <6>3. \A j \in 1..Len(d)+1 : joined[k] = joined[j] => k = j
            <7> SUFFICES ASSUME NEW j \in 1..Len(d)+1, joined[k] = joined[j] PROVE k = j
              OBVIOUS
            <7>1. CASE k = Len(d) + 1 /\ j = Len(d) + 1
              BY <7>1
            <7>2. CASE k \in 1..Len(d) /\ j \in 1..Len(d)
              <8>1. d[k] = d[j]
                BY <7>2, <6>1, <5>1, <1>1
              <8> QED BY <8>1, <7>2, <5>3
            <7>3. CASE k = Len(d) + 1 /\ j \in 1..Len(d)
              BY <7>3, <6>1, <5>1, <5>2, <1>1
            <7>4. CASE k \in 1..Len(d) /\ j = Len(d) + 1
              BY <7>4, <6>1, <5>1, <5>2, <1>1
            <7> QED BY <7>1, <7>2, <7>3, <7>4, <5>1, <1>1
          <6> QED BY <6>2, <6>3, <5>1, <4>2, <2>6
        <5>5. CASE ~back
          <6>1. \A j \in 1..Len(d)+1 : joined[j] = IF j = 1 THEN s ELSE d[j-1]
            BY <2>3, <5>5
          <6>2. joined[k] \in Nodes /\ M.parent[joined[k]] = dst
            <7>1. CASE k = 1
              BY <7>1, <6>1, <5>1, <2>9
            <7>2. CASE k # 1
              <8>1. k-1 \in 1..Len(d) /\ joined[k] = d[k-1]
                BY <7>2, <6>1, <5>1, <1>1
              <8> QED BY <8>1, <5>2, <2>9
            <7> QED BY <7>1, <7>2
          <6>3. \A j \in 1..Len(d)+1 : joined[k] = joined[j] => k = j
            <7> SUFFICES ASSUME NEW j \in 1..Len(d)+1, joined[k] = joined[j] PROVE k = j
              OBVIOUS
            <7>1. CASE k = 1 \/ j = 1
              BY <7>1, <6>1, <5>1, <5>2, <1>1, SMTT(30)
            <7>2. CASE k # 1 /\ j # 1
              <8>1. k-1 \in 1..Len(d) /\ j-1 \in 1..Len(d) /\ d[k-1] = d[j-1]
                BY <7>2, <6>1, <5>1, <1>1
              <8>2. k-1 = j-1
                BY <8>1, <5>3
              <8> QED BY <8>2, <5>1
            <7> QED BY <7>1, <7>2
          <6> QED BY <6>2, <6>3, <5>1, <4>2, <2>6
        <5> QED BY <5>4, <5>5
      <4>3. CASE l # src /\ l # dst
        <5>1. M.nodes[l] = L.nodes[l]
          BY <4>3, <2>6
        <5>2. L.nodes[l][k] # s
          BY <4>0, <4>3, <5>1
        <5> QED BY <4>0, <5>1, <5>2, <2>5 DEF ListFamily
      <4> QED BY <4>1, <4>2, <4>3
    <3>2. ASSUME NEW t \in Nodes
          PROVE  \E k \in DOMAIN M.nodes[M.parent[t]] : M.nodes[M.parent[t]][k] = t
      <4>1. CASE t = s
        <5>1. M.parent[t] = dst
          BY <4>1, <2>5 DEF ListFamily
        <5>2. DOMAIN joined = 1..Len(d)+1 /\ joined[IF back THEN Len(d)+1 ELSE 1] = s
          BY <2>3, <1>1
        <5>3. (IF back THEN Len(d)+1 ELSE 1) \in 1..Len(d)+1
          BY <1>1
        <5> QED BY <5>1, <5>2, <5>3, <4>1, <2>6
      <4>2. CASE t # s
        <5>1. M.parent[t] = L.parent[t] /\ L.parent[t] \in ListNames
          BY <4>2, <2>5 DEF ListFamily
        <5>2. PICK k \in DOMAIN L.nodes[L.parent[t]] : L.nodes[L.parent[t]][k] = t
          BY DEF IsPartition
        <5>3. CASE L.parent[t] = src
          <6>1. k \in 1..Len(q) /\ k # p /\ q[k] = t
            BY <5>2, <5>3, <4>2, <1>1, <1>2
          <6>2. CASE k < p
            <7>1. k \in 1..Len(q)-1 /\ left[k] = t
              BY <6>1, <6>2, <2>2, <1>2, <1>1
            <7>2. k \in DOMAIN left
              BY <7>1, <2>2
            <7> QED BY <7>1, <7>2, <5>1, <5>3, <2>6
          <6>3. CASE k > p
            <7>1. k-1 \in 1..Len(q)-1 /\ left[k-1] = t
              BY <6>1, <6>3, <2>2, <1>2, <1>1
            <7>2. k-1 \in DOMAIN left
              BY <7>1, <2>2
            <7> QED BY <7>1, <7>2, <5>1, <5>3, <2>6
          <6> QED BY <6>1, <6>2, <6>3, <1>2, <1>1
        <5>4. CASE L.parent[t] = dst
          <6>1. k \in 1..Len(d) /\ d[k] = t
            BY <5>2, <5>4, <1>1
          <6>2. CASE back
            <7>1. k \in 1..Len(d)+1 /\ joined[k] = t
              BY <6>1, <6>2, <2>3, <1>1
            <7>2. k \in DOMAIN joined
              BY <7>1, <2>3
            <7> QED BY <7>1, <7>2, <5>1, <5>4, <2>6
          <6>3. CASE ~back
            <7>1. k+1 \in 1..Len(d)+1 /\ joined[k+1] = t
              BY <6>1, <6>3, <2>3, <1>1
            <7>2. k+1 \in DOMAIN joined
              BY <7>1, <2>3
            <7> QED BY <7>1, <7>2, <5>1, <5>4, <2>6
          <6> QED BY <6>2, <6>3
        <5>5. CASE L.parent[t] # src /\ L.parent[t] # dst
          BY <5>1, <5>2, <5>5, <2>6
        <5> QED BY <5>3, <5>4, <5>5
      <4> QED BY <4>1, <4>2
    <3>3. DOMAIN M.nodes = ListNames
      BY <2>4 DEF ListFamily
    <3> QED BY <3>1, <3>2, <3>3 DEF IsPartition
  <2>8. Len(M.nodes[dst]) = Len(d) + 1 /\ Len(M.nodes[src]) = Len(q) - 1
    BY <2>2, <2>3, <2>6
  <2> QED BY <2>4, <2>5, <2>6, <2>7, <2>8 DEF M
<1> QED BY <1>3, <1>4 DEF M

(* FirstOf finds an element of S when the sequence has one.                 *)
LEMMA FirstOfProperties ==
  ASSUME NEW A, NEW q \in Seq(A), NEW S, \E k \in DOMAIN q : q[k] \in S
  PROVE  FirstOf(q, S) \in S /\ \E k \in DOMAIN q : FirstOf(q, S) = q[k]
<1> DEFINE T == {k \in DOMAIN q : q[k] \in S}
<1>1. PICK k \in T : \A j \in T : k <= j
  <2>1. T \subseteq Nat /\ T # {}
    OBVIOUS
  <2> HIDE DEF T
  <2> QED BY <2>1, LeastElement
<1>2. k \in DOMAIN q /\ q[k] \in S /\ \A j \in 1..k-1 : q[j] \notin S
  BY <1>1
<1> QED BY <1>2 DEF FirstOf

(* findServicePortByName finds an entry when the name is registered.        *)
LEMMA FindProperties ==
  ASSUME services \in Seq(Service), NEW named, NEW name, Registered(named, name)
  PROVE  Find(named, name) \in DOMAIN services /\ Matches(Find(named, name), named, name)
<1> DEFINE T == {j \in DOMAIN services : Matches(j, named, name)}
<1>1. PICK j \in T : \A k \in T : j <= k
  <2>1. T \subseteq Nat /\ T # {}
    BY DEF Registered
  <2> HIDE DEF T
  <2> QED BY <2>1, LeastElement
<1>2. j \in DOMAIN services /\ Matches(j, named, name) /\ \A k \in 1..j-1 : ~Matches(k, named, name)
  BY <1>1
<1> QED BY <1>2 DEF Find

(* An element of a sequence, for the provers.                               *)
LEMMA ElementOf ==
  ASSUME NEW A, NEW q \in Seq(A), NEW j \in DOMAIN q
  PROVE  q[j] \in A
OBVIOUS

(* A handle some node remembers is found at that node: no two nodes         *)
(* remember the same one.                                                   *)
LEMMA NodeOfProperties ==
  ASSUME HandlesOK, NEW s \in Slots, pool[s].handle # NoHandle
  PROVE  NodeOf(pool[s].handle) = s
<1>1. \A t \in Slots : pool[t].handle = pool[s].handle => t = s
  BY DEF HandlesOK
<1>2. s <= s
  BY SizesAssumption DEF Slots
<1> QED BY <1>1, <1>2 DEF NodeOf

---------------------------------------------------------------------------
(* The nodes that an action of sm's loop picks from the lists.              *)

LEMMA ListOf ==
  ASSUME IInv, NEW l \in ListNames
  PROVE  /\ lists \in ListFamily(Slots)
         /\ lists.nodes[l] \in Seq(Slots)
         /\ \A k \in DOMAIN lists.nodes[l] :
              lists.nodes[l][k] \in Slots /\ lists.parent[lists.nodes[l][k]] = l
         /\ \A s \in Slots : s \in ToSet(lists.nodes[l]) <=> lists.parent[s] = l
<1>1. lists \in ListFamily(Slots)
  BY DEF IInv, TypeOK, ListFamily
<1>2. lists.nodes[l] \in Seq(Slots) /\ l \in DOMAIN lists.nodes
  BY <1>1 DEF ListFamily
<1>3. \A k \in DOMAIN lists.nodes[l] :
        lists.nodes[l][k] \in Slots /\ lists.parent[lists.nodes[l][k]] = l
  BY <1>2 DEF IInv, PoolPartitioned, IsPartition
<1>4. \A s \in Slots : s \in ToSet(lists.nodes[l]) <=> lists.parent[s] = l
  BY <1>3 DEF IInv, PoolPartitioned, IsPartition, ToSet
<1> QED BY <1>1, <1>2, <1>3, <1>4

(* The first signalled session is in use and has something for sm.          *)
LEMMA SignalledNode ==
  ASSUME IInv, Signalled # {}
  PROVE  LET s == FirstOf(InUse, Signalled)
         IN  /\ s \in Slots /\ lists.parent[s] = "inUse"
             /\ s \in Signalled
             /\ pool[s].handle \in Handles
<1>1. "inUse" \in ListNames
  BY DEF ListNames
<1>2. \E k \in DOMAIN InUse : InUse[k] \in Signalled
  BY DEF Signalled, ToSet
<1>3. FirstOf(InUse, Signalled) \in Signalled
      /\ \E k \in DOMAIN InUse : FirstOf(InUse, Signalled) = InUse[k]
  BY <1>1, <1>2, ListOf, FirstOfProperties DEF InUse
<1>4. FirstOf(InUse, Signalled) \in Slots /\ lists.parent[FirstOf(InUse, Signalled)] = "inUse"
  BY <1>1, <1>3, ListOf DEF InUse
<1> QED BY <1>3, <1>4 DEF IInv, HandlesOK

(* The first session whose port is signalled waits for room.                *)
LEMMA PortSignalledNode ==
  ASSUME IInv, PortSignalled # {}
  PROVE  LET s == FirstOf(WaitPort, PortSignalled)
         IN  s \in Slots /\ lists.parent[s] = "waitPort" /\ s \in PortSignalled
<1>1. "waitPort" \in ListNames
  BY DEF ListNames
<1>2. \E k \in DOMAIN WaitPort : WaitPort[k] \in PortSignalled
  BY DEF PortSignalled, ToSet
<1>3. FirstOf(WaitPort, PortSignalled) \in PortSignalled
      /\ \E k \in DOMAIN WaitPort : FirstOf(WaitPort, PortSignalled) = WaitPort[k]
  BY <1>1, <1>2, ListOf, FirstOfProperties DEF WaitPort
<1> QED BY <1>1, <1>3, ListOf DEF WaitPort

(* A first node of a list that is not empty.                                *)
LEMMA HeadNode ==
  ASSUME IInv, NEW l \in ListNames, lists.nodes[l] # <<>>
  PROVE  Head(lists.nodes[l]) \in Slots /\ lists.parent[Head(lists.nodes[l])] = l
<1>1. lists.nodes[l] \in Seq(Slots)
  BY ListOf
<1>2. Head(lists.nodes[l]) = lists.nodes[l][1] /\ 1 \in DOMAIN lists.nodes[l]
  BY <1>1
<1> QED BY <1>2, ListOf

(* The node of the reply target: in use, and the only one with its handle.  *)
LEMMA ReplyNode ==
  ASSUME IInv, pc = "reply"
  PROVE  LET s == NodeOf(replyTarget)
         IN  s \in Slots /\ lists.parent[s] = "inUse" /\ pool[s].handle = replyTarget
<1>1. replyTarget \in Handles /\ replyTarget # NoHandle
  BY ValuesAssumption DEF IInv, ControlOK
<1>2. PICK s \in Slots : lists.parent[s] = "inUse" /\ pool[s].handle = replyTarget
  BY <1>1 DEF IInv, TakenOK
<1> QED BY <1>1, <1>2, NodeOfProperties DEF IInv

(* Every step of sm moves at most one node, from the list it is on.         *)
LEMMA ListStep ==
  ASSUME IInv, [Next]_vars
  PROVE  \/ UNCHANGED lists
         \/ \E s \in Slots, dst \in ListNames, back \in BOOLEAN :
              lists' = MoveNode(lists, s, dst, back)
<1> DEFINE Goal == \E s \in Slots, dst \in ListNames, back \in BOOLEAN :
                     lists' = MoveNode(lists, s, dst, back)
<1> USE DEF ListNames
<1>1. CASE ReplyUnreachable
  <2>1. NodeOf(replyTarget) \in Slots
    BY <1>1, ReplyNode DEF ReplyUnreachable
  <2>2. CASE CloseSession(replyTarget)
    BY <2>1, <2>2 DEF CloseSession
  <2> QED BY <1>1, <2>2 DEF ReplyUnreachable, Panic, static
<1>2. CASE ResumeRegistered
  <2>1. CASE ToWake = <<>>
    BY <1>2, <2>1 DEF ResumeRegistered, Panic, static
  <2>2. CASE ToWake # <<>>
    <3>1. Head(ToWake) \in Slots
      BY <2>2, HeadNode DEF ToWake
    <3> QED BY <1>2, <2>2, <3>1 DEF ResumeRegistered
  <2> QED BY <2>1, <2>2
<1>3. ASSUME NEW kind, AcceptSession(kind) PROVE UNCHANGED lists \/ Goal
  <2>1. CASE Free = <<>>
    BY <1>3, <2>1 DEF AcceptSession, Panic, static
  <2>2. CASE Free # <<>>
    <3>1. Head(Free) \in Slots
      BY <2>2, HeadNode DEF Free
    <3> QED BY <1>3, <2>2, <3>1 DEF AcceptSession
  <2> QED BY <2>1, <2>2
<1>4. CASE SessionClosed
  <2> DEFINE s == FirstOf(InUse, Signalled)
  <2>1. s \in Slots /\ pool[s].handle \in Handles
    BY <1>4, SignalledNode DEF SessionClosed
  <2>2. NodeOf(pool[s].handle) = s
    BY <2>1, NodeOfProperties, ValuesAssumption DEF IInv
  <2> QED BY <1>4, <2>1, <2>2 DEF SessionClosed, CloseSession
<1>5. CASE ResumePortReady
  <2>1. FirstOf(WaitPort, PortSignalled) \in Slots
    BY <1>5, PortSignalledNode DEF ResumePortReady
  <2> QED BY <1>5, <2>1 DEF ResumePortReady
<1>6. CASE PortClosedNext
  <2>1. WaitPort[i] \in Slots
    <3>1. WaitPort \in Seq(Slots) /\ i \in 1..Len(WaitPort)
      BY <1>6, ListOf DEF PortClosedNext, WaitPort, IInv, TypeOK, ControlOK
    <3> QED BY <3>1
  <2> QED BY <1>6, <2>1 DEF PortClosedNext
<1>7. CASE WakeNext
  <2>1. WaitReg[i] \in Slots
    <3>1. WaitReg \in Seq(Slots) /\ i \in 1..Len(WaitReg)
      BY <1>7, ListOf DEF WakeNext, WaitReg, IInv, TypeOK, ControlOK
    <3> QED BY <3>1
  <2> QED BY <1>7, <2>1 DEF WakeNext
<1>8. ASSUME NEW l \in {"waitReg", "waitPort"}, NEW busy, pc = "serve", Park(l, busy)
      PROVE  UNCHANGED lists \/ Goal
  BY <1>8 DEF Park, IInv, ControlOK
<1>9. CASE GetServiceHandle
  BY <1>9, <1>8 DEF GetServiceHandle, Serving, static
<1>10. CASE GetPort
  BY <1>10, <1>8 DEF GetPort, Serving, static
<1>11. CASE Environment
  BY <1>11 DEF Environment, Connect, SendRequest, CloseClient, ServerDies, ServiceSessionEnds, static
<1>12. CASE Reply \/ InvalidHandle \/ ReceiveRequest \/ PortClosed \/ PortClosedDone
  BY <1>12 DEF Reply, InvalidHandle, ReceiveRequest, PortClosed, PortClosedDone, Panic, static
<1>13. CASE RegisterClient \/ RegisterProcess \/ UnregisterProcess \/ UnregisterNext \/ UnregisterDone
            \/ PublishAndGetSubscriber \/ WakeDone
  BY <1>13 DEF RegisterClient, RegisterProcess, UnregisterProcess, UnregisterNext, UnregisterDone,
               PublishAndGetSubscriber, WakeDone, Panic, static
<1>14. CASE RegisterService \/ RegisterPort
  BY <1>14 DEF RegisterService, RegisterPort, RegisterServiceOrPort, AddService, static
<1>15. CASE UnregisterService \/ UnregisterPort
  BY <1>15 DEF UnregisterService, UnregisterPort, UnregisterServiceOrPort, static
<1>16. CASE UNCHANGED vars
  BY <1>16 DEF vars, static
<1> QED BY <1>1, <1>2, <1>3, <1>4, <1>5, <1>6, <1>7, <1>9, <1>10, <1>11, <1>12, <1>13, <1>14,
           <1>15, <1>16 DEF Next, Sm, Loop, Handler, AcceptSrv, AcceptPm

(* The pool stays partitioned.                                              *)
LEMMA PartitionStep == IInv /\ [Next]_vars => PoolPartitioned'
<1> SUFFICES ASSUME IInv, [Next]_vars PROVE PoolPartitioned'
  OBVIOUS
<1>1. lists \in ListFamily(Slots) /\ IsPartition(lists, Slots)
  BY DEF IInv, TypeOK, PoolPartitioned, ListFamily
<1>2. CASE UNCHANGED lists
  BY <1>1, <1>2 DEF PoolPartitioned
<1>3. CASE \E s \in Slots, dst \in ListNames, back \in BOOLEAN :
             lists' = MoveNode(lists, s, dst, back)
  <2>1. PICK s \in Slots, dst \in ListNames, back \in BOOLEAN : lists' = MoveNode(lists, s, dst, back)
    BY <1>3
  <2>2. IsPartition(MoveNode(lists, s, dst, back), Slots)
    BY <1>1, MoveNodeProperties
  <2> QED BY <2>1, <2>2 DEF PoolPartitioned
<1> QED BY <1>2, <1>3, ListStep

---------------------------------------------------------------------------
(* Types                                                                    *)

LEMMA ConstantTypes ==
  /\ NoSession \in Session /\ NoCommand \in Command /\ NoCommand \in ParkedCommand
  /\ BlankNode \in Node /\ ClosedPort \in Port
  /\ \A c \in SrvRequests \cup PmRequests : c \in Command
<1>1. NoCommand \in Command /\ NoCommand \in ParkedCommand
  BY DEF NoCommand, Command, ParkedCommand, Args, SrvOps, PmOps
<1>2. \A c \in SrvRequests : c \in Command
  BY ValuesAssumption DEF SrvRequests, Calls, Command, Args, SrvOps, PmOps, AllNames
<1>3. \A c \in PmRequests : c \in Command
  BY DEF PmRequests, Calls, Command, Args, SrvOps, PmOps
<1>4. NoSession \in Session
  BY <1>1 DEF NoSession, Session, AllPids
<1>5. BlankNode \in Node
  BY <1>1 DEF BlankNode, Node, AllPids
<1> QED BY <1>1, <1>2, <1>3, <1>4, <1>5 DEF ClosedPort, Port

LEMMA TypeStep == IInv /\ [Next]_vars => TypeOK'
<1> SUFFICES ASSUME IInv, [Next]_vars PROVE TypeOK'
  OBVIOUS
<1>1. lists' \in [nodes : [ListNames -> Seq(Slots)], parent : [Slots -> ListNames]]
  <2>1. lists \in ListFamily(Slots) /\ IsPartition(lists, Slots)
    BY DEF IInv, TypeOK, PoolPartitioned, ListFamily
  <2>2. ASSUME NEW s \in Slots, NEW dst \in ListNames, NEW back \in BOOLEAN
        PROVE  MoveNode(lists, s, dst, back) \in ListFamily(Slots)
    BY <2>1, MoveNodeProperties
  <2>3. CASE UNCHANGED lists
    BY <2>1, <2>3 DEF ListFamily
  <2>4. CASE \E s \in Slots, dst \in ListNames, back \in BOOLEAN :
               lists' = MoveNode(lists, s, dst, back)
    <3>1. lists' \in ListFamily(Slots)
      BY <2>2, <2>4
    <3> QED BY <3>1 DEF ListFamily
  <2> QED BY <2>3, <2>4, ListStep
<1> DEFINE Rest ==
      /\ sess \in [Handles -> Session] /\ port \in [Ports -> Port] /\ sem \in Nat
      /\ pool \in [Slots -> Node] /\ services \in Seq(Service) /\ procs \in SUBSET Pids
      /\ pc \in {"wait", "reply", "serve", "wake", "unregister", "closing", "panic"}
      /\ cmdbuf \in Command /\ replyTarget \in Handles \cup {NoHandle} /\ result \in Results
      /\ cur \in Slots \cup {0} /\ i \in Nat /\ n \in Nat /\ closedPort \in Ports \cup {NoPort}
<1>2. Rest
  BY DEF IInv, TypeOK
<1> SUFFICES Rest'
  BY <1>1 DEF TypeOK
<1> USE ConstantTypes DEF kernel, static, locals
<1>3. CASE Environment
  <2>1. ASSUME NEW h \in Handles, NEW p \in Pids, Connect(h, p) PROVE Rest'
    BY <2>1, <1>2 DEF Connect, NewSession, Session, AllPids
  <2>2. ASSUME NEW h \in Handles, NEW c \in SrvRequests \cup PmRequests, SendRequest(h, c) PROVE Rest'
    BY <2>2, <1>2 DEF SendRequest, Session
  <2>3. ASSUME NEW h \in Handles, CloseClient(h) PROVE Rest'
    <3>1. \A g \in Handles : sess'[g] \in Session
      BY <2>3, <1>2 DEF CloseClient, Session
    <3>2. sess' \in [Handles -> Session]
      BY <2>3, <3>1, <1>2 DEF CloseClient
    <3> QED BY <2>3, <3>2, <1>2 DEF CloseClient
  <2>4. ASSUME NEW p \in Ports, ServerDies(p) PROVE Rest'
    BY <2>4, <1>2 DEF ServerDies, Port
  <2>5. ASSUME NEW p \in Ports, ServiceSessionEnds(p) PROVE Rest'
    <3>1. port[p].load - 1 \in Nat
      BY <2>5, <1>2 DEF ServiceSessionEnds, Port
    <3> QED BY <3>1, <2>5, <1>2 DEF ServiceSessionEnds, Port
  <2> QED BY <1>3, <2>1, <2>2, <2>3, <2>4, <2>5 DEF Environment
<1>4. ASSUME Panic PROVE Rest'
  BY <1>4, <1>2 DEF Panic
<1>5. ASSUME NEW s \in Slots, pool[s].handle \in Handles, NodeOf(pool[s].handle) = s,
             CloseSession(pool[s].handle)
      PROVE  Rest'
  BY <1>5, <1>2 DEF CloseSession, Node, BlankNode, Results
<1>6. CASE Reply
  BY <1>6, <1>2 DEF Reply, Session, Results
<1>7. CASE ReplyUnreachable
  BY <1>7, <1>4, <1>5, ReplyNode DEF ReplyUnreachable, IInv, ControlOK
<1>8. CASE InvalidHandle
  BY <1>8, <1>4 DEF InvalidHandle
<1>9. ASSUME NEW s \in Slots, NEW busy \in Ports \cup {NoPort}, Replay(s, busy)
      PROVE  /\ cmdbuf' \in Command /\ pool' \in [Slots -> Node] /\ cur' \in Slots /\ pc' = "serve"
  <2>1. pool[s].replay \in Command /\ cmdbuf.w4 \in Word4 \cup {0}
    BY <1>2 DEF Node, ParkedCommand, Command
  <2>2. cmdbuf' \in Command
    BY <1>9, <2>1 DEF Replay, Command
  <2>3. pool' \in [Slots -> Node]
    BY <1>9, <1>2 DEF Replay, Node
  <2> QED BY <1>9, <2>2, <2>3 DEF Replay
<1>10. CASE ResumeRegistered
  <2>1. CASE ToWake = <<>>
    BY <1>10, <2>1, <1>4 DEF ResumeRegistered
  <2>2. CASE ToWake # <<>>
    <3> DEFINE s == Head(ToWake)
    <3>1. s \in Slots /\ pool[s].busy \in Ports \cup {NoPort} /\ sem - 1 \in Nat
      BY <2>2, <1>2, <1>10, HeadNode DEF ToWake, Node, ListNames, ResumeRegistered
    <3> QED BY <1>10, <2>2, <3>1, <1>9, <1>2 DEF ResumeRegistered
  <2> QED BY <2>1, <2>2
<1>11. ASSUME NEW kind \in {"srv", "pm"}, AcceptSession(kind) PROVE Rest'
  <2>1. CASE Free = <<>>
    BY <1>11, <2>1, <1>4 DEF AcceptSession
  <2>2. CASE Free # <<>>
    <3>1. Head(Free) \in Slots
      BY <2>2, HeadNode DEF Free, ListNames
    <3>2. PICK h \in Handles :
            /\ sess' = [sess EXCEPT ![h].st = "idle"]
            /\ pool' = [pool EXCEPT ![Head(Free)] = AcceptedNode(h, kind)]
            /\ UNCHANGED <<port, sem, services, procs, locals>>
      BY <1>11, <2>2 DEF AcceptSession, Pending, SessionsOf
    <3>3. AcceptedNode(h, kind) \in Node
      BY DEF AcceptedNode, BlankNode, Node, AllPids
    <3>4. sess' \in [Handles -> Session]
      BY <3>2, <1>2 DEF Session
    <3> QED BY <3>1, <3>2, <3>3, <3>4, <1>2
  <2> QED BY <2>1, <2>2
<1>12. CASE SessionClosed
  <2> DEFINE s == FirstOf(InUse, Signalled)
  <2>1. s \in Slots /\ pool[s].handle \in Handles
    BY <1>12, SignalledNode DEF SessionClosed
  <2>2. NodeOf(pool[s].handle) = s
    BY <2>1, NodeOfProperties, ValuesAssumption DEF IInv
  <2> QED BY <1>12, <2>1, <2>2, <1>5 DEF SessionClosed
<1>13. CASE ReceiveRequest
  <2> DEFINE s == FirstOf(InUse, Signalled)
             h == pool[s].handle
             c == sess[h].req
  <2>1. s \in Slots /\ h \in Handles
    BY <1>13, SignalledNode DEF ReceiveRequest
  <2>2. c \in Command /\ cmdbuf.w4 \in Word4 \cup {0}
    BY <2>1, <1>2 DEF Session, Command
  <2>3. [c EXCEPT !.w4 = cmdbuf.w4] \in Command
    BY <2>2 DEF Command
  <2>4. cmdbuf' \in Command
    BY <1>13, <2>2, <2>3 DEF ReceiveRequest
  <2>5. sess' \in [Handles -> Session]
    BY <1>13, <2>1, <1>2 DEF ReceiveRequest, Session
  <2> QED BY <1>13, <2>1, <2>4, <2>5, <1>2 DEF ReceiveRequest
<1>14. CASE ResumePortReady
  <2>1. FirstOf(WaitPort, PortSignalled) \in Slots
    BY <1>14, PortSignalledNode DEF ResumePortReady
  <2> QED BY <1>14, <2>1, <1>9, <1>2 DEF ResumePortReady
<1>15. CASE PortClosed
  <2>1. FirstOf(WaitPort, PortSignalled) \in Slots
    BY <1>15, PortSignalledNode DEF PortClosed
  <2> QED BY <1>15, <2>1, <1>2 DEF PortClosed, Node
<1>16. CASE PortClosedNext
  <2>1. i + 1 \in Nat /\ AfterMove \in Nat
    BY <1>2 DEF AfterMove
  <2>2. ASSUME NEW s \in Slots,
               pool' = [pool EXCEPT ![s].replay.arg = Clobbered, ![s].busy = NoPort]
        PROVE  pool' \in [Slots -> Node]
    <3>1. pool[s].replay \in ParkedCommand
      BY <2>2, <1>2 DEF Node
    <3>2. [pool[s].replay EXCEPT !.arg = Clobbered] \in ParkedCommand
      BY <3>1 DEF ParkedCommand, Command, Args, PmOps
    <3>3. pool'[s] = [pool[s] EXCEPT !.replay = [@ EXCEPT !.arg = Clobbered], !.busy = NoPort]
      BY <2>2, <1>2 DEF Node
    <3>4. pool'[s] \in Node
      BY <3>2, <3>3, <1>2 DEF Node
    <3> QED BY <2>2, <3>4, <1>2
  <2>3. WaitPort[i] \in Slots
    <3>1. WaitPort \in Seq(Slots) /\ i \in 1..Len(WaitPort)
      BY <1>16, <1>2, ListOf DEF PortClosedNext, WaitPort, IInv, ControlOK, ListNames
    <3> QED BY <3>1
  <2>4. pool' \in [Slots -> Node]
    BY <1>16, <1>2, <2>2, <2>3 DEF PortClosedNext
  <2> QED BY <1>16, <1>2, <2>1, <2>4 DEF PortClosedNext
<1>17. CASE PortClosedDone
  BY <1>17, <1>2 DEF PortClosedDone
<1>18. /\ [NoCommand EXCEPT !.w4 = cmdbuf.w4] \in Command
       /\ pc = "serve" => cur \in Slots /\ pool[cur].handle \in Handles
       /\ pc = "wake" => cur \in Slots /\ pool[cur].handle \in Handles
       /\ pc = "unregister" => cur \in Slots /\ pool[cur].handle \in Handles
  <2>1. cmdbuf.w4 \in Word4 \cup {0}
    BY <1>2 DEF Command
  <2> QED BY <2>1 DEF NoCommand, Command, Args, SrvOps, PmOps, IInv, ControlOK, HandlesOK
<1>19. ASSUME NEW r \in Results, pc = "serve", Answer(r)
       PROVE  /\ pc' = "reply" /\ cmdbuf' \in Command /\ replyTarget' \in Handles
              /\ result' = r /\ cur' = 0 /\ UNCHANGED <<i, n, closedPort>>
  BY <1>18, <1>19 DEF Answer
<1>20. ASSUME NEW l, NEW busy \in Ports \cup {NoPort}, pc = "serve",
              cmdbuf.op \in {"GetServiceHandle", "GetPort"}, Park(l, busy)
       PROVE  /\ pool' \in [Slots -> Node] /\ cmdbuf' \in Command /\ pc' = "wait"
              /\ replyTarget' = NoHandle /\ cur' = 0 /\ UNCHANGED <<result, i, n, closedPort>>
  <2>1. [cmdbuf EXCEPT !.w4 = 0] \in ParkedCommand
    BY <1>2, <1>20 DEF Command, ParkedCommand
  <2> QED BY <1>2, <1>18, <1>20, <2>1 DEF Park, Node
<1>21. CASE RegisterClient
  <2>1. sess[pool[cur].handle].owner \in AllPids
    BY <1>21, <1>2, <1>18 DEF RegisterClient, Serving, Session
  <2>2. pool' \in [Slots -> Node]
    BY <1>21, <1>2, <1>18, <2>1 DEF RegisterClient, Serving, Node
  <2> QED BY <1>21, <1>2, <1>19, <2>2 DEF RegisterClient, Serving, Results
<1>22. ASSUME NEW named \in BOOLEAN, RegisterServiceOrPort(named), pc = "serve",
              cmdbuf.op \in {"RegisterService", "RegisterPort"}
       PROVE  Rest'
  <2>1. ASSUME NEW p \in FreePorts, AddService(p, named, IF named THEN 0 ELSE cmdbuf.w4) PROVE Rest'
    <3>1. p \in Ports /\ (IF named THEN 0 ELSE cmdbuf.w4) \in Nat
      BY <1>2, SizesAssumption DEF Command, FreePorts
    <3>2. port' \in [Ports -> Port]
      BY <2>1, <3>1, <1>2 DEF AddService, Port
    <3>3. [name |-> cmdbuf.arg, pid |-> pool[cur].pid, port |-> p, named |-> named] \in Service
      BY <3>1, <1>2, <1>18, <1>22 DEF Service, Command, Node
    <3>4. services' \in Seq(Service)
      BY <2>1, <3>3, <1>2 DEF AddService
    <3> QED BY <2>1, <3>2, <3>4, <1>2 DEF AddService
  <2> QED BY <1>2, <1>19, <1>22, <2>1 DEF RegisterServiceOrPort, Results
<1>23. CASE RegisterService \/ RegisterPort
  BY <1>22, <1>23 DEF RegisterService, RegisterPort, Serving
<1>24. CASE WakeNext
  <2>1. i + 1 \in Nat /\ AfterMove \in Nat /\ n + 1 \in Nat
    BY <1>2 DEF AfterMove
  <2> QED BY <1>24, <2>1, <1>2 DEF WakeNext
<1>25. CASE WakeDone
  <2>1. sem + Released \in Nat
    BY <1>2 DEF Released
  <2>2. CASE sem + Released > SemMax
    BY <1>25, <2>2, <1>4 DEF WakeDone
  <2>3. CASE ~(sem + Released > SemMax)
    <3>1. /\ sem' = sem + Released /\ pc' = "reply" /\ result' = "ok" /\ cur' = 0 /\ i' = 0 /\ n' = 0
          /\ replyTarget' = pool[cur].handle /\ cmdbuf' = [NoCommand EXCEPT !.w4 = cmdbuf.w4]
          /\ UNCHANGED <<sess, port, pool, services, procs, closedPort>>
      BY <1>25, <2>3 DEF WakeDone
    <3>2. replyTarget' \in Handles /\ cmdbuf' \in Command
      BY <1>25, <3>1, <1>18 DEF WakeDone
    <3> QED BY <2>1, <3>1, <3>2, <1>2 DEF Results
  <2> QED BY <2>2, <2>3
<1>26. ASSUME NEW j \in DOMAIN services PROVE RemoveService(services, j) \in Seq(Service)
  BY <1>2 DEF RemoveService
<1>27. ASSUME NEW named \in BOOLEAN, UnregisterServiceOrPort(named), pc = "serve"
       PROVE  Rest'
  <2> DEFINE j == Find(named, cmdbuf.arg)
  <2>1. CASE Registered(named, cmdbuf.arg)
    <3>1. j \in DOMAIN services
      BY <2>1, <1>2, FindProperties
    <3>2. CASE services[j].pid # pool[cur].pid
      BY <1>2, <1>19, <1>27, <2>1, <3>2 DEF UnregisterServiceOrPort, Results
    <3>3. CASE services[j].pid = pool[cur].pid
      <4>1. port' \in [Ports -> Port]
        BY <1>2, <1>27, <2>1, <3>3 DEF UnregisterServiceOrPort
      <4>2. services' \in Seq(Service)
        BY <1>26, <1>27, <2>1, <3>1, <3>3 DEF UnregisterServiceOrPort
      <4> QED BY <1>2, <1>19, <1>27, <2>1, <3>3, <4>1, <4>2 DEF UnregisterServiceOrPort, Results
    <3> QED BY <3>2, <3>3
  <2>2. CASE ~Registered(named, cmdbuf.arg)
    BY <1>2, <1>19, <1>27, <2>2 DEF UnregisterServiceOrPort, Results
  <2> QED BY <2>1, <2>2
<1>28. CASE UnregisterService \/ UnregisterPort
  BY <1>27, <1>28 DEF UnregisterService, UnregisterPort, Serving
<1>29. CASE GetServiceHandle
  <2>1. pool[cur].busy \in Ports \cup {NoPort}
    BY <1>2, <1>18, <1>29 DEF GetServiceHandle, Serving, Node
  <2>2. CASE ~Registered(FALSE, cmdbuf.arg)
    BY <1>2, <1>20, <1>29, <2>1, <2>2 DEF GetServiceHandle, Serving
  <2>3. CASE Registered(FALSE, cmdbuf.arg)
    <3> DEFINE p == services[Find(FALSE, cmdbuf.arg)].port
    <3>1. p \in Ports
      <4>1. Find(FALSE, cmdbuf.arg) \in DOMAIN services
        BY <2>3, <1>2, FindProperties
      <4>2. services[Find(FALSE, cmdbuf.arg)] \in Service
        BY <4>1, <1>2, ElementOf
      <4> QED BY <4>2 DEF Service
    <3>2. ASSUME CreateSessionToPort(p)
          PROVE  sess' \in [Handles -> Session] /\ port' \in [Ports -> Port]
      <4>1. sess[pool[cur].handle].owner \in AllPids
        BY <1>2, <1>18, <1>29 DEF GetServiceHandle, Serving, Session
      <4>2. NewSession("pm", sess[pool[cur].handle].owner) \in Session
        BY <4>1 DEF NewSession, Session
      <4>3. CASE p = SrvPmPort
        BY <3>2, <4>2, <4>3, <1>2 DEF CreateSessionToPort
      <4>4. CASE p # SrvPmPort
        <5>1. \A q \in Ports : port[q].load + 1 \in Nat
          BY <1>2 DEF Port
        <5> QED BY <3>1, <3>2, <4>4, <5>1, <1>2, ZenonT(30) DEF CreateSessionToPort, Port
      <4> QED BY <4>3, <4>4
    <3>3. CASE ~port[p].alive
      BY <1>2, <1>19, <1>29, <2>3, <3>3 DEF GetServiceHandle, Serving, Results
    <3>4. CASE port[p].alive /\ ~Full(p)
      BY <1>2, <1>19, <1>29, <2>3, <3>2, <3>4 DEF GetServiceHandle, Serving, Results
    <3>5. CASE port[p].alive /\ Full(p) /\ cmdbuf.w4 % 2 = 0
      BY <1>2, <1>20, <1>29, <2>3, <3>1, <3>5 DEF GetServiceHandle, Serving
    <3>6. CASE port[p].alive /\ Full(p) /\ cmdbuf.w4 % 2 # 0
      BY <1>2, <1>19, <1>29, <2>3, <3>6 DEF GetServiceHandle, Serving, Results
    <3> QED BY <3>3, <3>4, <3>5, <3>6
  <2> QED BY <2>2, <2>3
<1>30. CASE GetPort
  <2>1. pool[cur].busy \in Ports \cup {NoPort}
    BY <1>2, <1>18, <1>30 DEF GetPort, Serving, Node
  <2> QED BY <1>2, <1>19, <1>20, <1>30, <2>1 DEF GetPort, Serving, Results
<1>31. CASE PublishAndGetSubscriber
  <2>1. PICK w \in Word4 \cup {cmdbuf.w4} : cmdbuf' = [NoCommand EXCEPT !.w4 = w]
    BY <1>31 DEF PublishAndGetSubscriber
  <2>2. cmdbuf' \in Command
    BY <2>1, <1>2, <1>18 DEF NoCommand, Command, Args, SrvOps, PmOps
  <2> QED BY <1>31, <2>2, <1>2, <1>18 DEF PublishAndGetSubscriber, Serving, Results
<1>32. CASE RegisterProcess
  <2>1. cmdbuf.arg \in Pids
    BY <1>2, <1>32 DEF RegisterProcess, Serving, Command, PmOps
  <2>2. Answer("ok") \/ Answer("duplicate")
    BY <1>32 DEF RegisterProcess
  <2> QED BY <1>2, <1>19, <1>32, <2>1, <2>2 DEF RegisterProcess, Serving, Results
<1>33. CASE UnregisterProcess
  <2>1. CASE cmdbuf.arg \notin procs
    BY <1>2, <1>19, <1>33, <2>1 DEF UnregisterProcess, Serving, Results
  <2>2. CASE cmdbuf.arg \in procs
    <3>1. /\ pc' = "unregister" /\ i' = 1
          /\ UNCHANGED <<kernel, static, cmdbuf, replyTarget, result, cur, n, closedPort>>
      BY <1>33, <2>2 DEF UnregisterProcess
    <3> QED BY <1>2, <3>1
  <2> QED BY <2>1, <2>2
<1>34. CASE UnregisterNext
  <2>1. i \in DOMAIN services /\ i + 1 \in Nat /\ AfterRemoval \in Nat
    BY <1>2, <1>34 DEF UnregisterNext, IInv, ControlOK, AfterRemoval
  <2>2. services' \in Seq(Service)
    BY <1>2, <1>26, <1>34, <2>1 DEF UnregisterNext
  <2>3. port' \in [Ports -> Port]
    BY <1>2, <1>34 DEF UnregisterNext
  <2> QED BY <1>2, <1>34, <2>1, <2>2, <2>3 DEF UnregisterNext
<1>35. CASE UnregisterDone
  BY <1>2, <1>18, <1>35 DEF UnregisterDone, Results
<1>36. CASE UNCHANGED vars
  BY <1>2, <1>36 DEF vars
<1> QED
  BY <1>3, <1>6, <1>7, <1>8, <1>10, <1>11, <1>12, <1>13, <1>14, <1>15, <1>16, <1>17, <1>21, <1>23,
     <1>24, <1>25, <1>28, <1>29, <1>30, <1>31, <1>32, <1>33, <1>34, <1>35, <1>36
  DEF Next, Sm, Loop, Handler, AcceptSrv, AcceptPm

---------------------------------------------------------------------------
(* What a step does to the bookkeeping of sessions, lists and semaphore.    *)
(* Every step is of one of the kinds below (StepKinds); the invariants are  *)
(* then shown kind by kind.                                                 *)

OnList(s)     == lists.parent[s]
NoSlotHas(h)  == \A s \in Slots : pool[s].handle # h
SameHandles   == \A s \in Slots : pool'[s].handle = pool[s].handle
SameCount     == sem' + n' = sem + n
Working       == {"serve", "wake", "unregister"}

(* Clients connect, send and leave: no session starts or stops being taken. *)
ClientsOnly ==
  \A h \in Handles :
    \/ sess'[h].st = sess[h].st
    \/ sess[h].st \in {"idle", "sent"} /\ sess'[h].st \in {"idle", "sent"}
    \/ sess'[h].st = "pending" /\ NoSlotHas(h)

StateBecomes(h, st) ==
  \A g \in Handles : sess'[g].st = IF g = h THEN st ELSE sess[g].st

Counters == /\ pc' \in {"wake", "unregister", "closing"} => i' > 0
            /\ pc' \notin {"wake", "panic"} => n' = 0

Quiet  == /\ ClientsOnly /\ UNCHANGED <<lists, cur, replyTarget>> /\ SameHandles /\ SameCount
          /\ \/ pc' = pc
             \/ pc \in Working /\ pc' \in Working
             \/ pc \in {"wait", "closing"} /\ pc' \in {"wait", "closing"}
Stops  == pc' = "panic" /\ UNCHANGED <<sess, lists, pool>>
Closes == \E s \in Slots, back \in BOOLEAN :
            /\ pc \in {"wait", "reply"} /\ pc' = "wait"
            /\ OnList(s) = "inUse" /\ lists' = MoveNode(lists, s, "free", back)
            /\ StateBecomes(pool[s].handle, "none")
            /\ pc = "reply" => replyTarget = pool[s].handle
            /\ replyTarget' = NoHandle /\ cur' = cur /\ SameHandles /\ SameCount
Replies == /\ pc = "reply" /\ pc' = "wait" /\ StateBecomes(replyTarget, "idle")
           /\ replyTarget' = NoHandle /\ UNCHANGED <<lists, cur>> /\ SameHandles /\ SameCount
Resumes == \E s \in Slots, back \in BOOLEAN :
             /\ pc = "wait" /\ pc' = "serve" /\ lists' = MoveNode(lists, s, "inUse", back)
             /\ \/ OnList(s) = "toWake" /\ sem' + n' = sem + n - 1
                \/ OnList(s) = "waitPort" /\ SameCount
             /\ cur' = s /\ UNCHANGED <<sess, replyTarget>> /\ SameHandles
Accepts == \E s \in Slots, h \in Handles, back \in BOOLEAN :
             /\ pc = "wait" /\ OnList(s) = "free" /\ lists' = MoveNode(lists, s, "inUse", back)
             /\ sess[h].st = "pending" /\ StateBecomes(h, "idle")
             /\ \A t \in Slots : pool'[t].handle = IF t = s THEN h ELSE pool[t].handle
             /\ UNCHANGED <<pc, cur, replyTarget>> /\ SameCount
Receives == \E s \in Slots :
              /\ pc = "wait" /\ pc' = "serve" /\ OnList(s) = "inUse"
              /\ StateBecomes(pool[s].handle, "taken") /\ cur' = s
              /\ UNCHANGED <<lists, replyTarget>> /\ SameHandles /\ SameCount
Answers == /\ pc \in Working /\ pc' = "reply" /\ ClientsOnly
           /\ replyTarget' = pool[cur].handle /\ cur' = 0
           /\ UNCHANGED lists /\ SameHandles /\ SameCount
Parks   == \E l \in {"waitReg", "waitPort"} :
             /\ pc = "serve" /\ pc' = "wait" /\ lists' = MoveNode(lists, cur, l, TRUE)
             /\ replyTarget' = NoHandle /\ cur' = 0
             /\ UNCHANGED sess /\ SameHandles /\ SameCount
Requeues == \E s \in Slots, l \in {"toWake", "waitReg"} :
              /\ lists' = MoveNode(lists, s, l, TRUE)
              /\ \/ OnList(s) = "waitReg" /\ l = "toWake" /\ sem' + n' = sem + n + 1
                 \/ OnList(s) = "waitPort" /\ l = "waitReg" /\ SameCount
              /\ UNCHANGED <<sess, pc, cur, replyTarget>> /\ SameHandles

Kind == \/ Quiet \/ Stops \/ Closes \/ Replies \/ Resumes \/ Accepts
        \/ Receives \/ Answers \/ Parks \/ Requeues

LEMMA StepKinds == IInv /\ [Next]_vars => Counters /\ Kind
<1> SUFFICES ASSUME IInv, [Next]_vars PROVE Counters /\ Kind
  OBVIOUS
<1>1. /\ sess \in [Handles -> Session] /\ pool \in [Slots -> Node]
      /\ sem \in Nat /\ i \in Nat /\ n \in Nat
  BY DEF IInv, TypeOK
<1>2. ControlOK /\ HandlesOK
  BY DEF IInv
<1> USE DEF kernel, static, locals
<1>3. Panic => Counters /\ Kind
  BY DEF Panic, Counters, Stops, Kind
<1>4. CASE Environment
  <2>1. ASSUME NEW h \in Handles, NEW p \in Pids, Connect(h, p) PROVE ClientsOnly /\ UNCHANGED pool
    BY <2>1, <1>1 DEF Connect, NewSession, NoSession, Fresh, ClientsOnly, NoSlotHas
  <2>2. ASSUME NEW h \in Handles, NEW c, SendRequest(h, c) PROVE ClientsOnly /\ UNCHANGED pool
    BY <2>2, <1>1 DEF SendRequest, ClientsOnly, Session
  <2>3. ASSUME NEW h \in Handles, CloseClient(h) PROVE ClientsOnly /\ UNCHANGED pool
    BY <2>3, <1>1 DEF CloseClient, ClientsOnly, Session
  <2>4. ASSUME NEW p \in Ports, ServerDies(p) \/ ServiceSessionEnds(p)
        PROVE  ClientsOnly /\ UNCHANGED pool
    BY <2>4 DEF ServerDies, ServiceSessionEnds, ClientsOnly
  <2>5. UNCHANGED <<locals, lists, sem>>
    BY <1>4 DEF Environment, Connect, SendRequest, CloseClient, ServerDies, ServiceSessionEnds
  <2>6. ClientsOnly /\ UNCHANGED pool
    BY <1>4, <2>1, <2>2, <2>3, <2>4 DEF Environment
  <2> QED BY <2>5, <2>6, <1>2 DEF Kind, Quiet, SameHandles, SameCount, Counters, ControlOK
<1>5. ASSUME NEW s \in Slots, OnList(s) = "inUse", pool[s].handle \in Handles,
             pc = "wait" \/ (pc = "reply" /\ replyTarget = pool[s].handle),
             CloseSession(pool[s].handle)
      PROVE  Counters /\ Kind
  <2>1. NodeOf(pool[s].handle) = s
    BY <1>2, <1>5, NodeOfProperties, ValuesAssumption
  <2>2. SameHandles
    BY <1>1, <1>5, <2>1 DEF CloseSession, SameHandles, Node, BlankNode
  <2>3. StateBecomes(pool[s].handle, "none")
    BY <1>1, <1>5 DEF CloseSession, StateBecomes, NoSession
  <2>4. Closes
    BY <1>5, <2>1, <2>2, <2>3 DEF CloseSession, Closes, SameCount
  <2> QED BY <1>2, <1>5, <2>4 DEF Kind, Counters, CloseSession, ControlOK
<1>6. CASE Reply
  <2>1. StateBecomes(replyTarget, "idle")
    BY <1>1, <1>6 DEF Reply, StateBecomes
  <2> QED BY <1>2, <1>6, <2>1 DEF Reply, Kind, Replies, SameHandles, SameCount, Counters, ControlOK
<1>7. CASE ReplyUnreachable
  <2> DEFINE s == NodeOf(replyTarget)
  <2>1. s \in Slots /\ OnList(s) = "inUse" /\ pool[s].handle = replyTarget /\ replyTarget \in Handles
    BY <1>2, <1>7, ReplyNode DEF ReplyUnreachable, OnList, ControlOK
  <2> HIDE DEF s
  <2> QED BY <1>3, <1>5, <1>7, <2>1 DEF ReplyUnreachable
<1>8. CASE InvalidHandle
  BY <1>3, <1>8 DEF InvalidHandle
<1>9. ASSUME NEW s \in Slots, NEW busy, Replay(s, busy)
      PROVE  SameHandles /\ cur' = s /\ pc' = "serve"
  BY <1>1, <1>9 DEF Replay, SameHandles, Node
<1>10. CASE ResumeRegistered
  <2>1. CASE ToWake # <<>>
    <3> DEFINE s == Head(ToWake)
    <3>1. s \in Slots /\ OnList(s) = "toWake"
      BY <2>1, HeadNode DEF ToWake, ListNames, OnList
    <3>2. /\ sem' = sem - 1 /\ n' = n /\ i' = i /\ lists' = MoveNode(lists, s, "inUse", FALSE)
          /\ Replay(s, pool[s].busy) /\ UNCHANGED <<sess, replyTarget>> /\ pc = "wait"
      BY <1>10, <2>1 DEF ResumeRegistered, Waiting
    <3> HIDE DEF s
    <3>3. sem' + n' = sem + n - 1
      BY <1>1, <3>2
    <3>4. Resumes
      BY <1>9, <3>1, <3>2, <3>3 DEF Resumes
    <3> QED BY <1>2, <1>9, <3>1, <3>2, <3>4 DEF Kind, Counters, ControlOK
  <2> QED BY <1>3, <1>10, <2>1 DEF ResumeRegistered
<1>11. ASSUME NEW kind \in {"srv", "pm"}, pc = "wait", AcceptSession(kind)
       PROVE  Counters /\ Kind
  <2>1. CASE Free # <<>>
    <3> DEFINE s == Head(Free)
    <3>1. s \in Slots /\ OnList(s) = "free"
      BY <2>1, HeadNode DEF Free, ListNames, OnList
    <3>2. PICK h \in Handles :
            /\ sess[h].st = "pending" /\ sess' = [sess EXCEPT ![h].st = "idle"]
            /\ pool' = [pool EXCEPT ![s] = AcceptedNode(h, kind)]
            /\ lists' = MoveNode(lists, s, "inUse", FALSE) /\ UNCHANGED <<sem, locals>>
      BY <1>11, <2>1 DEF AcceptSession, Pending, SessionsOf
    <3> HIDE DEF s
    <3>3. \A t \in Slots : pool'[t].handle = IF t = s THEN h ELSE pool[t].handle
      BY <1>1, <3>1, <3>2 DEF AcceptedNode, BlankNode
    <3>4. StateBecomes(h, "idle")
      BY <1>1, <3>2 DEF StateBecomes, Session
    <3>5. Accepts
      BY <1>11, <3>1, <3>2, <3>3, <3>4 DEF Accepts, SameCount
    <3> QED BY <1>2, <1>11, <3>2, <3>5 DEF Kind, Counters, ControlOK
  <2> QED BY <1>3, <1>11, <2>1 DEF AcceptSession
<1>12. CASE AcceptSrv \/ AcceptPm
  BY <1>11, <1>12 DEF AcceptSrv, AcceptPm, Waiting
<1>13. CASE SessionClosed
  <2> DEFINE s == FirstOf(InUse, Signalled)
  <2>1. s \in Slots /\ OnList(s) = "inUse" /\ pool[s].handle \in Handles
    BY <1>13, SignalledNode DEF SessionClosed, OnList
  <2>2. pc = "wait" /\ CloseSession(pool[s].handle)
    BY <1>13 DEF SessionClosed, Waiting
  <2> HIDE DEF s
  <2> QED BY <1>5, <2>1, <2>2
<1>14. CASE ReceiveRequest
  <2> DEFINE s == FirstOf(InUse, Signalled)
  <2>1. s \in Slots /\ OnList(s) = "inUse" /\ pool[s].handle \in Handles
    BY <1>14, SignalledNode DEF ReceiveRequest, OnList
  <2>2. /\ pc = "wait" /\ pc' = "serve" /\ cur' = s
        /\ sess' = [sess EXCEPT ![pool[s].handle].st = "taken"]
        /\ UNCHANGED <<sem, static, replyTarget, i, n>>
    BY <1>14 DEF ReceiveRequest, Waiting
  <2> HIDE DEF s
  <2>3. StateBecomes(pool[s].handle, "taken")
    BY <1>1, <2>1, <2>2 DEF StateBecomes, Session
  <2>4. Receives
    BY <2>1, <2>2, <2>3 DEF Receives, SameHandles, SameCount
  <2> QED BY <1>2, <2>2, <2>4 DEF Kind, Counters, ControlOK
<1>15. CASE ResumePortReady
  <2> DEFINE s == FirstOf(WaitPort, PortSignalled)
  <2>1. s \in Slots /\ OnList(s) = "waitPort"
    BY <1>15, PortSignalledNode DEF ResumePortReady, OnList
  <2>2. /\ pc = "wait" /\ lists' = MoveNode(lists, s, "inUse", FALSE) /\ Replay(s, NoPort)
        /\ UNCHANGED <<sess, sem, replyTarget, i, n>>
    BY <1>15 DEF ResumePortReady, Waiting
  <2> HIDE DEF s
  <2>3. Resumes
    BY <1>9, <2>1, <2>2 DEF Resumes, SameCount
  <2> QED BY <1>2, <1>9, <2>1, <2>2, <2>3 DEF Kind, Counters, ControlOK
<1>16. CASE PortClosed \/ PortClosedDone
  BY <1>2, <1>16 DEF PortClosed, PortClosedDone, Waiting, Kind, Quiet, ClientsOnly, SameHandles,
                     SameCount, Counters, ControlOK
<1>17. CASE PortClosedNext
  <2> DEFINE s == WaitPort[i]
  <2>1. s \in Slots /\ OnList(s) = "waitPort" /\ i > 0
    <3>1. "waitPort" \in ListNames /\ i \in DOMAIN WaitPort
      BY <1>1, <1>2, <1>17, ListOf DEF PortClosedNext, ControlOK, ListNames, WaitPort
    <3> QED BY <1>1, <3>1, ListOf DEF WaitPort, OnList
  <2>2. /\ pc = "closing"
        /\ \/ /\ pool' = [pool EXCEPT ![s].replay.arg = Clobbered, ![s].busy = NoPort]
              /\ lists' = MoveNode(lists, s, "waitReg", TRUE) /\ i' = i
           \/ i' = i + 1 /\ UNCHANGED <<pool, lists>>
        /\ UNCHANGED <<sess, sem, pc, cur, replyTarget, n>>
    BY <1>17 DEF PortClosedNext, AfterMove
  <2> HIDE DEF s
  <2>3. SameHandles
    <3>1. \A t \in Slots : pool'[t].handle = pool[t].handle
      <4>1. CASE pool' = [pool EXCEPT ![s].replay.arg = Clobbered, ![s].busy = NoPort]
        BY <1>1, <4>1 DEF Node
      <4> QED BY <2>2, <4>1
    <3> QED BY <3>1 DEF SameHandles
  <2>4. Requeues \/ Quiet
    BY <2>1, <2>2, <2>3 DEF Requeues, Quiet, ClientsOnly, SameCount
  <2>5. i' > 0
    <3>1. i' = i \/ i' = i + 1
      BY <2>2
    <3> QED BY <1>1, <2>1, <3>1
  <2>6. pc' = "closing" /\ n' = 0
    BY <1>2, <2>2 DEF ControlOK
  <2> QED BY <2>4, <2>5, <2>6 DEF Kind, Counters
<1>18. ASSUME NEW r, pc = "serve", Answer(r), UNCHANGED <<lists, sem>>, SameHandles, ClientsOnly
       PROVE  Counters /\ Kind
  BY <1>2, <1>18 DEF Answer, Kind, Answers, Working, SameCount, Counters, ControlOK
<1>19. ASSUME UNCHANGED <<sess, pool>> PROVE ClientsOnly /\ SameHandles
  BY <1>19 DEF ClientsOnly, SameHandles
<1>20. ASSUME NEW l \in {"waitReg", "waitPort"}, NEW busy, pc = "serve", Park(l, busy), UNCHANGED <<sess, sem>>
       PROVE  Counters /\ Kind
  <2>1. SameHandles
    BY <1>1, <1>20 DEF Park, SameHandles, Node
  <2> QED BY <1>2, <1>20, <2>1 DEF Park, Kind, Parks, SameCount, Counters, ControlOK
<1>21. CASE RegisterClient
  <2>1. SameHandles /\ ClientsOnly
    BY <1>1, <1>21 DEF RegisterClient, SameHandles, ClientsOnly, Node
  <2> QED BY <1>18, <1>21, <2>1 DEF RegisterClient, Serving
<1>22. ASSUME NEW named \in BOOLEAN, pc = "serve", RegisterServiceOrPort(named) PROVE Counters /\ Kind
  <2>1. ASSUME NEW p, NEW max, AddService(p, named, max) PROVE Counters /\ Kind
    <3>1. n = 0 /\ SameCount
      BY <1>2, <1>22, <2>1 DEF AddService, ControlOK, SameCount
    <3> QED BY <1>19, <1>22, <2>1, <3>1 DEF AddService, Kind, Quiet, Working, Counters
  <2> QED BY <1>18, <1>19, <1>22, <2>1 DEF RegisterServiceOrPort
<1>23. CASE RegisterService \/ RegisterPort
  BY <1>22, <1>23 DEF RegisterService, RegisterPort, Serving
<1>24. CASE WakeNext
  <2> DEFINE s == WaitReg[i]
  <2>1. s \in Slots /\ OnList(s) = "waitReg" /\ i > 0
    <3>1. "waitReg" \in ListNames /\ i \in DOMAIN WaitReg
      BY <1>1, <1>2, <1>24, ListOf DEF WakeNext, ControlOK, ListNames, WaitReg
    <3> QED BY <1>1, <3>1, ListOf DEF WaitReg, OnList
  <2>2. /\ pc = "wake"
        /\ \/ lists' = MoveNode(lists, s, "toWake", TRUE) /\ n' = n + 1 /\ i' = i
           \/ i' = i + 1 /\ UNCHANGED <<lists, n>>
        /\ UNCHANGED <<sess, sem, pool, pc, cur, replyTarget>>
    BY <1>24 DEF WakeNext, AfterMove
  <2> HIDE DEF s
  <2>3. Requeues \/ Quiet
    <3>1. CASE lists' = MoveNode(lists, s, "toWake", TRUE) /\ n' = n + 1
      <4>1. sem' + n' = sem + n + 1
        BY <1>1, <2>2, <3>1
      <4> QED BY <1>19, <2>1, <2>2, <3>1, <4>1 DEF Requeues
    <3>2. CASE UNCHANGED <<lists, n>>
      BY <1>19, <2>2, <3>2 DEF Quiet, SameCount
    <3> QED BY <2>2, <3>1, <3>2
  <2>4. i' > 0
    <3>1. i' = i \/ i' = i + 1
      BY <2>2
    <3> QED BY <1>1, <2>1, <3>1
  <2> QED BY <2>2, <2>3, <2>4 DEF Kind, Counters
<1>25. CASE WakeDone
  <2>1. CASE ~(sem + Released > SemMax)
    <3>1. /\ pc = "wake" /\ pc' = "reply" /\ replyTarget' = pool[cur].handle /\ cur' = 0
          /\ sem' = sem + n /\ n' = 0 /\ UNCHANGED <<sess, lists, pool>>
      BY <1>25, <2>1 DEF WakeDone, Released
    <3>2. SameCount
      BY <1>1, <3>1 DEF SameCount
    <3> QED BY <1>19, <3>1, <3>2 DEF Kind, Answers, Working, Counters
  <2> QED BY <1>3, <1>25, <2>1 DEF WakeDone
<1>26. CASE UnregisterService \/ UnregisterPort
  BY <1>18, <1>19, <1>26
  DEF UnregisterService, UnregisterPort, UnregisterServiceOrPort, Serving
<1>27. CASE GetServiceHandle
  <2>1. ASSUME NEW p, CreateSessionToPort(p) PROVE ClientsOnly
    BY <1>1, <2>1 DEF CreateSessionToPort, NewSession, NoSession, Fresh, ClientsOnly, NoSlotHas
  <2> DEFINE p == services[Find(FALSE, cmdbuf.arg)].port
  <2>2. pc = "serve"
    BY <1>27 DEF GetServiceHandle, Serving
  <2>3. \/ \E l \in {"waitReg", "waitPort"}, busy \in {pool[cur].busy, p} :
             Park(l, busy) /\ UNCHANGED <<sess, sem>>
        \/ \E r \in Results : Answer(r) /\ UNCHANGED <<sess, sem, lists, pool>>
        \/ Answer("ok") /\ CreateSessionToPort(p) /\ UNCHANGED <<sem, lists, pool>>
    BY <1>27 DEF GetServiceHandle, Results
  <2> HIDE DEF p
  <2>4. ASSUME UNCHANGED pool PROVE SameHandles
    BY <2>4 DEF SameHandles
  <2> QED BY <1>18, <1>19, <1>20, <2>1, <2>2, <2>3, <2>4
<1>28. CASE GetPort
  BY <1>18, <1>19, <1>20, <1>28 DEF GetPort, Serving
<1>29. CASE PublishAndGetSubscriber
  BY <1>2, <1>19, <1>29 DEF PublishAndGetSubscriber, Serving, Kind, Answers, Working, SameCount,
                            Counters, ControlOK
<1>30. CASE RegisterProcess
  BY <1>18, <1>19, <1>30 DEF RegisterProcess, Serving
<1>31. CASE UnregisterProcess
  <2>1. CASE cmdbuf.arg \notin procs
    BY <1>18, <1>19, <1>31, <2>1 DEF UnregisterProcess, Serving
  <2>2. CASE cmdbuf.arg \in procs
    <3>1. /\ pc = "serve" /\ pc' = "unregister" /\ i' = 1
          /\ UNCHANGED <<sess, sem, lists, pool, cur, replyTarget, n>>
      BY <1>31, <2>2 DEF UnregisterProcess, Serving
    <3>2. n = 0
      BY <1>2, <3>1 DEF ControlOK
    <3> QED BY <1>19, <3>1, <3>2 DEF Kind, Quiet, Working, SameCount, Counters
  <2> QED BY <2>1, <2>2
<1>32. CASE UnregisterNext
  <2>1. /\ pc = "unregister" /\ i' \in {i, i + 1} /\ i > 0
        /\ UNCHANGED <<sess, sem, lists, pool, pc, cur, replyTarget, n>>
    BY <1>2, <1>32 DEF UnregisterNext, AfterRemoval, ControlOK
  <2>2. i' > 0 /\ n' = 0
    BY <1>1, <1>2, <2>1 DEF ControlOK
  <2> QED BY <1>19, <2>1, <2>2 DEF Kind, Quiet, SameCount, Counters
<1>33. CASE UnregisterDone
  BY <1>2, <1>19, <1>33 DEF UnregisterDone, Kind, Answers, Working, SameCount, Counters, ControlOK
<1>34. CASE UNCHANGED vars
  BY <1>2, <1>19, <1>34 DEF vars, Kind, Quiet, SameCount, Counters, ControlOK
<1> QED
  BY <1>4, <1>6, <1>7, <1>8, <1>10, <1>12, <1>13, <1>14, <1>15, <1>16, <1>17, <1>21, <1>23, <1>24,
     <1>25, <1>26, <1>27, <1>28, <1>29, <1>30, <1>31, <1>32, <1>33, <1>34
  DEF Next, Sm, Loop, Handler

(* Where the nodes are after a move, and how many wait to be woken.         *)
LEMMA Moved ==
  ASSUME IInv, NEW s \in Slots, NEW dst \in ListNames, NEW back \in BOOLEAN,
         lists' = MoveNode(lists, s, dst, back)
  PROVE  /\ \A t \in Slots : OnList(t)' = IF t = s THEN dst ELSE OnList(t)
         /\ OnList(s) # "toWake" /\ dst = "toWake" => Len(ToWake)' = Len(ToWake) + 1
         /\ OnList(s) = "toWake" /\ dst # "toWake" => Len(ToWake)' = Len(ToWake) - 1
         /\ OnList(s) # "toWake" /\ dst # "toWake" => Len(ToWake)' = Len(ToWake)
<1> DEFINE M == MoveNode(lists, s, dst, back)
<1>1. lists \in ListFamily(Slots) /\ IsPartition(lists, Slots) /\ lists.parent \in [Slots -> ListNames]
  BY DEF IInv, TypeOK, PoolPartitioned, ListFamily
<1>2. /\ M.parent = [lists.parent EXCEPT ![s] = dst]
      /\ \A l \in ListNames \ {dst, lists.parent[s]} : M.nodes[l] = lists.nodes[l]
      /\ lists.parent[s] # dst =>
           /\ Len(M.nodes[dst]) = Len(lists.nodes[dst]) + 1
           /\ Len(M.nodes[lists.parent[s]]) = Len(lists.nodes[lists.parent[s]]) - 1
  BY <1>1, MoveNodeProperties
<1>3. "toWake" \in ListNames
  BY DEF ListNames
<1> HIDE DEF M
<1>4. lists' = M
  BY DEF M
<1> QED BY <1>1, <1>2, <1>3, <1>4 DEF OnList, ToWake

LEMMA ControlStep == IInv /\ [Next]_vars => ControlOK'
<1> SUFFICES ASSUME IInv, Counters, Kind PROVE ControlOK'
  BY StepKinds
<1>1. ControlOK /\ HandlesOK /\ cur \in Slots \cup {0} /\ 0 \notin Slots
  BY SizesAssumption DEF IInv, TypeOK, Slots
<1> DEFINE CurOK == pc \in Working => cur \in Slots /\ OnList(cur) = "inUse"
           Idle == pc \in {"wait", "reply", "closing"} => cur = 0
           ReplyOK == /\ pc = "reply" => replyTarget \in Handles
                      /\ pc \notin {"reply", "panic"} => replyTarget = NoHandle
<1>2. CurOK /\ Idle /\ ReplyOK
  BY <1>1 DEF ControlOK, Working, OnList
<1>3. SUFFICES CurOK' /\ Idle' /\ ReplyOK'
  BY <1>3 DEF Counters, ControlOK, Working, OnList
<1> USE DEF Working
<1>4. CASE Quiet
  BY <1>2, <1>4 DEF Quiet, OnList
<1>5. CASE Stops
  BY <1>5 DEF Stops
<1>6. CASE Closes
  BY <1>2, <1>6 DEF Closes
<1>7. CASE Replies
  BY <1>2, <1>7 DEF Replies
<1>8. CASE Resumes
  <2>1. PICK s \in Slots, back \in BOOLEAN : lists' = MoveNode(lists, s, "inUse", back) /\ cur' = s
    BY <1>8 DEF Resumes
  <2>2. OnList(s)' = "inUse"
    BY <2>1, Moved DEF ListNames
  <2> QED BY <1>2, <1>8, <2>1, <2>2 DEF Resumes, OnList
<1>9. CASE Accepts
  BY <1>2, <1>9 DEF Accepts
<1>10. CASE Receives
  BY <1>2, <1>10 DEF Receives, OnList
<1>11. CASE Answers
  BY <1>1, <1>2, <1>11 DEF Answers, HandlesOK, OnList
<1>12. CASE Parks
  BY <1>12 DEF Parks
<1>13. CASE Requeues
  <2>1. PICK s \in Slots, l \in {"toWake", "waitReg"} :
          lists' = MoveNode(lists, s, l, TRUE) /\ OnList(s) \in {"waitReg", "waitPort"}
    BY <1>13 DEF Requeues
  <2>2. \A t \in Slots : OnList(t) = "inUse" => OnList(t)' = "inUse"
    BY <2>1, Moved DEF ListNames
  <2> QED BY <1>2, <1>13, <2>2 DEF Requeues, OnList
<1> QED BY <1>4, <1>5, <1>6, <1>7, <1>8, <1>9, <1>10, <1>11, <1>12, <1>13 DEF Kind

(* The wake-ups the semaphore promises are the sessions on the list.        *)
LEMMA SemStep == IInv /\ [Next]_vars => SemaphoreCountsWakeups'
<1> SUFFICES ASSUME IInv, Kind PROVE SemaphoreCountsWakeups'
  BY StepKinds
<1>1. SemaphoreCountsWakeups /\ ControlOK /\ sem \in Nat /\ n \in Nat
  BY DEF IInv, TypeOK
<1> USE DEF ListNames
<1>2. CASE Quiet \/ Replies \/ Receives \/ Answers
  <2>1. SameCount /\ UNCHANGED lists /\ (pc # "panic" \/ pc' = "panic")
    BY <1>2 DEF Quiet, Replies, Receives, Answers, Working
  <2> QED BY <1>1, <2>1 DEF SameCount, SemaphoreCountsWakeups, ToWake
<1>3. CASE Stops
  BY <1>3 DEF Stops, SemaphoreCountsWakeups
<1>4. ASSUME NEW s \in Slots, NEW dst \in ListNames, NEW back \in BOOLEAN,
             lists' = MoveNode(lists, s, dst, back), pc # "panic",
             \/ OnList(s) # "toWake" /\ dst # "toWake" /\ SameCount
             \/ OnList(s) = "toWake" /\ dst # "toWake" /\ sem' + n' = sem + n - 1
             \/ OnList(s) # "toWake" /\ dst = "toWake" /\ sem' + n' = sem + n + 1
      PROVE  SemaphoreCountsWakeups'
  <2>1. sem + n = Len(ToWake)
    BY <1>1, <1>4 DEF SemaphoreCountsWakeups
  <2>2. /\ OnList(s) # "toWake" /\ dst = "toWake" => Len(ToWake)' = Len(ToWake) + 1
        /\ OnList(s) = "toWake" /\ dst # "toWake" => Len(ToWake)' = Len(ToWake) - 1
        /\ OnList(s) # "toWake" /\ dst # "toWake" => Len(ToWake)' = Len(ToWake)
    BY <1>4, Moved
  <2>3. sem' + n' = Len(ToWake)'
    <3>1. CASE OnList(s) # "toWake" /\ dst # "toWake" /\ SameCount
      BY <2>1, <2>2, <3>1 DEF SameCount
    <3>2. CASE OnList(s) = "toWake" /\ dst # "toWake" /\ sem' + n' = sem + n - 1
      BY <1>1, <2>1, <2>2, <3>2
    <3>3. CASE OnList(s) # "toWake" /\ dst = "toWake" /\ sem' + n' = sem + n + 1
      BY <2>1, <2>2, <3>3
    <3> QED BY <1>4, <3>1, <3>2, <3>3
  <2> QED BY <2>3 DEF SemaphoreCountsWakeups
<1>5. CASE Closes
  BY <1>4, <1>5 DEF Closes
<1>6. CASE Resumes
  BY <1>4, <1>6 DEF Resumes
<1>7. CASE Accepts
  BY <1>4, <1>7 DEF Accepts
<1>8. CASE Parks
  <2>1. cur \in Slots /\ OnList(cur) = "inUse"
    BY <1>1, <1>8 DEF Parks, ControlOK, OnList
  <2> QED BY <1>4, <1>8, <2>1 DEF Parks
<1>9. CASE Requeues
  <2>1. pc # "panic" \/ pc' = "panic"
    BY <1>9 DEF Requeues
  <2>2. CASE pc' = "panic"
    BY <2>2 DEF SemaphoreCountsWakeups
  <2> QED BY <1>4, <1>9, <2>1, <2>2 DEF Requeues
<1> QED BY <1>2, <1>3, <1>5, <1>6, <1>7, <1>8, <1>9 DEF Kind

LEMMA HandlesStep == IInv /\ [Next]_vars => HandlesOK'
<1> SUFFICES ASSUME IInv, Kind PROVE HandlesOK'
  BY StepKinds
<1> DEFINE H(s) == pool[s].handle
           Accepted == \A s \in Slots : OnList(s) # "free" =>
                         H(s) \in Handles /\ sess[H(s)].st \in {"idle", "sent", "taken"}
           Distinct == \A s, t \in Slots : H(s) = H(t) /\ H(s) # NoHandle => s = t
           Unused == \A h \in Handles : sess[h].st = "pending" => \A s \in Slots : H(s) # h
<1>1. Accepted /\ Distinct /\ Unused /\ NoHandle \notin Handles
  BY ValuesAssumption DEF IInv, HandlesOK, OnList
<1>2. ControlOK /\ TakenOK
  BY DEF IInv
<1>3. SUFFICES Accepted' /\ Distinct' /\ Unused'
  BY <1>3 DEF HandlesOK, OnList
<1>4. ASSUME SameHandles PROVE Distinct' /\ \A s \in Slots : H(s)' = H(s)
  BY <1>1, <1>4 DEF SameHandles
<1>5. ASSUME NEW h \in Handles, NEW st \in {"idle", "taken"}, StateBecomes(h, st),
             SameHandles, UNCHANGED lists
      PROVE  Accepted' /\ Unused'
  BY <1>1, <1>4, <1>5 DEF StateBecomes, OnList
<1>6. ASSUME NEW s \in Slots, NEW dst \in ListNames, NEW back \in BOOLEAN, OnList(s) # "free",
             lists' = MoveNode(lists, s, dst, back), SameHandles, UNCHANGED sess
      PROVE  Accepted' /\ Unused'
  <2>1. \A t \in Slots : OnList(t)' # "free" => OnList(t) # "free"
    BY <1>6, Moved
  <2> QED BY <1>1, <1>4, <1>6, <2>1
<1>7. CASE Quiet \/ Answers
  <2>1. ClientsOnly /\ UNCHANGED lists /\ SameHandles
    BY <1>7 DEF Quiet, Answers
  <2>2. Accepted'
    BY <1>1, <1>4, <2>1 DEF ClientsOnly, OnList, NoSlotHas
  <2>3. Unused'
    BY <1>1, <1>4, <2>1 DEF ClientsOnly, NoSlotHas
  <2> QED BY <1>4, <2>1, <2>2, <2>3
<1>8. CASE Stops
  BY <1>1, <1>8 DEF Stops, OnList
<1>9. CASE Closes
  <2>1. PICK s \in Slots, back \in BOOLEAN :
          /\ OnList(s) = "inUse" /\ lists' = MoveNode(lists, s, "free", back)
          /\ StateBecomes(H(s), "none") /\ SameHandles
    BY <1>9 DEF Closes
  <2>2. \A t \in Slots : OnList(t)' # "free" => OnList(t) # "free" /\ t # s
    BY <2>1, Moved DEF ListNames
  <2> QED BY <1>1, <1>4, <2>1, <2>2 DEF StateBecomes
<1>10. CASE Replies
  BY <1>2, <1>4, <1>5, <1>10 DEF Replies, ControlOK
<1>11. CASE Resumes
  BY <1>4, <1>6, <1>11 DEF Resumes, ListNames
<1>12. CASE Accepts
  <2>1. PICK s \in Slots, h \in Handles, back \in BOOLEAN :
          /\ OnList(s) = "free" /\ lists' = MoveNode(lists, s, "inUse", back)
          /\ sess[h].st = "pending" /\ StateBecomes(h, "idle")
          /\ \A t \in Slots : H(t)' = IF t = s THEN h ELSE H(t)
    BY <1>12 DEF Accepts
  <2>2. \A t \in Slots : OnList(t)' = IF t = s THEN "inUse" ELSE OnList(t)
    BY <2>1, Moved DEF ListNames
  <2> QED BY <1>1, <2>1, <2>2 DEF StateBecomes
<1>13. CASE Receives
  <2>1. PICK s \in Slots : OnList(s) = "inUse" /\ StateBecomes(H(s), "taken")
    BY <1>13 DEF Receives
  <2> QED BY <1>1, <1>4, <1>5, <1>13, <2>1 DEF Receives
<1>14. CASE Parks
  BY <1>2, <1>4, <1>6, <1>14 DEF Parks, ControlOK, ListNames, OnList
<1>15. CASE Requeues
  BY <1>4, <1>6, <1>15 DEF Requeues, ListNames
<1> QED BY <1>7, <1>8, <1>9, <1>10, <1>11, <1>12, <1>13, <1>14, <1>15 DEF Kind

(* A request that has been taken is served, answered or parked.             *)
LEMMA TakenStep == IInv /\ [Next]_vars => TakenOK'
<1> SUFFICES ASSUME IInv, Kind, pc' # "panic" PROVE TakenOK'
  BY StepKinds DEF TakenOK
<1> DEFINE H(s) == pool[s].handle
           Off(s) == OnList(s) \in {"waitReg", "toWake", "waitPort"}
           ParkedTaken == \A s \in Slots : Off(s) => sess[H(s)].st = "taken"
           CurTaken == cur # 0 => sess[H(cur)].st = "taken"
           ReplyTaken == replyTarget # NoHandle =>
                           /\ sess[replyTarget].st = "taken"
                           /\ \E s \in Slots : OnList(s) = "inUse" /\ H(s) = replyTarget
           Kept(h) == \/ replyTarget = h
                      \/ cur # 0 /\ H(cur) = h
                      \/ \E s \in Slots : Off(s) /\ H(s) = h
           AllKept == \A h \in Handles : sess[h].st = "taken" => Kept(h)
<1>1. /\ ParkedTaken' /\ CurTaken' /\ ReplyTaken' /\ AllKept' => TakenOK'
      /\ TakenOK /\ pc # "panic" => ParkedTaken /\ CurTaken /\ ReplyTaken /\ AllKept
  BY DEF TakenOK, IsParked, OnList
<1>2. SUFFICES ASSUME pc # "panic" PROVE ParkedTaken' /\ CurTaken' /\ ReplyTaken' /\ AllKept'
  <2>1. pc = "panic" => pc' = "panic"
    BY DEF Kind, Quiet, Stops, Closes, Replies, Resumes, Accepts, Receives, Answers, Parks,
           Requeues, Working
  <2> QED BY <1>1, <1>2, <2>1
<1>3. ParkedTaken /\ CurTaken /\ ReplyTaken /\ AllKept
  BY <1>1, <1>2 DEF IInv
<1>4. /\ cur \in Slots \cup {0} /\ 0 \notin Slots
      /\ pc \in Working => cur \in Slots /\ OnList(cur) = "inUse"
      /\ pc \notin Working => cur = 0
      /\ pc = "reply" => replyTarget \in Handles
      /\ pc # "reply" => replyTarget = NoHandle
      /\ NoHandle \notin Handles
  BY <1>2, SizesAssumption, ValuesAssumption DEF IInv, TypeOK, ControlOK, Slots, OnList, Working
<1>5. /\ \A s \in Slots : OnList(s) # "free" => H(s) \in Handles
      /\ \A s, t \in Slots : H(s) = H(t) /\ H(s) # NoHandle => s = t
      /\ \A h \in Handles : sess[h].st = "pending" => \A s \in Slots : H(s) # h
  BY DEF IInv, HandlesOK, OnList
<1>6. SameHandles => \A s \in Slots : H(s)' = H(s)
  BY DEF SameHandles
<1> HIDE DEF H
<1>7. CASE Quiet
  <2>1. /\ ClientsOnly /\ UNCHANGED <<cur, replyTarget>>
        /\ \A t \in Slots : H(t)' = H(t) /\ OnList(t)' = OnList(t)
    BY <1>6, <1>7 DEF Quiet, OnList
  <2>2. \A h \in Handles : (\E t \in Slots : H(t) = h) => (sess[h].st = "taken" <=> sess'[h].st = "taken")
    BY <2>1 DEF ClientsOnly, NoSlotHas, H
  <2>3. ParkedTaken'
    BY <1>3, <1>5, <2>1, <2>2
  <2>4. CurTaken'
    <3>1. CASE cur # 0
      <4>1. cur \in Slots /\ H(cur) \in Handles
        BY <1>4, <1>5, <3>1
      <4> QED BY <1>3, <2>1, <2>2, <3>1, <4>1
    <3> QED BY <2>1, <3>1
  <2>5. ReplyTaken'
    BY <1>3, <1>4, <2>1, <2>2
  <2>6. AllKept'
    <3> SUFFICES ASSUME NEW h \in Handles, sess'[h].st = "taken" PROVE Kept(h)'
      OBVIOUS
    <3>1. sess[h].st = "taken"
      BY <2>1 DEF ClientsOnly
    <3>2. Kept(h)
      BY <1>3, <3>1
    <3>3. cur # 0 => H(cur)' = H(cur)
      BY <1>4, <2>1
    <3> QED BY <2>1, <3>2, <3>3
  <2> QED BY <2>3, <2>4, <2>5, <2>6
<1>8. CASE Closes
  <2>1. PICK s \in Slots, back \in BOOLEAN :
          /\ OnList(s) = "inUse" /\ lists' = MoveNode(lists, s, "free", back)
          /\ pc \in {"wait", "reply"} /\ StateBecomes(H(s), "none")
          /\ pc = "reply" => replyTarget = H(s)
          /\ replyTarget' = NoHandle /\ cur' = cur /\ SameHandles
    BY <1>8 DEF Closes, H
  <2>2. \A t \in Slots : OnList(t)' = IF t = s THEN "free" ELSE OnList(t)
    BY <2>1, Moved DEF ListNames
  <2>3. cur = 0 /\ \A t \in Slots : H(t)' = H(t)
    BY <1>4, <1>6, <2>1 DEF Working
  <2>4. ParkedTaken'
    <3> SUFFICES ASSUME NEW t \in Slots, Off(t)' PROVE sess'[H(t)].st = "taken"
      BY <2>3
    <3>1. t # s /\ Off(t)
      BY <2>2
    <3>2. H(t) \in Handles /\ sess[H(t)].st = "taken" /\ H(t) # H(s)
      BY <1>3, <1>4, <1>5, <3>1
    <3> QED BY <2>1, <3>2 DEF StateBecomes
  <2>5. CurTaken' /\ ReplyTaken'
    BY <2>1, <2>3
  <2>6. AllKept'
    BY <1>3, <1>4, <2>1, <2>2, <2>3 DEF StateBecomes
  <2> QED BY <2>4, <2>5, <2>6
<1>9. CASE Replies
  <2>1. PICK s \in Slots : OnList(s) = "inUse" /\ H(s) = replyTarget
    BY <1>3, <1>4, <1>9 DEF Replies
  <2>2. cur = 0 /\ \A t \in Slots : H(t)' = H(t) /\ OnList(t)' = OnList(t)
    BY <1>4, <1>6, <1>9 DEF Replies, Working, OnList
  <2>3. ParkedTaken'
    BY <1>3, <1>4, <1>5, <1>9, <2>1, <2>2 DEF Replies, StateBecomes
  <2> QED BY <1>3, <1>4, <1>9, <2>2, <2>3 DEF Replies, StateBecomes
<1>10. CASE Resumes
  <2>1. PICK s \in Slots, back \in BOOLEAN :
          /\ OnList(s) \in {"toWake", "waitPort"} /\ lists' = MoveNode(lists, s, "inUse", back)
          /\ pc = "wait" /\ cur' = s /\ UNCHANGED <<sess, replyTarget>> /\ SameHandles
    BY <1>10 DEF Resumes
  <2>2. \A t \in Slots : OnList(t)' = IF t = s THEN "inUse" ELSE OnList(t)
    BY <2>1, Moved DEF ListNames
  <2>3. cur = 0 /\ replyTarget = NoHandle /\ \A t \in Slots : H(t)' = H(t)
    BY <1>4, <1>6, <2>1 DEF Working
  <2>4. ParkedTaken' /\ ReplyTaken' /\ CurTaken'
    BY <1>3, <2>1, <2>2, <2>3
  <2>5. AllKept'
    BY <1>3, <1>4, <2>1, <2>2, <2>3
  <2> QED BY <2>4, <2>5
<1>11. CASE Accepts
  <2>1. PICK s \in Slots, h \in Handles, back \in BOOLEAN :
          /\ OnList(s) = "free" /\ lists' = MoveNode(lists, s, "inUse", back)
          /\ pc = "wait" /\ sess[h].st = "pending" /\ StateBecomes(h, "idle")
          /\ \A t \in Slots : H(t)' = IF t = s THEN h ELSE H(t)
          /\ UNCHANGED <<cur, replyTarget>>
    BY <1>11 DEF Accepts, H
  <2>2. \A t \in Slots : OnList(t)' = IF t = s THEN "inUse" ELSE OnList(t)
    BY <2>1, Moved DEF ListNames
  <2>3. cur = 0 /\ replyTarget = NoHandle
    BY <1>4, <2>1 DEF Working
  <2>4. ParkedTaken' /\ ReplyTaken' /\ CurTaken'
    BY <1>3, <1>5, <2>1, <2>2, <2>3 DEF StateBecomes
  <2>5. AllKept'
    BY <1>3, <1>5, <2>1, <2>2, <2>3 DEF StateBecomes
  <2> QED BY <2>4, <2>5
<1>12. CASE Receives
  <2>1. PICK s \in Slots :
          /\ pc = "wait" /\ OnList(s) = "inUse" /\ StateBecomes(H(s), "taken") /\ cur' = s
          /\ UNCHANGED <<lists, replyTarget>> /\ SameHandles
    BY <1>12 DEF Receives, H
  <2>2. cur = 0 /\ replyTarget = NoHandle /\ \A t \in Slots : H(t)' = H(t) /\ OnList(t)' = OnList(t)
    BY <1>4, <1>6, <2>1 DEF Working, OnList
  <2>3. s # 0 /\ H(s) \in Handles
    BY <1>4, <1>5, <2>1
  <2>4. ParkedTaken' /\ ReplyTaken' /\ CurTaken'
    BY <1>3, <1>5, <2>1, <2>2, <2>3 DEF StateBecomes
  <2>5. AllKept'
    BY <1>3, <1>4, <2>1, <2>2, <2>3 DEF StateBecomes
  <2> QED BY <2>4, <2>5
<1>13. CASE Answers
  <2>1. /\ pc \in Working /\ cur \in Slots /\ cur # 0 /\ OnList(cur) = "inUse"
        /\ replyTarget = NoHandle /\ replyTarget' = H(cur) /\ cur' = 0 /\ ClientsOnly
        /\ \A t \in Slots : H(t)' = H(t) /\ OnList(t)' = OnList(t)
    BY <1>4, <1>6, <1>13 DEF Answers, OnList, Working, H
  <2>2. H(cur) \in Handles /\ sess[H(cur)].st = "taken"
    BY <1>3, <1>5, <2>1
  <2>3. \A h \in Handles : (\E t \in Slots : H(t) = h) => (sess[h].st = "taken" <=> sess'[h].st = "taken")
    BY <2>1 DEF ClientsOnly, NoSlotHas, H
  <2>4. ParkedTaken' /\ CurTaken'
    BY <1>3, <1>5, <2>1, <2>3
  <2>5. ReplyTaken'
    BY <2>1, <2>2, <2>3
  <2>6. AllKept'
    BY <1>3, <1>4, <2>1 DEF ClientsOnly
  <2> QED BY <2>4, <2>5, <2>6
<1>14. CASE Parks
  <2>1. PICK l \in {"waitReg", "waitPort"} :
          /\ pc = "serve" /\ lists' = MoveNode(lists, cur, l, TRUE)
          /\ replyTarget' = NoHandle /\ cur' = 0 /\ UNCHANGED sess /\ SameHandles
    BY <1>14 DEF Parks
  <2>2. cur \in Slots /\ cur # 0 /\ replyTarget = NoHandle /\ \A t \in Slots : H(t)' = H(t)
    BY <1>4, <1>6, <2>1 DEF Working
  <2>3. \A t \in Slots : OnList(t)' = IF t = cur THEN l ELSE OnList(t)
    BY <2>1, <2>2, Moved DEF ListNames
  <2>4. ParkedTaken' /\ CurTaken' /\ ReplyTaken'
    BY <1>3, <2>1, <2>2, <2>3
  <2>5. AllKept'
    BY <1>3, <1>4, <2>1, <2>2, <2>3
  <2> QED BY <2>4, <2>5
<1>15. CASE Requeues
  <2>1. PICK s \in Slots, l \in {"toWake", "waitReg"} :
          /\ lists' = MoveNode(lists, s, l, TRUE) /\ OnList(s) \in {"waitReg", "waitPort"}
          /\ UNCHANGED <<sess, pc, cur, replyTarget>> /\ SameHandles
    BY <1>15 DEF Requeues
  <2>2. \A t \in Slots : OnList(t)' = IF t = s THEN l ELSE OnList(t)
    BY <2>1, Moved DEF ListNames
  <2>3. \A t \in Slots : H(t)' = H(t)
    BY <1>6, <2>1
  <2>4. ParkedTaken' /\ ReplyTaken'
    BY <1>3, <2>1, <2>2, <2>3
  <2>5. CurTaken' /\ AllKept'
    BY <1>3, <1>4, <2>1, <2>2, <2>3
  <2> QED BY <2>4, <2>5
<1> QED BY <1>2, <1>7, <1>8, <1>9, <1>10, <1>11, <1>12, <1>13, <1>14, <1>15 DEF Kind, Stops

---------------------------------------------------------------------------
(* The initial state                                                        *)

LEMMA InitInvariant == Init => IInv
<1> SUFFICES ASSUME Init PROVE IInv
  OBVIOUS
<1>1. /\ lists.nodes = [l \in ListNames |-> IF l = "free" THEN [s \in Slots |-> s] ELSE <<>>]
      /\ lists.parent = [s \in Slots |-> "free"]
      /\ lists = [nodes |-> lists.nodes, parent |-> lists.parent]
      /\ sem = 0 /\ n = 0 /\ i = 0 /\ cur = 0 /\ pc = "wait"
      /\ replyTarget = NoHandle /\ closedPort = NoPort /\ result = "none" /\ cmdbuf = NoCommand
      /\ pool = [s \in Slots |-> BlankNode] /\ sess = [h \in Handles |-> NoSession]
      /\ procs = {}
  BY DEF Init
<1>2. [s \in Slots |-> s] \in Seq(Slots) /\ <<>> \in Seq(Slots) /\ Len(<<>>) = 0
  BY SizesAssumption DEF Slots
<1>3. TypeOK
  <2>1. lists \in [nodes : [ListNames -> Seq(Slots)], parent : [Slots -> ListNames]]
    <3>1. lists.nodes \in [ListNames -> Seq(Slots)]
      <4> DEFINE f == [s \in Slots |-> s]
      <4> HIDE DEF f
      <4>1. f \in Seq(Slots) /\ <<>> \in Seq(Slots)
        BY <1>2 DEF f
      <4>2. lists.nodes = [l \in ListNames |-> IF l = "free" THEN f ELSE <<>>]
        BY <1>1 DEF f
      <4> QED BY <4>1, <4>2
    <3>2. lists.parent \in [Slots -> ListNames]
      BY <1>1 DEF ListNames
    <3>3. lists = [nodes |-> lists.nodes, parent |-> lists.parent]
      BY <1>1
    <3> QED BY <3>1, <3>2, <3>3
  <2>2. services \in Seq(Service)
    <3>1. [name |-> SrvPmName, pid |-> SmPid, port |-> SrvPmPort, named |-> FALSE] \in Service
      BY ValuesAssumption DEF Service, AllNames, AllPids
    <3> QED BY <3>1 DEF Init
  <2>3. port \in [Ports -> Port]
    BY SizesAssumption, ConstantTypes DEF Init, Port
  <2> QED BY <1>1, <2>1, <2>2, <2>3, ConstantTypes DEF TypeOK, Results
<1>4. PoolPartitioned
  <2>1. lists.nodes["free"] = [s \in Slots |-> s] /\ \A l \in ListNames \ {"free"} : lists.nodes[l] = <<>>
    BY <1>1 DEF ListNames
  <2>2. \A l \in ListNames : \A k \in DOMAIN lists.nodes[l] : l = "free" /\ k \in Slots /\ lists.nodes[l][k] = k
    BY <2>1
  <2>3. DOMAIN lists.nodes = ListNames /\ DOMAIN lists.nodes["free"] = Slots
    BY <1>1, <2>1
  <2>4. \A l \in DOMAIN lists.nodes : \A k \in DOMAIN lists.nodes[l] :
          /\ lists.nodes[l][k] \in Slots
          /\ lists.parent[lists.nodes[l][k]] = l
          /\ \A j \in DOMAIN lists.nodes[l] : lists.nodes[l][k] = lists.nodes[l][j] => k = j
    BY <1>1, <2>2, <2>3
  <2>5. \A s \in Slots : \E k \in DOMAIN lists.nodes[lists.parent[s]] :
          lists.nodes[lists.parent[s]][k] = s
    <3> TAKE s \in Slots
    <3>1. lists.parent[s] = "free" /\ s \in DOMAIN lists.nodes["free"] /\ lists.nodes["free"][s] = s
      BY <1>1, <2>1, <2>3
    <3> QED BY <3>1
  <2> QED BY <2>4, <2>5 DEF PoolPartitioned, IsPartition
<1>5. SemaphoreCountsWakeups
  BY <1>1, <1>2 DEF SemaphoreCountsWakeups, ToWake, ListNames
<1>6. ControlOK
  BY <1>1 DEF ControlOK
<1>7. HandlesOK
  BY <1>1, ValuesAssumption DEF HandlesOK, BlankNode, NoSession
<1>8. TakenOK
  BY <1>1 DEF TakenOK, IsParked, NoSession
<1> QED BY <1>3, <1>4, <1>5, <1>6, <1>7, <1>8 DEF IInv

---------------------------------------------------------------------------
(* Theorems                                                                 *)

(* IInv is an invariant of sm.                                              *)
THEOREM Inductive == Spec => []IInv
<1>1. IInv /\ [Next]_vars => IInv'
  BY TypeStep, PartitionStep, SemStep, ControlStep, HandlesStep, TakenStep DEF IInv
<1> QED BY <1>1, InitInvariant, PTL DEF Spec

(* Every variable keeps its type, for any number of sessions and services.  *)
THEOREM TypeCorrect == Spec => []TypeOK
<1>1. IInv => TypeOK
  BY DEF IInv
<1> QED BY <1>1, Inductive, PTL

(* list.c never loses a session node nor has it on two lists.               *)
THEOREM PoolStaysPartitioned == Spec => []PoolPartitioned
<1>1. IInv => PoolPartitioned
  BY DEF IInv
<1> QED BY <1>1, Inductive, PTL

(* The resume semaphore never promises more or fewer wake-ups than there    *)
(* are sessions to wake, so main.c:187 never panics.                        *)
THEOREM SemaphoreSound == Spec => []SemaphoreCountsWakeups
<1>1. IInv => SemaphoreCountsWakeups
  BY DEF IInv
<1> QED BY <1>1, Inductive, PTL

(* Every request sm takes is being served, about to be answered, or parked, *)
(* and never two of them.                                                   *)
THEOREM RequestsAreAccountedFor == Spec => []RequestsAccountedFor
<1>1. IInv => RequestsAccountedFor
  <2> SUFFICES ASSUME IInv, pc # "panic" PROVE RequestsAccountedFor
    BY DEF RequestsAccountedFor
  <2> DEFINE Off == {"waitReg", "toWake", "waitPort"}
  <2>1. \A s \in Slots, l \in ListNames : s \in ToSet(lists.nodes[l]) <=> lists.parent[s] = l
    BY ListOf
  <2>2. \A l \in ListNames : ToSet(lists.nodes[l]) \subseteq Slots
    <3> TAKE l \in ListNames
    <3>1. lists.nodes[l] \in Seq(Slots) /\ \A k \in DOMAIN lists.nodes[l] : lists.nodes[l][k] \in Slots
      BY ListOf
    <3> QED BY <3>1 DEF ToSet
  <2>3. Parked = {s \in Slots : IsParked(s)}
    BY <2>1, <2>2 DEF Parked, WaitReg, ToWake, WaitPort, ListNames, IsParked
  <2>4. ToSet(InUse) = {s \in Slots : lists.parent[s] = "inUse"}
    BY <2>1, <2>2 DEF InUse, ListNames
  <2>5. /\ cur \in Slots \cup {0} /\ 0 \notin Slots /\ replyTarget \in Handles \cup {NoHandle}
        /\ cur # 0 => cur \in Slots /\ lists.parent[cur] = "inUse"
        /\ NoHandle \notin Handles
    BY SizesAssumption, ValuesAssumption DEF IInv, TypeOK, ControlOK, Slots
  <2>6. /\ \A s \in Slots : IsParked(s) \/ s = cur => pool[s].handle \in Handles /\ sess[pool[s].handle].st = "taken"
        /\ replyTarget # NoHandle =>
             /\ sess[replyTarget].st = "taken"
             /\ \E s \in Slots : lists.parent[s] = "inUse" /\ pool[s].handle = replyTarget
        /\ \A h \in Handles : sess[h].st = "taken" =>
             \/ replyTarget = h
             \/ cur # 0 /\ pool[cur].handle = h
             \/ \E s \in Slots : IsParked(s) /\ pool[s].handle = h
    BY <2>5 DEF IInv, TakenOK, HandlesOK, IsParked
  <2>7. Taken = {pool[s].handle : s \in Parked \cup ({cur} \ {0})} \cup ({replyTarget} \ {NoHandle})
    BY <2>3, <2>5, <2>6 DEF Taken
  <2>8. cur # 0 => cur \in ToSet(InUse)
    BY <2>4, <2>5
  <2>9. replyTarget # NoHandle =>
          /\ replyTarget \notin {pool[s].handle : s \in Parked}
          /\ \E s \in ToSet(InUse) : pool[s].handle = replyTarget
    <3>1. \A s, t \in Slots : pool[s].handle = pool[t].handle /\ pool[s].handle # NoHandle => s = t
      BY DEF IInv, HandlesOK
    <3>2. \A s \in Slots : IsParked(s) => lists.parent[s] # "inUse"
      BY DEF IsParked
    <3> QED BY <2>3, <2>4, <2>6, <3>1, <3>2
  <2> QED BY <2>7, <2>8, <2>9 DEF RequestsAccountedFor
<1> QED BY <1>1, Inductive, PTL

---------------------------------------------------------------------------
(* The steps that change the table                                          *)

(* servicesInfo[j] = servicesInfo[--nbServices]: the entries left are those *)
(* of the table but for the j-th, each once.                                *)
LEMMA RemoveServiceProperties ==
  ASSUME NEW S, NEW q \in Seq(S), NEW j \in DOMAIN q
  PROVE  LET r == RemoveService(q, j)
         IN  /\ r \in Seq(S) /\ Len(r) = Len(q) - 1
             /\ \A k \in 1..Len(q)-1 : r[k] = IF k = j THEN q[Len(q)] ELSE q[k]
             /\ \A k \in DOMAIN q : k # j => \E l \in DOMAIN r : r[l] = q[k]
<1> DEFINE r == RemoveService(q, j)
<1>1. Len(q) \in Nat /\ Len(q) > 0 /\ j \in 1..Len(q)
  OBVIOUS
<1>2. \A k \in 1..Len(q)-1 : (IF k = j THEN q[Len(q)] ELSE q[k]) \in S
  BY <1>1
<1>3. r = [k \in 1..Len(q)-1 |-> IF k = j THEN q[Len(q)] ELSE q[k]]
  BY DEF RemoveService
<1>4. r \in Seq(S) /\ Len(r) = Len(q) - 1
  <2>1. r \in [1..Len(q)-1 -> S] /\ Len(q) - 1 \in Nat
    BY <1>1, <1>2, <1>3
  <2> HIDE DEF r
  <2> QED BY <2>1
<1>5. \A k \in 1..Len(q)-1 : r[k] = IF k = j THEN q[Len(q)] ELSE q[k]
  BY <1>3
<1>6. ASSUME NEW k \in DOMAIN q, k # j PROVE \E l \in DOMAIN r : r[l] = q[k]
  <2> HIDE DEF r
  <2>1. DOMAIN r = 1..Len(q)-1
    BY <1>4
  <2>2. CASE k = Len(q)
    BY <1>1, <1>5, <1>6, <2>1, <2>2
  <2>3. CASE k # Len(q)
    BY <1>1, <1>5, <1>6, <2>1, <2>3
  <2> QED BY <2>2, <2>3
<1> QED BY <1>4, <1>5, <1>6

(* A registration takes a port nobody holds for a name nobody has.          *)
Adds == \E named \in BOOLEAN, p \in FreePorts :
          /\ pc = "serve" /\ cmdbuf.op = IF named THEN "RegisterPort" ELSE "RegisterService"
          /\ ~Registered(named, cmdbuf.arg) /\ Len(services) < NServices
          /\ \E max \in Nat : AddService(p, named, max)

(* A removal closes the port of an entry of the process that asks for it.   *)
Removes == \E j \in DOMAIN services :
             /\ \/ /\ pc = "serve" /\ services[j].pid = pool[cur].pid /\ pc' = "reply"
                   /\ cmdbuf.op = IF services[j].named THEN "UnregisterPort" ELSE "UnregisterService"
                \/ pc = "unregister" /\ services[j].pid = cmdbuf.arg /\ pc' = pc /\ i' = i
             /\ pc = "unregister" => cmdbuf' = cmdbuf
             /\ port' = [port EXCEPT ![services[j].port] = ClosedPort]
             /\ services' = RemoveService(services, j)
             /\ UNCHANGED <<sess, lists, pool, sem>>

SameTable == /\ UNCHANGED services
             /\ \A p \in Ports : port'[p].open = port[p].open
             /\ port[SrvPmPort].load = 0 => port'[SrvPmPort] = port[SrvPmPort]

LEMMA TableStep == IInv /\ [Next]_vars => SameTable \/ Adds \/ Removes
<1> SUFFICES ASSUME IInv, [Next]_vars PROVE SameTable \/ Adds \/ Removes
  OBVIOUS
<1>1. /\ port \in [Ports -> Port] /\ services \in Seq(Service) /\ pool \in [Slots -> Node]
      /\ cmdbuf \in Command /\ i \in Nat
  BY DEF IInv, TypeOK
<1>2. \A j \in DOMAIN services : services[j].port \in Ports
  <2>1. \A j \in DOMAIN services : services[j] \in Service
    BY <1>1, ElementOf
  <2> QED BY <2>1 DEF Service
<1> USE DEF SameTable, kernel, static
<1>3. CASE Environment
  <2>1. ASSUME NEW p \in Ports, ServerDies(p) PROVE SameTable
    <3>1. \A q \in Ports : port'[q].open = port[q].open
      BY <1>1, <2>1 DEF ServerDies, Port
    <3>2. port'[SrvPmPort] = port[SrvPmPort] /\ UNCHANGED services
      BY <1>1, <2>1, ValuesAssumption DEF ServerDies
    <3> QED BY <3>1, <3>2
  <2>2. ASSUME NEW p \in Ports, ServiceSessionEnds(p) PROVE SameTable
    BY <1>1, <2>2 DEF ServiceSessionEnds, Port
  <2> QED BY <1>3, <2>1, <2>2 DEF Environment, Connect, SendRequest, CloseClient
<1>4. CASE Loop
  BY <1>4 DEF Loop, Reply, ReplyUnreachable, CloseSession, Panic, InvalidHandle, ResumeRegistered,
              AcceptSrv, AcceptPm, AcceptSession, SessionClosed, ReceiveRequest, ResumePortReady,
              PortClosed, PortClosedNext, PortClosedDone
<1>5. CASE RegisterClient \/ WakeNext \/ WakeDone \/ GetPort \/ PublishAndGetSubscriber
           \/ RegisterProcess \/ UnregisterProcess \/ UnregisterDone
  BY <1>5 DEF RegisterClient, WakeNext, WakeDone, Panic, GetPort, Park, Answer, PublishAndGetSubscriber,
              RegisterProcess, UnregisterProcess, UnregisterDone
<1>6. CASE GetServiceHandle
  <2>1. ASSUME NEW p \in Ports, CreateSessionToPort(p)
        PROVE  /\ \A q \in Ports : port'[q].open = port[q].open
               /\ port'[SrvPmPort] = port[SrvPmPort]
    <3>1. CASE p = SrvPmPort
      BY <2>1, <3>1 DEF CreateSessionToPort
    <3>2. CASE p # SrvPmPort
      <4>1. port' = [port EXCEPT ![p].load = @ + 1]
        BY <2>1, <3>2 DEF CreateSessionToPort
      <4> QED BY <1>1, <3>2, <4>1 DEF Port
    <3> QED BY <3>1, <3>2
  <2>2. Registered(FALSE, cmdbuf.arg) => services[Find(FALSE, cmdbuf.arg)].port \in Ports
    BY <1>1, <1>2, FindProperties
  <2> QED BY <1>6, <2>1, <2>2 DEF GetServiceHandle, Park
<1>7. CASE RegisterService \/ RegisterPort
  <2>1. cmdbuf.w4 \in Nat
    <3>1. cmdbuf.w4 \in Word4 \/ cmdbuf.w4 = 0
      BY <1>1 DEF Command
    <3>2. \A w \in Word4 : w \in Nat
      BY SizesAssumption
    <3>3. 0 \in Nat
      OBVIOUS
    <3> QED BY <3>1, <3>2, <3>3, Zenon
  <2>2. ASSUME NEW named \in BOOLEAN, RegisterServiceOrPort(named), pc = "serve",
               cmdbuf.op = IF named THEN "RegisterPort" ELSE "RegisterService"
        PROVE  SameTable \/ Adds
    <3>1. CASE ~Registered(named, cmdbuf.arg) /\ Len(services) < NServices
               /\ \E p \in FreePorts : AddService(p, named, IF named THEN 0 ELSE cmdbuf.w4)
      <4>1. (IF named THEN 0 ELSE cmdbuf.w4) \in Nat
        BY <2>1
      <4> QED BY <2>2, <3>1, <4>1 DEF Adds
    <3>2. Len(services) \in Nat /\ NServices \in Nat
      BY <1>1, SizesAssumption
    <3>3. CASE Registered(named, cmdbuf.arg) \/ Len(services) >= NServices
      BY <2>2, <3>3 DEF RegisterServiceOrPort
    <3>4. CASE ~Registered(named, cmdbuf.arg) /\ ~(Len(services) >= NServices)
      <4>1. CASE ~named /\ FreePorts = {}
        BY <2>2, <3>4, <4>1 DEF RegisterServiceOrPort
      <4>2. CASE ~(~named /\ FreePorts = {})
        BY <2>2, <3>1, <3>2, <3>4, <4>2 DEF RegisterServiceOrPort
      <4> QED BY <4>1, <4>2
    <3> QED BY <3>3, <3>4
  <2> QED BY <1>7, <2>2 DEF RegisterService, RegisterPort, Serving
<1>8. CASE UnregisterService \/ UnregisterPort
  <2>1. ASSUME NEW named \in BOOLEAN, UnregisterServiceOrPort(named), pc = "serve",
               cmdbuf.op = IF named THEN "UnregisterPort" ELSE "UnregisterService"
        PROVE  SameTable \/ Removes
    <3>1. CASE ~Registered(named, cmdbuf.arg)
      BY <2>1, <3>1 DEF UnregisterServiceOrPort
    <3>2. CASE Registered(named, cmdbuf.arg)
      <4> DEFINE j == Find(named, cmdbuf.arg)
      <4>1. j \in DOMAIN services /\ services[j].named = named
        BY <1>1, <3>2, FindProperties DEF Matches
      <4>2. CASE services[j].pid # pool[cur].pid
        BY <2>1, <3>2, <4>2 DEF UnregisterServiceOrPort
      <4>3. CASE services[j].pid = pool[cur].pid
        <5>1. Answer("ok") /\ port' = [port EXCEPT ![services[j].port] = ClosedPort]
              /\ services' = RemoveService(services, j) /\ UNCHANGED <<sess, sem, lists, pool>>
          BY <2>1, <3>2, <4>3 DEF UnregisterServiceOrPort
        <5> HIDE DEF j
        <5> QED BY <2>1, <4>1, <4>3, <5>1 DEF Answer, Removes
      <4> QED BY <4>2, <4>3
    <3> QED BY <3>1, <3>2
  <2> QED BY <1>8, <2>1 DEF UnregisterService, UnregisterPort, Serving
<1>9. CASE UnregisterNext
  <2>1. i \in DOMAIN services
    BY <1>1, <1>9 DEF UnregisterNext, IInv, ControlOK
  <2> QED BY <1>9, <2>1 DEF UnregisterNext, AfterRemoval, Removes
<1>10. CASE UNCHANGED vars
  BY <1>10 DEF vars
<1> QED BY <1>3, <1>4, <1>5, <1>6, <1>7, <1>8, <1>9, <1>10 DEF Next, Sm, Handler

---------------------------------------------------------------------------
(* The table                                                                *)

LEMMA TableSoundStep == IInv /\ ServiceTableSound /\ [Next]_vars => ServiceTableSound'
<1> SUFFICES ASSUME IInv, ServiceTableSound, [Next]_vars PROVE ServiceTableSound'
  OBVIOUS
<1>1. /\ port \in [Ports -> Port] /\ services \in Seq(Service) /\ Len(services) \in Nat
      /\ NServices \in Nat
  BY SizesAssumption DEF IInv, TypeOK
<1>2. \A j \in DOMAIN services : services[j] \in Service /\ services[j].port \in Ports
  <2>1. \A j \in DOMAIN services : services[j] \in Service
    BY <1>1, ElementOf
  <2> QED BY <2>1 DEF Service
<1>3. CASE SameTable
  BY <1>2, <1>3 DEF SameTable, ServiceTableSound
<1>4. CASE Adds
  <2>1. PICK named \in BOOLEAN, p \in FreePorts, max \in Nat :
          ~Registered(named, cmdbuf.arg) /\ Len(services) < NServices /\ AddService(p, named, max)
    BY <1>4 DEF Adds
  <2> DEFINE e == [name |-> cmdbuf.arg, pid |-> pool[cur].pid, port |-> p, named |-> named]
  <2>2. p \in Ports /\ ~port[p].open
    BY DEF FreePorts
  <2>3. services' = Append(services, e) /\ port' = [port EXCEPT ![p] = [open |-> TRUE, alive |-> TRUE,
                                                                      load |-> 0, max |-> max]]
    BY <2>1 DEF AddService
  <2>4. /\ Len(services') = Len(services) + 1 /\ DOMAIN services' = 1..Len(services)+1
        /\ services'[Len(services)+1] = e
        /\ \A j \in DOMAIN services : services'[j] = services[j]
    BY <1>1, <2>3
  <2>5. \A j \in DOMAIN services' : j \in DOMAIN services \/ j = Len(services) + 1
    BY <1>1, <2>4
  <2>6. e.port = p /\ e.named = named /\ e.name = cmdbuf.arg /\ port'[p].open
    BY <1>1, <2>2, <2>3
  <2> HIDE DEF e
  <2>7. \A j \in DOMAIN services :
          /\ services[j].port # p /\ port'[services[j].port].open
          /\ services[j].named # named \/ services[j].name # cmdbuf.arg
    BY <1>1, <1>2, <2>1, <2>2, <2>3 DEF ServiceTableSound, Registered, Matches
  <2>8. ASSUME NEW j \in DOMAIN services', NEW k \in DOMAIN services'
        PROVE  /\ port'[services'[j].port].open
               /\ j # k => /\ services'[j].port # services'[k].port
                           /\ services'[j].named # services'[k].named \/ services'[j].name # services'[k].name
    <3>1. CASE j \in DOMAIN services /\ k \in DOMAIN services
      BY <2>4, <2>7, <3>1 DEF ServiceTableSound
    <3>2. CASE j = Len(services) + 1 \/ k = Len(services) + 1
      BY <2>4, <2>5, <2>6, <2>7, <3>2
    <3> QED BY <2>5, <3>1, <3>2
  <2>9. Len(services') <= NServices
    BY <1>1, <2>1, <2>4
  <2> QED BY <2>8, <2>9 DEF ServiceTableSound
<1>5. CASE Removes
  <2>1. PICK j \in DOMAIN services : /\ port' = [port EXCEPT ![services[j].port] = ClosedPort]
                                     /\ services' = RemoveService(services, j)
    BY <1>5 DEF Removes
  <2> DEFINE src(k) == IF k = j THEN Len(services) ELSE k
  <2>2. /\ Len(services') = Len(services) - 1
        /\ \A k \in 1..Len(services)-1 : services'[k] = IF k = j THEN services[Len(services)] ELSE services[k]
        /\ services' \in Seq(Service)
    BY <1>1, <2>1, RemoveServiceProperties
  <2>3. DOMAIN services' = 1..Len(services)-1 /\ DOMAIN services = 1..Len(services)
    BY <1>1, <2>2
  <2>4. \A k \in DOMAIN services' : src(k) \in DOMAIN services /\ src(k) # j /\ services'[k] = services[src(k)]
    BY <1>1, <2>2, <2>3
  <2>5. \A k, l \in DOMAIN services' : k # l => src(k) # src(l)
    BY <1>1, <2>3
  <2> HIDE DEF src
  <2>6. \A k \in DOMAIN services : k # j => port'[services[k].port].open
    BY <1>1, <1>2, <2>1 DEF ServiceTableSound
  <2>7. Len(services') <= NServices
    BY <1>1, <2>2 DEF ServiceTableSound
  <2>8. ASSUME NEW k \in DOMAIN services', NEW l \in DOMAIN services'
        PROVE  /\ port'[services'[k].port].open
               /\ k # l => /\ services'[k].port # services'[l].port
                           /\ services'[k].named # services'[l].named \/ services'[k].name # services'[l].name
    BY <2>4, <2>5, <2>6 DEF ServiceTableSound
  <2> QED BY <2>7, <2>8 DEF ServiceTableSound
<1> QED BY <1>3, <1>4, <1>5, TableStep

(* UnregisterNext has removed the services of the process up to i.          *)
UnregisterOK ==
  pc = "unregister" =>
    /\ cmdbuf.arg \in Pids
    /\ \A k \in DOMAIN services : k < i => services[k].pid # cmdbuf.arg

(* What the loop of UnregisterProcess finds when it goes on.                *)
LEMMA UnregisterLoop ==
  IInv /\ [Next]_vars /\ pc' = "unregister" =>
    \/ pc = "serve" /\ cmdbuf.op = "UnregisterProcess" /\ i' = 1 /\ UNCHANGED <<cmdbuf, services>>
    \/ pc = "unregister" /\ UNCHANGED cmdbuf /\ (UnregisterNext \/ UNCHANGED <<services, i>>)
<1> SUFFICES ASSUME IInv, [Next]_vars, pc' = "unregister"
             PROVE  \/ pc = "serve" /\ cmdbuf.op = "UnregisterProcess" /\ i' = 1 /\ UNCHANGED <<cmdbuf, services>>
                    \/ pc = "unregister" /\ UNCHANGED cmdbuf /\ (UnregisterNext \/ UNCHANGED <<services, i>>)
  OBVIOUS
<1> USE DEF kernel, static, locals
<1>1. CASE Environment
  BY <1>1 DEF Environment, Connect, SendRequest, CloseClient, ServerDies, ServiceSessionEnds
<1>2. CASE Loop
  BY <1>2 DEF Loop, Reply, ReplyUnreachable, CloseSession, Panic, InvalidHandle, ResumeRegistered, Replay,
              AcceptSrv, AcceptPm, AcceptSession, SessionClosed, ReceiveRequest, ResumePortReady,
              PortClosed, PortClosedNext, PortClosedDone, Waiting
<1>3. CASE RegisterClient \/ WakeNext \/ WakeDone \/ GetPort \/ PublishAndGetSubscriber
           \/ RegisterProcess \/ UnregisterDone \/ GetServiceHandle
  BY <1>3 DEF RegisterClient, WakeNext, WakeDone, Panic, GetPort, Park, Answer, PublishAndGetSubscriber,
              RegisterProcess, UnregisterDone, GetServiceHandle, Serving
<1>4. CASE RegisterService \/ RegisterPort \/ UnregisterService \/ UnregisterPort
  BY <1>4 DEF RegisterService, RegisterPort, UnregisterService, UnregisterPort, RegisterServiceOrPort,
              UnregisterServiceOrPort, AddService, Answer, Serving
<1>5. CASE UnregisterProcess
  BY <1>5 DEF UnregisterProcess, Answer, Serving
<1>6. CASE UnregisterNext
  BY <1>6 DEF UnregisterNext
<1>7. CASE UNCHANGED vars
  BY <1>7 DEF vars
<1> QED BY <1>1, <1>2, <1>3, <1>4, <1>5, <1>6, <1>7 DEF Next, Sm, Handler

LEMMA UnregisterStep == IInv /\ UnregisterOK /\ [Next]_vars => UnregisterOK'
<1> SUFFICES ASSUME IInv, UnregisterOK, [Next]_vars, pc' = "unregister"
             PROVE  /\ cmdbuf'.arg \in Pids
                    /\ \A k \in DOMAIN services' : k < i' => services'[k].pid # cmdbuf'.arg
  BY DEF UnregisterOK
<1>1. cmdbuf \in Command /\ services \in Seq(Service) /\ i \in Nat
  BY DEF IInv, TypeOK
<1>2. CASE pc = "serve" /\ cmdbuf.op = "UnregisterProcess" /\ i' = 1 /\ UNCHANGED <<cmdbuf, services>>
  <2>1. cmdbuf.arg \in Pids
    BY <1>1, <1>2 DEF Command, PmOps
  <2> QED BY <1>1, <1>2, <2>1
<1>3. CASE pc = "unregister" /\ UNCHANGED <<cmdbuf, services, i>>
  BY <1>3 DEF UnregisterOK
<1>4. CASE pc = "unregister" /\ UNCHANGED cmdbuf /\ UnregisterNext
  <2>1. i \in 1..Len(services) /\ Len(services) \in Nat
    BY <1>1, <1>4 DEF UnregisterNext, IInv, ControlOK
  <2>2. CASE services[i].pid = cmdbuf.arg
    <3>1. services' = RemoveService(services, i) /\ i' = i
      BY <1>4, <2>2 DEF UnregisterNext, AfterRemoval
    <3>2. /\ services' \in Seq(Service) /\ Len(services') = Len(services) - 1
          /\ \A k \in 1..Len(services)-1 : services'[k] = IF k = i THEN services[Len(services)] ELSE services[k]
      BY <1>1, <2>1, <3>1, RemoveServiceProperties
    <3>3. DOMAIN services' = 1..Len(services)-1
      BY <3>2
    <3>4. \A k \in DOMAIN services' : k < i => services'[k] = services[k] /\ k \in DOMAIN services
      BY <1>1, <2>1, <3>2, <3>3
    <3> QED BY <1>4, <3>1, <3>4 DEF UnregisterOK
  <2>3. CASE services[i].pid # cmdbuf.arg
    <3>1. services' = services /\ i' = i + 1
      BY <1>4, <2>3 DEF UnregisterNext
    <3> QED BY <1>1, <1>4, <2>1, <2>3, <3>1 DEF UnregisterOK
  <2> QED BY <2>2, <2>3
<1> QED BY <1>2, <1>3, <1>4, UnregisterLoop

TableInv == IInv /\ ServiceTableSound /\ UnregisterOK

LEMMA TableInit == Init => TableInv
<1> SUFFICES ASSUME Init PROVE ServiceTableSound /\ UnregisterOK
  BY InitInvariant DEF TableInv
<1>1. services = <<[name |-> SrvPmName, pid |-> SmPid, port |-> SrvPmPort, named |-> FALSE]>>
      /\ pc = "wait"
  BY DEF Init
<1>2. Len(services) = 1 /\ DOMAIN services = {1} /\ services[1].port = SrvPmPort
  BY <1>1
<1>3. port[SrvPmPort].open
  BY ValuesAssumption DEF Init
<1>4. 1 <= NServices
  BY SizesAssumption
<1> QED BY <1>1, <1>2, <1>3, <1>4 DEF ServiceTableSound, UnregisterOK

LEMMA TableInvariant == Spec => []TableInv
<1>1. TableInv /\ [Next]_vars => TableInv'
  BY TypeStep, PartitionStep, SemStep, ControlStep, HandlesStep, TakenStep, TableSoundStep, UnregisterStep
  DEF TableInv, IInv
<1> QED BY <1>1, TableInit, PTL DEF Spec

(* The service table names every service once, and sm holds one open port   *)
(* for each entry, after every registration and removal (services.c).       *)
THEOREM ServiceTableIsSound == Spec => []ServiceTableSound
<1>1. TableInv => ServiceTableSound
  BY DEF TableInv
<1> QED BY <1>1, TableInvariant, PTL

(* Whatever the order of the table, the loop of UnregisterProcess           *)
(* leaves no service of the process and takes none of another one.          *)
THEOREM UnregistrationIsExact == Spec => UnregisterRemovesExactly
<1> DEFINE Exact ==
      UnregisterNext \/ UnregisterDone =>
        /\ UnregisterDone => \A j \in DOMAIN services' : services'[j].pid # cmdbuf.arg
        /\ {services[j] : j \in {k \in DOMAIN services : services[k].pid # cmdbuf.arg}}
             \subseteq {services'[j] : j \in DOMAIN services'}
<1>1. TableInv /\ [Next]_vars => [Exact]_vars
  <2> SUFFICES ASSUME TableInv, UnregisterNext \/ UnregisterDone PROVE Exact
    OBVIOUS
  <2>1. services \in Seq(Service) /\ i \in Nat /\ Len(services) \in Nat
    BY DEF TableInv, IInv, TypeOK
  <2>2. CASE UnregisterDone
    <3>1. services' = services /\ \A k \in DOMAIN services : services[k].pid # cmdbuf.arg
      BY <2>1, <2>2 DEF UnregisterDone, TableInv, UnregisterOK
    <3> QED BY <3>1
  <2>3. CASE UnregisterNext
    <3>1. i \in DOMAIN services /\ pc = "unregister" /\ pc' = pc
      BY <2>1, <2>3 DEF UnregisterNext, TableInv, IInv, ControlOK
    <3>2. ~UnregisterDone
      BY <3>1 DEF UnregisterDone
    <3>3. ASSUME NEW k \in DOMAIN services, services[k].pid # cmdbuf.arg
          PROVE  \E l \in DOMAIN services' : services'[l] = services[k]
      <4>1. CASE services[i].pid = cmdbuf.arg
        <5>1. services' = RemoveService(services, i)
          BY <2>3, <4>1 DEF UnregisterNext
        <5> QED BY <2>1, <3>1, <3>3, <4>1, <5>1, RemoveServiceProperties
      <4>2. CASE services[i].pid # cmdbuf.arg
        BY <2>3, <3>3, <4>2 DEF UnregisterNext
      <4> QED BY <4>1, <4>2
    <3> QED BY <3>2, <3>3
  <2> QED BY <2>2, <2>3
<1> QED BY <1>1, TableInvariant, PTL DEF Spec, UnregisterRemovesExactly

---------------------------------------------------------------------------
(* The sessions that wait for a registration                                *)

(* moveNode leaves the nodes behind the one it takes in their order.        *)
LEMMA MovedOut ==
  ASSUME IInv, NEW l \in ListNames, NEW dst \in ListNames, dst # l, NEW back \in BOOLEAN,
         NEW k \in DOMAIN lists.nodes[l], lists' = MoveNode(lists, lists.nodes[l][k], dst, back)
  PROVE  \A j \in DOMAIN lists.nodes[l] :
           j > k => j - 1 \in DOMAIN lists'.nodes[l] /\ lists'.nodes[l][j-1] = lists.nodes[l][j]
<1> DEFINE q == lists.nodes[l]
           s == q[k]
<1>1. /\ q \in Seq(Slots) /\ s \in Slots /\ lists.parent[s] = l
      /\ lists.nodes \in [ListNames -> Seq(Slots)]
  BY ListOf DEF ListFamily
<1>2. Position(q, s) \in DOMAIN q /\ q[Position(q, s)] = s
  BY PositionProperties
<1>3. Position(q, s) = k
  <2>1. \A a, b \in DOMAIN q : q[a] = q[b] => a = b
    BY <1>1 DEF IInv, PoolPartitioned, IsPartition
  <2> QED BY <1>2, <2>1
<1>4. lists'.nodes[l] = RemoveAt(q, k)
  BY <1>1, <1>3 DEF MoveNode
<1>5. /\ Len(RemoveAt(q, k)) = Len(q) - 1 /\ RemoveAt(q, k) \in Seq(Slots)
      /\ \A m \in 1..Len(q)-1 : RemoveAt(q, k)[m] = IF m < k THEN q[m] ELSE q[m+1]
  <2>1. k \in 1..Len(q)
    BY <1>1
  <2> HIDE DEF q
  <2> QED BY <1>1, <2>1, RemoveAtProperties
<1>6. ASSUME NEW j \in DOMAIN q, j > k
      PROVE  j - 1 \in DOMAIN RemoveAt(q, k) /\ RemoveAt(q, k)[j-1] = q[j]
  <2>1. j - 1 \in 1..Len(q)-1 /\ ~(j - 1 < k) /\ (j - 1) + 1 = j /\ k \in 1..Len(q)
    BY <1>1, <1>6
  <2> QED BY <1>5, <2>1
<1> QED BY <1>4, <1>6

(* A session parked on one of the two waiting lists was there before, or    *)
(* waited on a port that has closed, or parks its request now.              *)
Stays(s)   == /\ OnList(s)' = OnList(s) /\ pool'[s].replay = pool[s].replay
              /\ pool'[s].busy = pool[s].busy
Requeued(s) == /\ OnList(s) = "waitPort" /\ OnList(s)' = "waitReg"
               /\ pool'[s].replay = [pool[s].replay EXCEPT !.arg = Clobbered]
ParksNow(s) ==
  /\ s = cur /\ pc = "serve" /\ pc' = "wait" /\ UNCHANGED <<services, port>>
  /\ pool'[s].replay.op = cmdbuf.op /\ pool'[s].replay.arg = cmdbuf.arg
  /\ cmdbuf.op \in {"GetServiceHandle", "GetPort"}
  /\ OnList(s)' = "waitReg" => ~Registered(cmdbuf.op = "GetPort", cmdbuf.arg)
  /\ OnList(s)' = "waitPort" =>
       \E j \in DOMAIN services : ~services[j].named /\ pool'[s].busy = services[j].port

Waiter(s) == OnList(s) \in {"waitReg", "waitPort"}

LEMMA WaiterKinds ==
  ASSUME IInv, [Next]_vars, NEW s \in Slots, Waiter(s)'
  PROVE  Stays(s) \/ Requeued(s) \/ ParksNow(s)
<1>1. /\ pool \in [Slots -> Node] /\ lists.parent \in [Slots -> ListNames] /\ i \in Nat
      /\ cmdbuf \in Command
  BY DEF IInv, TypeOK
<1> DEFINE SameNodes(t) == \A u \in Slots : u # t => pool'[u] = pool[u]
<1> USE DEF kernel, static, locals
<1>2. CASE UNCHANGED <<lists, pool>>
  BY <1>2 DEF Stays, OnList
<1>3. ASSUME NEW t \in Slots, NEW dst \in ListNames, NEW back \in BOOLEAN,
             lists' = MoveNode(lists, t, dst, back), dst \notin {"waitReg", "waitPort"}, SameNodes(t)
      PROVE  Stays(s)
  BY <1>3, Moved DEF Stays, Waiter, OnList
<1> USE DEF ListNames
<1>4. ASSUME NEW t \in Slots, pool[t].handle \in Handles, CloseSession(pool[t].handle) PROVE Stays(s)
  <2>1. NodeOf(pool[t].handle) = t
    BY <1>4, NodeOfProperties, ValuesAssumption DEF IInv
  <2>2. lists' = MoveNode(lists, t, "free", FALSE) /\ SameNodes(t)
    BY <1>1, <1>4, <2>1 DEF CloseSession
  <2> QED BY <1>3, <2>2
<1>5. CASE ReplyUnreachable
  <2>1. replyTarget \in Handles /\ NodeOf(replyTarget) \in Slots /\ pool[NodeOf(replyTarget)].handle = replyTarget
    BY <1>5, ReplyNode DEF ReplyUnreachable, IInv, ControlOK
  <2> QED BY <1>2, <1>4, <1>5, <2>1 DEF ReplyUnreachable, Panic
<1>6. CASE SessionClosed
  BY <1>4, <1>6, SignalledNode DEF SessionClosed
<1>7. CASE ResumeRegistered
  <2>1. CASE ToWake = <<>>
    BY <1>2, <1>7, <2>1 DEF ResumeRegistered, Panic
  <2>2. CASE ToWake # <<>>
    <3>1. Head(ToWake) \in Slots
      BY <2>2, HeadNode DEF ToWake
    <3>2. lists' = MoveNode(lists, Head(ToWake), "inUse", FALSE) /\ SameNodes(Head(ToWake))
      BY <1>1, <1>7, <2>2, <3>1 DEF ResumeRegistered, Replay
    <3> QED BY <1>3, <3>1, <3>2
  <2> QED BY <2>1, <2>2
<1>8. ASSUME NEW kind, AcceptSession(kind) PROVE Stays(s)
  <2>1. CASE Free = <<>>
    BY <1>2, <1>8, <2>1 DEF AcceptSession, Panic, Stays, OnList
  <2>2. CASE Free # <<>>
    <3>1. Head(Free) \in Slots
      BY <2>2, HeadNode DEF Free
    <3>2. lists' = MoveNode(lists, Head(Free), "inUse", FALSE) /\ SameNodes(Head(Free))
      BY <1>1, <1>8, <2>2, <3>1 DEF AcceptSession
    <3> QED BY <1>3, <3>1, <3>2
  <2> QED BY <2>1, <2>2
<1>9. CASE ResumePortReady
  <2> DEFINE t == FirstOf(WaitPort, PortSignalled)
  <2>1. t \in Slots
    BY <1>9, PortSignalledNode DEF ResumePortReady
  <2>2. lists' = MoveNode(lists, t, "inUse", FALSE) /\ Replay(t, NoPort)
    BY <1>9 DEF ResumePortReady
  <2> HIDE DEF t
  <2>3. SameNodes(t)
    BY <1>1, <2>1, <2>2 DEF Replay
  <2> QED BY <1>3, <2>1, <2>2, <2>3
<1>10. CASE PortClosedNext
  <2> DEFINE t == WaitPort[i]
  <2>1. t \in Slots /\ OnList(t) = "waitPort"
    <3>1. WaitPort \in Seq(Slots) /\ i \in DOMAIN WaitPort
      BY <1>10, ListOf DEF PortClosedNext, WaitPort, IInv, TypeOK, ControlOK
    <3> QED BY <3>1, ListOf DEF WaitPort, OnList
  <2>2. CASE pool[t].busy = closedPort
    <3>1. /\ pool' = [pool EXCEPT ![t].replay.arg = Clobbered, ![t].busy = NoPort]
          /\ lists' = MoveNode(lists, t, "waitReg", TRUE)
      BY <1>10, <2>2 DEF PortClosedNext
    <3> HIDE DEF t
    <3>2. \A u \in Slots : OnList(u)' = IF u = t THEN "waitReg" ELSE OnList(u)
      BY <2>1, <3>1, Moved
    <3>3. CASE s = t
      <4>1. pool'[s].replay = [pool[s].replay EXCEPT !.arg = Clobbered]
        BY <1>1, <2>1, <3>1, <3>3 DEF Node
      <4> QED BY <2>1, <3>2, <3>3, <4>1 DEF Requeued
    <3>4. CASE s # t
      BY <1>1, <2>1, <3>1, <3>2, <3>4 DEF Stays
    <3> QED BY <3>3, <3>4
  <2>3. CASE pool[t].busy # closedPort
    BY <1>2, <1>10, <2>3 DEF PortClosedNext
  <2> QED BY <2>2, <2>3
<1>11. CASE WakeNext
  <2> DEFINE t == WaitReg[i]
  <2>1. t \in Slots
    <3>1. WaitReg \in Seq(Slots) /\ i \in DOMAIN WaitReg
      BY <1>11, ListOf DEF WakeNext, WaitReg, IInv, TypeOK, ControlOK
    <3> QED BY <3>1
  <2>2. CASE Wakes(t)
    <3>1. lists' = MoveNode(lists, t, "toWake", TRUE) /\ UNCHANGED pool
      BY <1>11, <2>2 DEF WakeNext
    <3> QED BY <1>3, <2>1, <3>1
  <2>3. CASE ~Wakes(t)
    BY <1>2, <1>11, <2>3 DEF WakeNext
  <2> QED BY <2>2, <2>3
<1>12. ASSUME NEW l \in {"waitReg", "waitPort"}, NEW busy, pc = "serve", Park(l, busy), UNCHANGED <<services, port>>,
              cmdbuf.op \in {"GetServiceHandle", "GetPort"},
              l = "waitReg" => ~Registered(cmdbuf.op = "GetPort", cmdbuf.arg),
              l = "waitPort" => \E j \in DOMAIN services : ~services[j].named /\ busy = services[j].port
       PROVE  Stays(s) \/ ParksNow(s)
  <2>1. cur \in Slots
    BY <1>12 DEF IInv, ControlOK
  <2>2. \A u \in Slots : OnList(u)' = IF u = cur THEN l ELSE OnList(u)
    BY <1>12, <2>1, Moved DEF Park
  <2>3. /\ pool' = [pool EXCEPT ![cur].replay = [cmdbuf EXCEPT !.w4 = 0], ![cur].busy = busy]
        /\ pc' = "wait"
    BY <1>12 DEF Park
  <2>4. CASE s = cur
    <3>1. pool'[s].replay = [cmdbuf EXCEPT !.w4 = 0] /\ pool'[s].busy = busy
      BY <1>1, <2>1, <2>3, <2>4 DEF Node
    <3>2. pool'[s].replay.op = cmdbuf.op /\ pool'[s].replay.arg = cmdbuf.arg
      BY <1>1, <3>1 DEF Command
    <3> QED BY <1>12, <2>2, <2>3, <2>4, <3>1, <3>2 DEF ParksNow
  <2>5. CASE s # cur
    BY <1>1, <2>1, <2>2, <2>3, <2>5 DEF Stays
  <2> QED BY <2>4, <2>5
<1>13. CASE GetServiceHandle
  <2>1. cmdbuf.op = "GetServiceHandle" /\ pc = "serve"
    BY <1>13 DEF GetServiceHandle, Serving
  <2>2. CASE UNCHANGED <<lists, pool>>
    BY <1>2, <2>2
  <2>3. CASE ~Registered(FALSE, cmdbuf.arg)
    BY <1>12, <1>13, <2>1, <2>3 DEF GetServiceHandle
  <2>4. CASE ~UNCHANGED <<lists, pool>> /\ Registered(FALSE, cmdbuf.arg)
    <3> DEFINE j == Find(FALSE, cmdbuf.arg)
    <3>1. j \in DOMAIN services /\ ~services[j].named
      BY <2>4, FindProperties DEF IInv, TypeOK, Matches
    <3>2. Park("waitPort", services[j].port) /\ UNCHANGED <<services, port>>
      BY <1>13, <2>4 DEF GetServiceHandle
    <3> HIDE DEF j
    <3> QED BY <1>12, <2>1, <3>1, <3>2
  <2> QED BY <2>2, <2>3, <2>4
<1>14. CASE GetPort
  BY <1>2, <1>12, <1>14 DEF GetPort, Serving
<1>15. CASE RegisterClient
  <2>1. \A u \in Slots : pool'[u].replay = pool[u].replay /\ pool'[u].busy = pool[u].busy
    BY <1>1, <1>15 DEF RegisterClient, Node
  <2> QED BY <1>15, <2>1 DEF RegisterClient, Stays, OnList
<1>16. CASE Environment
  BY <1>2, <1>16 DEF Environment, Connect, SendRequest, CloseClient, ServerDies, ServiceSessionEnds
<1>17. CASE Reply \/ InvalidHandle \/ ReceiveRequest \/ PortClosed \/ PortClosedDone
  BY <1>2, <1>17 DEF Reply, InvalidHandle, ReceiveRequest, PortClosed, PortClosedDone, Panic
<1>18. CASE RegisterProcess \/ UnregisterProcess \/ UnregisterNext \/ UnregisterDone
            \/ PublishAndGetSubscriber \/ WakeDone
  BY <1>2, <1>18 DEF RegisterProcess, UnregisterProcess, UnregisterNext, UnregisterDone,
                     PublishAndGetSubscriber, WakeDone, Panic
<1>19. CASE RegisterService \/ RegisterPort
  BY <1>2, <1>19 DEF RegisterService, RegisterPort, RegisterServiceOrPort, AddService
<1>20. CASE UnregisterService \/ UnregisterPort
  BY <1>2, <1>20 DEF UnregisterService, UnregisterPort, UnregisterServiceOrPort
<1>21. CASE UNCHANGED vars
  BY <1>2, <1>21 DEF vars
<1> QED BY <1>5, <1>6, <1>7, <1>8, <1>9, <1>10, <1>11, <1>13, <1>14, <1>15, <1>16, <1>17, <1>18,
           <1>19, <1>20, <1>21 DEF Next, Sm, Loop, Handler, AcceptSrv, AcceptPm

(* A session the wake-up loop of a registration has still to look at.       *)
WillWake(s) == /\ pc = "wake" /\ Wakes(s) /\ pool[s].replay.arg = cmdbuf.arg
               /\ \E k \in DOMAIN WaitReg : k >= i /\ WaitReg[k] = s

(* A session that waits for a registration waits for a name that is not     *)
(* registered, but for those that the loop of the latest registration will  *)
(* come to; and it asked for a service or for a port.                       *)
WaitersOK ==
  \A s \in Slots :
    /\ Waiter(s) => pool[s].replay.op \in {"GetServiceHandle", "GetPort"}
    /\ OnList(s) = "waitReg" =>
         \/ pool[s].replay.arg = Clobbered
         \/ ~Registered(pool[s].replay.op = "GetPort", pool[s].replay.arg)
         \/ WillWake(s)

(* How the wake-up loop goes on, and how it is entered.                     *)
LEMMA WakeLoop ==
  IInv /\ [Next]_vars =>
    /\ pc = "wake" => WakeNext \/ WakeDone \/ UNCHANGED <<lists, pool, services, pc, cmdbuf, i>>
    /\ Adds => pc' = "wake" /\ i' = 1 /\ UNCHANGED <<lists, pool, cmdbuf>>
<1> SUFFICES ASSUME IInv, [Next]_vars, pc = "wake"
             PROVE  WakeNext \/ WakeDone \/ UNCHANGED <<lists, pool, services, pc, cmdbuf, i>>
  BY DEF Adds, AddService
<1> USE DEF kernel, static, locals
<1>1. CASE Environment
  BY <1>1 DEF Environment, Connect, SendRequest, CloseClient, ServerDies, ServiceSessionEnds
<1>2. ~Loop
  BY DEF Loop, Reply, ReplyUnreachable, InvalidHandle, ResumeRegistered, AcceptSrv, AcceptPm, SessionClosed,
         ReceiveRequest, ResumePortReady, PortClosed, PortClosedNext, PortClosedDone, Waiting
<1>3. Handler => WakeNext \/ WakeDone
  BY DEF Handler, RegisterClient, RegisterService, RegisterPort, UnregisterService, UnregisterPort,
         GetServiceHandle, GetPort, PublishAndGetSubscriber, RegisterProcess, UnregisterProcess,
         UnregisterNext, UnregisterDone, Serving
<1> QED BY <1>1, <1>2, <1>3 DEF Next, Sm, vars

(* What a registration and a removal do to the registered names.            *)
RegisteredNext(named, name) ==
  \E j \in DOMAIN services' : services'[j].named = named /\ services'[j].name = name

LEMMA RegisteredStep ==
  ASSUME IInv, [Next]_vars, NEW named, NEW name, RegisteredNext(named, name)
  PROVE  \/ Registered(named, name)
         \/ Adds /\ named = (cmdbuf.op = "RegisterPort") /\ name = cmdbuf.arg
<1>1. services \in Seq(Service) /\ Len(services) \in Nat
  BY DEF IInv, TypeOK
<1>2. CASE SameTable
  BY <1>2 DEF SameTable, Registered, Matches, RegisteredNext
<1>3. CASE Adds
  <2>1. PICK new \in BOOLEAN, p \in FreePorts, max \in Nat :
          AddService(p, new, max) /\ cmdbuf.op = IF new THEN "RegisterPort" ELSE "RegisterService"
    BY <1>3 DEF Adds
  <2> DEFINE e == [name |-> cmdbuf.arg, pid |-> pool[cur].pid, port |-> p, named |-> new]
  <2>2. services' = Append(services, e)
    BY <2>1 DEF AddService
  <2>3. e.name = cmdbuf.arg /\ e.named = new /\ new = (cmdbuf.op = "RegisterPort")
    BY <2>1
  <2>4. PICK j \in DOMAIN services' : services'[j].named = named /\ services'[j].name = name
    BY DEF RegisteredNext
  <2> HIDE DEF e
  <2>5. CASE j = Len(services) + 1
    <3>1. services'[j] = e
      BY <1>1, <2>2, <2>5
    <3> QED BY <1>3, <2>3, <2>4, <3>1
  <2>6. CASE j # Len(services) + 1
    <3>1. j \in DOMAIN services /\ services'[j] = services[j]
      BY <1>1, <2>2, <2>6
    <3> QED BY <2>4, <3>1 DEF Registered, Matches
  <2> QED BY <2>5, <2>6
<1>4. CASE Removes
  <2>1. PICK j \in DOMAIN services : services' = RemoveService(services, j)
    BY <1>4 DEF Removes
  <2>2. /\ services' \in Seq(Service) /\ Len(services') = Len(services) - 1
        /\ \A k \in 1..Len(services)-1 : services'[k] = IF k = j THEN services[Len(services)] ELSE services[k]
    BY <1>1, <2>1, RemoveServiceProperties
  <2>3. DOMAIN services' = 1..Len(services)-1 /\ DOMAIN services = 1..Len(services)
    BY <1>1, <2>2
  <2>4. \A k \in DOMAIN services' : \E l \in DOMAIN services : services'[k] = services[l]
    BY <1>1, <2>2, <2>3
  <2> QED BY <2>4 DEF Registered, Matches, RegisteredNext
<1> QED BY <1>2, <1>3, <1>4, TableStep

LEMMA WaitersStep == IInv /\ WaitersOK /\ [Next]_vars => WaitersOK'
<1> SUFFICES ASSUME IInv, WaitersOK, [Next]_vars, NEW s \in Slots, Waiter(s)'
             PROVE  /\ pool'[s].replay.op \in {"GetServiceHandle", "GetPort"}
                    /\ OnList(s)' = "waitReg" =>
                         \/ pool'[s].replay.arg = Clobbered
                         \/ ~RegisteredNext(pool'[s].replay.op = "GetPort", pool'[s].replay.arg)
                         \/ WillWake(s)'
  BY DEF WaitersOK, Waiter, Registered, Matches, RegisteredNext
<1> DEFINE named == pool[s].replay.op = "GetPort"
           name == pool[s].replay.arg
<1>1. pool[s].replay \in Command /\ i \in Nat /\ lists.nodes["waitReg"] \in Seq(Slots)
  <2>1. pool[s].replay \in ParkedCommand
    BY DEF IInv, TypeOK, Node
  <2> QED BY <2>1, ListOf DEF IInv, TypeOK, ParkedCommand, ListNames
<1>2. CASE Requeued(s)
  <2>1. pool'[s].replay.op = pool[s].replay.op /\ pool'[s].replay.arg = Clobbered
    BY <1>1, <1>2 DEF Requeued, Command
  <2> QED BY <1>2, <2>1 DEF WaitersOK, Requeued, Waiter
<1>3. CASE ParksNow(s)
  <2>1. UNCHANGED services
    BY <1>3 DEF ParksNow
  <2> QED BY <1>3, <2>1 DEF ParksNow, Registered, Matches, RegisteredNext
<1>4. CASE Stays(s)
  <2>1. pool'[s].replay = pool[s].replay /\ OnList(s)' = OnList(s) /\ Waiter(s)
    BY <1>4 DEF Stays, Waiter
  <2>2. pool'[s].replay.op \in {"GetServiceHandle", "GetPort"}
    BY <2>1 DEF WaitersOK
  <2> SUFFICES ASSUME OnList(s)' = "waitReg", name # Clobbered, RegisteredNext(named, name)
               PROVE  WillWake(s)'
    BY <2>1, <2>2
  <2>3. ~Registered(named, name) \/ WillWake(s)
    BY <2>1 DEF WaitersOK
  <2>4. PICK k \in DOMAIN WaitReg : WaitReg[k] = s
    BY <2>1, ListOf DEF WaitReg, OnList, ToSet, ListNames
  <2>5. CASE ~Registered(named, name)
    <3>1. Adds /\ named = (cmdbuf.op = "RegisterPort") /\ name = cmdbuf.arg
      BY <2>5, RegisteredStep
    <3>2. pc' = "wake" /\ i' = 1 /\ UNCHANGED <<lists, pool, cmdbuf>>
      BY <3>1, WakeLoop
    <3>3. Wakes(s)
      BY <2>1, <2>2, <3>1 DEF Wakes, WakesOn, Adds
    <3>4. k >= 1
      BY <1>1, <2>4 DEF WaitReg
    <3> QED BY <2>4, <3>1, <3>2, <3>3, <3>4 DEF WillWake, Wakes, WaitReg
  <2>6. CASE WillWake(s)
    <3>1. PICK m \in DOMAIN WaitReg : m >= i /\ WaitReg[m] = s
      BY <2>6 DEF WillWake
    <3>2. pc = "wake" /\ Wakes(s) /\ name = cmdbuf.arg
      BY <2>6 DEF WillWake
    <3>3. CASE UNCHANGED <<lists, pool, services, pc, cmdbuf, i>>
      BY <2>6, <3>3 DEF WillWake, Wakes, WaitReg
    <3>4. ~WakeDone
      BY <1>1, <3>1 DEF WakeDone, WaitReg
    <3>5. CASE WakeNext
      <4>1. i \in DOMAIN WaitReg /\ UNCHANGED <<pool, pc, cmdbuf>>
        BY <1>1, <3>5 DEF WakeNext, WaitReg, IInv, ControlOK
      <4>2. CASE Wakes(WaitReg[i])
        <5>1. lists' = MoveNode(lists, WaitReg[i], "toWake", TRUE) /\ i' = i
          BY <3>5, <4>2 DEF WakeNext, AfterMove
        <5>2. WaitReg[i] # s
          <6>1. ~(s \in Slots /\ lists' = MoveNode(lists, s, "toWake", TRUE))
            BY Moved DEF ListNames
          <6> QED BY <5>1, <6>1
        <5>3. m > i
          BY <1>1, <3>1, <5>2 DEF WaitReg
        <5>4. m - 1 \in DOMAIN lists'.nodes["waitReg"] /\ lists'.nodes["waitReg"][m-1] = WaitReg[m]
          <6>1. /\ "waitReg" \in ListNames /\ "toWake" \in ListNames /\ "toWake" # "waitReg"
                /\ TRUE \in BOOLEAN
            BY DEF ListNames
          <6>2. /\ i \in DOMAIN lists.nodes["waitReg"] /\ m \in DOMAIN lists.nodes["waitReg"]
                /\ lists' = MoveNode(lists, lists.nodes["waitReg"][i], "toWake", TRUE)
            BY <3>1, <4>1, <5>1 DEF WaitReg
          <6> QED BY <1>1, <5>3, <6>1, <6>2, MovedOut, ZenonT(30) DEF WaitReg
        <5>5. m - 1 >= i
          BY <1>1, <3>1, <5>3 DEF WaitReg
        <5> QED BY <3>1, <3>2, <4>1, <5>1, <5>4, <5>5 DEF WillWake, Wakes, WaitReg
      <4>3. CASE ~Wakes(WaitReg[i])
        <5>1. UNCHANGED lists /\ i' = i + 1
          BY <3>5, <4>3 DEF WakeNext
        <5>2. m # i
          BY <3>1, <3>2, <4>3
        <5>3. m >= i + 1
          BY <1>1, <3>1, <5>2 DEF WaitReg
        <5> QED BY <3>1, <3>2, <4>1, <5>1, <5>3 DEF WillWake, Wakes, WaitReg
      <4> QED BY <4>2, <4>3
    <3> QED BY <3>2, <3>3, <3>4, <3>5, WakeLoop
  <2> QED BY <2>3, <2>5, <2>6
<1> QED BY <1>2, <1>3, <1>4, WaiterKinds

LEMMA WaitersInit == Init => WaitersOK
BY DEF Init, WaitersOK, Waiter, OnList

(* A session that waits for a registration never waits for a name that is   *)
(* registered: the loop at services.c:83 reaches every one, though it takes *)
(* nodes from the list it runs over.                                        *)
THEOREM NoWakeupIsLost == Spec => []NoLostWakeup
<1>1. IInv /\ WaitersOK /\ [Next]_vars => (IInv /\ WaitersOK)'
  BY TypeStep, PartitionStep, SemStep, ControlStep, HandlesStep, TakenStep, WaitersStep DEF IInv
<1>2. IInv /\ WaitersOK => NoLostWakeup
  <2> SUFFICES ASSUME IInv, WaitersOK, pc \in {"wait", "reply"}, NEW s \in ToSet(WaitReg)
               PROVE  \/ pool[s].replay.arg = Clobbered
                      \/ ~Registered(pool[s].replay.op = "GetPort", pool[s].replay.arg)
    BY DEF NoLostWakeup
  <2>1. s \in Slots
    BY ListOf DEF WaitReg, ToSet, ListNames
  <2>2. OnList(s) = "waitReg"
    BY <2>1, ListOf DEF WaitReg, OnList, ListNames
  <2> QED BY <2>1, <2>2 DEF WaitersOK, WillWake
<1> QED BY <1>1, <1>2, InitInvariant, WaitersInit, PTL DEF Spec

---------------------------------------------------------------------------
(* The sessions                                                             *)

(* What a step does to the kernel's sessions: one is opened, one is closed, *)
(* or they stay, with their owners, and one may have a new request.         *)
Rest(h) == /\ sess'[h].kind = sess[h].kind /\ sess'[h].owner = sess[h].owner
           /\ sess'[h].st # "none" => sess[h].st # "none"
           /\ \/ sess'[h].req \in {sess[h].req, NoCommand}
              \/ sess'[h].req \in (IF sess[h].kind = "srv" THEN SrvRequests ELSE PmRequests)
Opens(h, kind, owner) ==
  /\ sess[h].kind = "none" /\ NoSlotHas(h)
  /\ sess' = [sess EXCEPT ![h] = NewSession(kind, owner)]
  /\ \/ kind = "srv" /\ owner \in Pids /\ Cardinality(SessionsOf("srv")) < SrvMax
     \/ /\ kind = "pm" /\ pc = "serve" /\ owner = sess[pool[cur].handle].owner
        /\ port[SrvPmPort].alive /\ ~Full(SrvPmPort)
SessionKind ==
  \/ \A h \in Handles : Rest(h)
  \/ \E h \in Handles, kind \in {"srv", "pm"}, owner \in AllPids : Opens(h, kind, owner)
  \/ \E h \in Handles : sess' = [sess EXCEPT ![h] = NoSession]

LEMMA SessionStep == IInv /\ [Next]_vars => SessionKind
<1> SUFFICES ASSUME IInv, [Next]_vars PROVE SessionKind
  OBVIOUS
<1>1. /\ sess \in [Handles -> Session] /\ pool \in [Slots -> Node] /\ services \in Seq(Service)
      /\ \A h \in Handles : sess[h].owner \in AllPids
  BY DEF IInv, TypeOK, Session
<1> USE DEF kernel, static, locals
<1>2. CASE UNCHANGED sess
  BY <1>2 DEF SessionKind, Rest
<1>3. ASSUME NEW h \in Handles, NEW st \in {"idle", "taken"}, NEW req \in {sess[h].req, NoCommand},
             sess' = [sess EXCEPT ![h].st = st, ![h].req = req], sess[h].st # "none"
      PROVE  SessionKind
  <2>1. \A g \in Handles : Rest(g)
    BY <1>1, <1>3 DEF Rest, Session
  <2> QED BY <2>1 DEF SessionKind
<1>4. ASSUME NEW h \in Handles, NEW st \in {"idle", "taken"}, sess' = [sess EXCEPT ![h].st = st],
             sess[h].st # "none"
      PROVE  SessionKind
  <2>1. \A g \in Handles : Rest(g)
    BY <1>1, <1>4 DEF Rest, Session
  <2> QED BY <2>1 DEF SessionKind
<1>5. ASSUME NEW h, CloseSession(h), h \in Handles PROVE SessionKind
  BY <1>5 DEF CloseSession, SessionKind
<1>6. CASE Environment
  <2>1. ASSUME NEW h \in Handles, NEW p \in Pids, Connect(h, p) PROVE SessionKind
    <3>1. NoSlotHas(h) /\ sess[h].kind = "none" /\ p \in AllPids
      BY <2>1 DEF Connect, Fresh, NoSlotHas, AllPids
    <3> QED BY <2>1, <3>1 DEF Connect, SessionKind, Opens
  <2>2. ASSUME NEW h \in Handles, NEW c \in SrvRequests \cup PmRequests, SendRequest(h, c) PROVE SessionKind
    <3>1. sess' = [sess EXCEPT ![h].st = "sent", ![h].req = c] /\ sess[h].st = "idle"
          /\ c \in IF sess[h].kind = "srv" THEN SrvRequests ELSE PmRequests
      BY <2>2 DEF SendRequest
    <3>2. \A g \in Handles : Rest(g)
      BY <1>1, <3>1 DEF Rest, Session
    <3> QED BY <3>2 DEF SessionKind
  <2>3. ASSUME NEW h \in Handles, CloseClient(h) PROVE SessionKind
    <3>1. \A g \in Handles : Rest(g)
      BY <1>1, <2>3 DEF CloseClient, Rest, Session
    <3> QED BY <3>1 DEF SessionKind
  <2> QED BY <1>2, <1>6, <2>1, <2>2, <2>3 DEF Environment, ServerDies, ServiceSessionEnds
<1>7. CASE Reply
  <2>1. replyTarget \in Handles /\ sess[replyTarget].st = "taken"
    BY <1>7, ValuesAssumption DEF Reply, IInv, ControlOK, TakenOK
  <2>2. sess' = [sess EXCEPT ![replyTarget].st = "idle", ![replyTarget].req = NoCommand]
    BY <1>7 DEF Reply
  <2> QED BY <1>3, <2>1, <2>2
<1>8. CASE ReplyUnreachable
  BY <1>2, <1>5, <1>8 DEF ReplyUnreachable, Panic, IInv, ControlOK
<1>9. CASE SessionClosed
  BY <1>5, <1>9, SignalledNode DEF SessionClosed
<1>10. ASSUME NEW kind, AcceptSession(kind) PROVE SessionKind
  <2>1. CASE Free = <<>>
    BY <1>2, <1>10, <2>1 DEF AcceptSession, Panic
  <2>2. CASE Free # <<>>
    <3>1. PICK h \in Pending(kind) : sess' = [sess EXCEPT ![h].st = "idle"]
      BY <1>10, <2>2 DEF AcceptSession
    <3>2. h \in Handles /\ sess[h].st = "pending"
      BY DEF Pending, SessionsOf
    <3> QED BY <1>4, <3>1, <3>2
  <2> QED BY <2>1, <2>2
<1>11. CASE ReceiveRequest
  <2> DEFINE s == FirstOf(InUse, Signalled)
  <2>1. s \in Signalled /\ pool[s].handle \in Handles
    BY <1>11, SignalledNode DEF ReceiveRequest
  <2>2. sess[pool[s].handle].open /\ sess' = [sess EXCEPT ![pool[s].handle].st = "taken"]
    BY <1>11 DEF ReceiveRequest
  <2>3. sess[pool[s].handle].st = "sent"
    BY <2>1, <2>2 DEF Signalled
  <2> HIDE DEF s
  <2> QED BY <1>4, <2>1, <2>2, <2>3
<1>12. CASE GetServiceHandle
  <2>1. CASE UNCHANGED sess
    BY <1>2, <2>1
  <2>2. CASE ~UNCHANGED sess
    <3> DEFINE p == services[Find(FALSE, cmdbuf.arg)].port
    <3>1. port[p].alive /\ ~Full(p) /\ CreateSessionToPort(p) /\ pc = "serve"
      BY <1>12, <2>2 DEF GetServiceHandle, Serving
    <3> HIDE DEF p
    <3>2. p = SrvPmPort
      BY <2>2, <3>1 DEF CreateSessionToPort
    <3>3. PICK h \in Handles : /\ Fresh(h)
                              /\ sess' = [sess EXCEPT ![h] = NewSession("pm", sess[pool[cur].handle].owner)]
      BY <3>1, <3>2 DEF CreateSessionToPort
    <3>4. sess[pool[cur].handle].owner \in AllPids
      <4>1. pool[cur].handle \in Handles
        BY <3>1 DEF IInv, ControlOK, HandlesOK
      <4> QED BY <1>1, <4>1
    <3>5. Opens(h, "pm", sess[pool[cur].handle].owner)
      BY <3>1, <3>2, <3>3 DEF Opens, Fresh, NoSlotHas
    <3> QED BY <3>4, <3>5 DEF SessionKind
  <2> QED BY <2>1, <2>2
<1>13. CASE InvalidHandle \/ ResumeRegistered \/ ResumePortReady \/ PortClosed \/ PortClosedNext \/ PortClosedDone
  BY <1>2, <1>13 DEF InvalidHandle, ResumeRegistered, ResumePortReady, PortClosed, PortClosedNext,
                     PortClosedDone, Panic
<1>14. CASE RegisterClient \/ WakeNext \/ WakeDone \/ GetPort \/ PublishAndGetSubscriber
            \/ RegisterProcess \/ UnregisterProcess \/ UnregisterNext \/ UnregisterDone
  BY <1>2, <1>14 DEF RegisterClient, WakeNext, WakeDone, Panic, GetPort, PublishAndGetSubscriber,
                     RegisterProcess, UnregisterProcess, UnregisterNext, UnregisterDone
<1>15. CASE RegisterService \/ RegisterPort \/ UnregisterService \/ UnregisterPort
  BY <1>2, <1>15 DEF RegisterService, RegisterPort, RegisterServiceOrPort, AddService, UnregisterService,
                     UnregisterPort, UnregisterServiceOrPort
<1>16. CASE UNCHANGED vars
  BY <1>2, <1>16 DEF vars
<1> QED BY <1>6, <1>7, <1>8, <1>9, <1>10, <1>11, <1>12, <1>13, <1>14, <1>15, <1>16
        DEF Next, Sm, Loop, Handler, AcceptSrv, AcceptPm

(* The process each node belongs to, and the request it serves.             *)
LEMMA PidStep == IInv /\ [Next]_vars =>
  \A s \in Slots : \/ pool'[s].pid \in {pool[s].pid, NoPid}
                   \/ \E h \in Handles : pool'[s].pid = sess[h].owner
<1> SUFFICES ASSUME IInv, [Next]_vars, NEW s \in Slots
             PROVE  \/ pool'[s].pid \in {pool[s].pid, NoPid}
                    \/ \E h \in Handles : pool'[s].pid = sess[h].owner
  OBVIOUS
<1>1. pool \in [Slots -> Node]
  BY DEF IInv, TypeOK
<1> USE DEF kernel, static, locals
<1>2. CASE RegisterClient
  <2>1. cur \in Slots /\ pool[cur].handle \in Handles
    BY <1>2 DEF RegisterClient, Serving, IInv, ControlOK, HandlesOK
  <2> QED BY <1>1, <1>2, <2>1 DEF RegisterClient, Node
<1>3. CASE Environment
  BY <1>3 DEF Environment, Connect, SendRequest, CloseClient, ServerDies, ServiceSessionEnds
<1>4. CASE Loop
  <2>1. ASSUME NEW h, CloseSession(h) PROVE pool'[s].pid \in {pool[s].pid, NoPid}
    BY <1>1, <2>1 DEF CloseSession, BlankNode, Node
  <2>2. ASSUME NEW t, NEW busy, Replay(t, busy) PROVE pool'[s].pid = pool[s].pid
    BY <1>1, <2>2 DEF Replay, Node
  <2>3. ASSUME NEW kind, AcceptSession(kind) PROVE pool'[s].pid \in {pool[s].pid, NoPid}
    <3>1. \A h : AcceptedNode(h, kind).pid = NoPid
      BY DEF AcceptedNode, BlankNode
    <3> QED BY <1>1, <2>3, <3>1 DEF AcceptSession, Panic, Node
  <2>4. CASE PortClosedNext
    <3>1. ASSUME NEW t, pool' = [pool EXCEPT ![t].replay.arg = Clobbered, ![t].busy = NoPort]
          PROVE  pool'[s].pid = pool[s].pid
      BY <1>1, <3>1 DEF Node
    <3> QED BY <2>4, <3>1 DEF PortClosedNext
  <2> QED BY <1>4, <2>1, <2>2, <2>3, <2>4
          DEF Loop, Reply, ReplyUnreachable, Panic, InvalidHandle, ResumeRegistered, AcceptSrv, AcceptPm,
              SessionClosed, ReceiveRequest, ResumePortReady, PortClosed, PortClosedDone
<1>5. ASSUME NEW l, NEW busy, Park(l, busy) PROVE pool'[s].pid = pool[s].pid
  BY <1>1, <1>5 DEF Park, Node
<1>6. CASE GetServiceHandle \/ GetPort
  BY <1>5, <1>6 DEF GetServiceHandle, GetPort
<1>7. CASE WakeNext \/ WakeDone \/ PublishAndGetSubscriber \/ RegisterProcess \/ UnregisterProcess
           \/ UnregisterNext \/ UnregisterDone \/ RegisterService \/ RegisterPort
           \/ UnregisterService \/ UnregisterPort
  BY <1>7 DEF WakeNext, WakeDone, Panic, PublishAndGetSubscriber, RegisterProcess, UnregisterProcess,
              UnregisterNext, UnregisterDone, RegisterService, RegisterPort, RegisterServiceOrPort,
              AddService, UnregisterService, UnregisterPort, UnregisterServiceOrPort
<1>8. CASE UNCHANGED vars
  BY <1>8 DEF vars
<1> QED BY <1>2, <1>3, <1>4, <1>6, <1>7, <1>8 DEF Next, Sm, Handler

(* srv:pm stays registered, by sm itself, which no client can pass for.     *)
SrvPmOK ==
  /\ port[SrvPmPort] = [open |-> TRUE, alive |-> TRUE, load |-> 0, max |-> PmMax]
  /\ \A j \in DOMAIN services : services[j].port = SrvPmPort => services[j].pid = SmPid
  /\ \A h \in Handles : sess[h].owner # SmPid
  /\ \A s \in Slots : pool[s].pid # SmPid

(* The kernel keeps to the limits of the two ports; a session of srv:pm     *)
(* asks for nothing that has to wait.                                       *)
SessionsOK ==
  /\ IsFiniteSet(SessionsOf("srv")) /\ Cardinality(SessionsOf("srv")) <= SrvMax
  /\ IsFiniteSet(SessionsOf("pm"))  /\ Cardinality(SessionsOf("pm")) <= PmMax
  /\ \A h \in Handles : /\ sess[h].st # "none" => sess[h].kind # "none"
                        /\ sess[h].kind = "pm" => sess[h].req.op \notin SrvOps

LEMMA SrvPmStep == TableInv /\ SrvPmOK /\ [Next]_vars => SrvPmOK'
<1> SUFFICES ASSUME TableInv, SrvPmOK, [Next]_vars PROVE SrvPmOK'
  OBVIOUS
<1>1. /\ IInv /\ UnregisterOK /\ port \in [Ports -> Port] /\ services \in Seq(Service) /\ Len(services) \in Nat
      /\ sess \in [Handles -> Session] /\ SrvPmPort \in Ports
      /\ SmPid # NoPid /\ SmPid \notin Pids
  BY ValuesAssumption DEF TableInv, IInv, TypeOK
<1>2. port'[SrvPmPort] = port[SrvPmPort]
      /\ \A j \in DOMAIN services' : services'[j].port = SrvPmPort => services'[j].pid = SmPid
  <2>1. CASE SameTable
    BY <2>1 DEF SameTable, SrvPmOK
  <2>2. CASE Adds
    <3>1. PICK named \in BOOLEAN, p \in FreePorts, max \in Nat : AddService(p, named, max)
      BY <2>2 DEF Adds
    <3>2. p # SrvPmPort
      BY DEF FreePorts, SrvPmOK
    <3>3. services' = Append(services, [name |-> cmdbuf.arg, pid |-> pool[cur].pid, port |-> p, named |-> named])
          /\ port'[SrvPmPort] = port[SrvPmPort]
      BY <1>1, <3>1, <3>2 DEF AddService
    <3>4. \A j \in DOMAIN services' : \/ j \in DOMAIN services /\ services'[j] = services[j]
                                      \/ services'[j].port = p
      BY <1>1, <3>3
    <3> QED BY <3>2, <3>3, <3>4 DEF SrvPmOK
  <2>3. CASE Removes
    <3>1. PICK j \in DOMAIN services :
            /\ \/ pc = "serve" /\ services[j].pid = pool[cur].pid
               \/ pc = "unregister" /\ services[j].pid = cmdbuf.arg
            /\ port' = [port EXCEPT ![services[j].port] = ClosedPort]
            /\ services' = RemoveService(services, j)
      BY <2>3 DEF Removes
    <3>2. services[j].pid # SmPid
      <4>1. pc = "serve" => cur \in Slots
        BY <1>1 DEF IInv, ControlOK
      <4> QED BY <1>1, <3>1, <4>1 DEF SrvPmOK, UnregisterOK
    <3>3. port'[SrvPmPort] = port[SrvPmPort]
      BY <1>1, <3>1, <3>2 DEF SrvPmOK
    <3>4. /\ services' \in Seq(Service) /\ Len(services') = Len(services) - 1
          /\ \A k \in 1..Len(services)-1 : services'[k] = IF k = j THEN services[Len(services)] ELSE services[k]
      BY <1>1, <3>1, RemoveServiceProperties
    <3>5. DOMAIN services' = 1..Len(services)-1 /\ DOMAIN services = 1..Len(services)
      BY <1>1, <3>4
    <3>6. \A k \in DOMAIN services' : \E l \in DOMAIN services : services'[k] = services[l]
      BY <1>1, <3>4, <3>5
    <3> QED BY <3>3, <3>6 DEF SrvPmOK
  <2> QED BY <1>1, <2>1, <2>2, <2>3, TableStep
<1>3. \A h \in Handles : sess'[h].owner # SmPid
  <2>1. CASE \A h \in Handles : Rest(h)
    BY <2>1 DEF Rest, SrvPmOK
  <2>2. ASSUME NEW h \in Handles, NEW kind \in {"srv", "pm"}, NEW owner \in AllPids, Opens(h, kind, owner)
        PROVE  \A g \in Handles : sess'[g].owner # SmPid
    <3>1. owner # SmPid
      <4>1. pc = "serve" => pool[cur].handle \in Handles
        BY <1>1 DEF IInv, ControlOK, HandlesOK
      <4> QED BY <1>1, <2>2, <4>1 DEF Opens, SrvPmOK
    <3>2. \A g \in Handles : sess'[g].owner = IF g = h THEN owner ELSE sess[g].owner
      BY <1>1, <2>2 DEF Opens, NewSession, NoSession
    <3> QED BY <3>1, <3>2 DEF SrvPmOK
  <2>3. ASSUME NEW h \in Handles, sess' = [sess EXCEPT ![h] = NoSession]
        PROVE  \A g \in Handles : sess'[g].owner # SmPid
    BY <1>1, <2>3 DEF NoSession, SrvPmOK
  <2> QED BY <1>1, <2>1, <2>2, <2>3, SessionStep DEF SessionKind
<1>4. \A s \in Slots : pool'[s].pid # SmPid
  BY <1>1, PidStep DEF SrvPmOK
<1> QED BY <1>2, <1>3, <1>4 DEF SrvPmOK

LEMMA SessionsStep == IInv /\ SrvPmOK /\ SessionsOK /\ [Next]_vars => SessionsOK'
<1> SUFFICES ASSUME IInv, SrvPmOK, SessionsOK, [Next]_vars PROVE SessionsOK'
  OBVIOUS
<1>1. sess \in [Handles -> Session] /\ SrvMax \in Nat /\ PmMax \in Nat /\ NoCommand.op = "None"
  BY SizesAssumption DEF IInv, TypeOK, NoCommand
<1> DEFINE S(kind) == {h \in Handles : sess[h].kind = kind}
           T(kind) == {h \in Handles : sess'[h].kind = kind}
<1>2. \A kind : SessionsOf(kind) = S(kind)
  BY DEF SessionsOf
<1>3. SessionsOf("srv")' = T("srv") /\ SessionsOf("pm")' = T("pm")
  BY DEF SessionsOf
<1>4. \A c \in PmRequests \cup {NoCommand} : c.op \notin SrvOps
  BY DEF PmRequests, Calls, PmOps, SrvOps, NoCommand
<1>5. CASE \A h \in Handles : Rest(h)
  <2>1. S("srv") = T("srv") /\ S("pm") = T("pm")
    BY <1>5 DEF Rest
  <2>2. \A h \in Handles : sess'[h].st # "none" => sess'[h].kind # "none"
    BY <1>5 DEF Rest, SessionsOK
  <2>3. \A h \in Handles : sess'[h].kind = "pm" => sess'[h].req.op \notin SrvOps
    BY <1>4, <1>5 DEF Rest, SessionsOK
  <2> QED BY <1>2, <1>3, <2>1, <2>2, <2>3 DEF SessionsOK
<1>6. ASSUME NEW h \in Handles, NEW kind \in {"srv", "pm"}, NEW owner \in AllPids, Opens(h, kind, owner)
      PROVE  SessionsOK'
  <2>1. sess' = [sess EXCEPT ![h] = NewSession(kind, owner)] /\ sess[h].kind = "none"
    BY <1>6 DEF Opens
  <2>2. NewSession(kind, owner).kind = kind /\ NewSession(kind, owner).req.op = "None"
    BY <1>1 DEF NewSession, NoSession
  <2>3. \A g \in Handles : /\ sess'[g].kind = IF g = h THEN kind ELSE sess[g].kind
                           /\ g # h => sess'[g] = sess[g]
                           /\ sess'[h].req.op = "None"
    BY <1>1, <2>1, <2>2
  <2>4. \A g \in Handles : /\ sess'[g].st # "none" => sess'[g].kind # "none"
                           /\ sess'[g].kind = "pm" => sess'[g].req.op \notin SrvOps
    BY <2>3 DEF SessionsOK, SrvOps
  <2>5. CASE kind = "srv"
    <3>1. T("srv") = S("srv") \cup {h} /\ T("pm") = S("pm") /\ h \notin S("srv")
      BY <2>1, <2>3, <2>5
    <3>2. Cardinality(S("srv")) < SrvMax
      BY <1>2, <1>6, <2>5 DEF Opens
    <3>3. IsFiniteSet(S("srv")) /\ Cardinality(S("srv")) \in Nat
      BY <1>2, FS_CardinalityType DEF SessionsOK
    <3>4. IsFiniteSet(T("srv")) /\ Cardinality(T("srv")) <= SrvMax
      <4> HIDE DEF S, T
      <4>1. IsFiniteSet(T("srv")) /\ Cardinality(T("srv")) = Cardinality(S("srv")) + 1
        BY <3>1, <3>3, FS_AddElement
      <4> QED BY <1>1, <3>2, <3>3, <4>1
    <3> QED BY <1>2, <1>3, <2>4, <3>1, <3>4 DEF SessionsOK
  <2>6. CASE kind = "pm"
    <3>1. T("pm") = S("pm") \cup {h} /\ T("srv") = S("srv") /\ h \notin S("pm")
      BY <2>1, <2>3, <2>6
    <3>2. IsFiniteSet(S("pm")) /\ Cardinality(S("pm")) \in Nat
      BY <1>2, FS_CardinalityType DEF SessionsOK
    <3>3. ~(Cardinality(S("pm")) >= PmMax)
      <4>1. ~Full(SrvPmPort)
        BY <1>6, <2>6 DEF Opens
      <4>2. Load(SrvPmPort) = Cardinality(S("pm"))
        BY <1>2 DEF Load
      <4>3. port[SrvPmPort].alive /\ port[SrvPmPort].max = PmMax
        BY DEF SrvPmOK
      <4> HIDE DEF S
      <4> QED BY <4>1, <4>2, <4>3 DEF Full
    <3>4. IsFiniteSet(T("pm")) /\ Cardinality(T("pm")) <= PmMax
      <4> HIDE DEF S, T
      <4>1. IsFiniteSet(T("pm")) /\ Cardinality(T("pm")) = Cardinality(S("pm")) + 1
        BY <3>1, <3>2, FS_AddElement
      <4> QED BY <1>1, <3>2, <3>3, <4>1
    <3> QED BY <1>2, <1>3, <2>4, <3>1, <3>4 DEF SessionsOK
  <2> QED BY <2>5, <2>6
<1>7. ASSUME NEW h \in Handles, sess' = [sess EXCEPT ![h] = NoSession] PROVE SessionsOK'
  <2>1. \A g \in Handles : IF g = h THEN sess'[g] = NoSession ELSE sess'[g] = sess[g]
    BY <1>1, <1>7
  <2>2. \A g \in Handles : /\ sess'[g].st # "none" => sess'[g].kind # "none"
                           /\ sess'[g].kind = "pm" => sess'[g].req.op \notin SrvOps
    BY <2>1 DEF NoSession, SessionsOK
  <2>3. T("srv") \in SUBSET S("srv") /\ T("pm") \in SUBSET S("pm")
    BY <2>1 DEF NoSession
  <2>4. ASSUME NEW kind \in {"srv", "pm"}, NEW max \in Nat, IsFiniteSet(S(kind)), Cardinality(S(kind)) <= max,
               T(kind) \in SUBSET S(kind)
        PROVE  IsFiniteSet(T(kind)) /\ Cardinality(T(kind)) <= max
    <3> HIDE DEF S, T
    <3>1. IsFiniteSet(T(kind)) /\ Cardinality(T(kind)) <= Cardinality(S(kind))
      BY <2>4, FS_Subset
    <3>2. Cardinality(T(kind)) \in Nat /\ Cardinality(S(kind)) \in Nat
      BY <2>4, <3>1, FS_CardinalityType
    <3> QED BY <2>4, <3>1, <3>2
  <2> QED BY <1>1, <1>2, <1>3, <2>2, <2>3, <2>4 DEF SessionsOK
<1> QED BY <1>5, <1>6, <1>7, SessionStep DEF SessionKind

---------------------------------------------------------------------------
(* The panics                                                               *)

(* Only sessions of srv: wait: the others do not serve a command that may.  *)
ServesOK ==
  /\ pc = "serve" /\ sess[pool[cur].handle].kind = "pm" => cmdbuf.op \notin SrvOps
  /\ pc # "panic" => \A s \in Slots : IsParked(s) => sess[pool[s].handle].kind = "srv"

(* Where the command that is served comes from.                             *)
LEMMA ServeStep ==
  IInv /\ [Next]_vars /\ pc' = "serve" =>
    \/ pc = "serve" /\ UNCHANGED <<cmdbuf, cur, pool>>
    \/ /\ pc = "wait" /\ cur' \in Slots /\ IsParked(cur') /\ UNCHANGED sess
       /\ pool'[cur'].handle = pool[cur'].handle /\ cmdbuf'.op = pool[cur'].replay.op
    \/ /\ pc = "wait" /\ cur' \in Slots /\ UNCHANGED pool /\ pool[cur'].handle \in Handles
       /\ cmdbuf'.op = sess[pool[cur'].handle].req.op
       /\ sess'[pool[cur'].handle].kind = sess[pool[cur'].handle].kind
<1> SUFFICES ASSUME IInv, [Next]_vars, pc' = "serve"
             PROVE  \/ pc = "serve" /\ UNCHANGED <<cmdbuf, cur, pool>>
                    \/ /\ pc = "wait" /\ cur' \in Slots /\ IsParked(cur') /\ UNCHANGED sess
                       /\ pool'[cur'].handle = pool[cur'].handle /\ cmdbuf'.op = pool[cur'].replay.op
                    \/ /\ pc = "wait" /\ cur' \in Slots /\ UNCHANGED pool /\ pool[cur'].handle \in Handles
                       /\ cmdbuf'.op = sess[pool[cur'].handle].req.op
                       /\ sess'[pool[cur'].handle].kind = sess[pool[cur'].handle].kind
  OBVIOUS
<1>1. sess \in [Handles -> Session] /\ pool \in [Slots -> Node]
  BY DEF IInv, TypeOK
<1> USE DEF kernel, static, locals
<1>2. CASE Environment
  BY <1>2 DEF Environment, Connect, SendRequest, CloseClient, ServerDies, ServiceSessionEnds
<1>3. ASSUME NEW t \in Slots, NEW busy, Replay(t, busy)
      PROVE  cur' = t /\ pool'[t].handle = pool[t].handle /\ cmdbuf'.op = pool[t].replay.op
  <2>1. pool[t].replay \in Command
    BY <1>1 DEF Node, ParkedCommand
  <2> QED BY <1>1, <1>3, <2>1 DEF Replay, Node, Command
<1>4. CASE ResumeRegistered
  <2>1. ToWake # <<>> /\ UNCHANGED sess /\ pc = "wait" /\ \E busy : Replay(Head(ToWake), busy)
    BY <1>4 DEF ResumeRegistered, Panic, Waiting
  <2>2. Head(ToWake) \in Slots /\ lists.parent[Head(ToWake)] = "toWake"
    BY <2>1, HeadNode DEF ToWake, ListNames
  <2> QED BY <1>3, <2>1, <2>2 DEF IsParked
<1>5. CASE ResumePortReady
  BY <1>5, <1>3, PortSignalledNode DEF ResumePortReady, IsParked, Waiting
<1>6. CASE ReceiveRequest
  <2> DEFINE s == FirstOf(InUse, Signalled)
             c == sess[pool[s].handle].req
  <2>1. s \in Slots /\ pool[s].handle \in Handles
    BY <1>6, SignalledNode DEF ReceiveRequest
  <2>2. /\ cur' = s /\ pc = "wait" /\ UNCHANGED pool
        /\ sess' = [sess EXCEPT ![pool[s].handle].st = "taken"]
        /\ cmdbuf' = IF c.op \in CarriesWord4 THEN c ELSE [c EXCEPT !.w4 = cmdbuf.w4]
    BY <1>6 DEF ReceiveRequest, Waiting
  <2> HIDE DEF s
  <2>3. c \in Command
    BY <1>1, <2>1 DEF Session
  <2>4. cmdbuf'.op = c.op
    <3> HIDE DEF c
    <3> QED BY <2>2, <2>3 DEF Command
  <2>5. sess'[pool[s].handle].kind = sess[pool[s].handle].kind
    BY <1>1, <2>1, <2>2 DEF Session
  <2> QED BY <2>1, <2>2, <2>4, <2>5
<1>7. CASE Reply \/ ReplyUnreachable \/ InvalidHandle \/ AcceptSrv \/ AcceptPm \/ SessionClosed
           \/ PortClosed \/ PortClosedNext \/ PortClosedDone
  BY <1>7 DEF Reply, ReplyUnreachable, CloseSession, Panic, InvalidHandle, AcceptSrv, AcceptPm,
              AcceptSession, SessionClosed, PortClosed, PortClosedNext, PortClosedDone, Waiting
<1>8. ~Handler
  BY DEF Handler, RegisterClient, WakeNext, WakeDone, Panic, GetPort, Park, Answer, PublishAndGetSubscriber,
         RegisterProcess, UnregisterProcess, UnregisterNext, UnregisterDone, GetServiceHandle,
         RegisterService, RegisterPort, RegisterServiceOrPort, AddService,
         UnregisterService, UnregisterPort, UnregisterServiceOrPort
<1> QED BY <1>2, <1>4, <1>5, <1>6, <1>7, <1>8 DEF Next, Sm, Loop, vars

(* A node that becomes parked is the one whose command is served.           *)
LEMMA ParkStep ==
  ASSUME IInv, [Next]_vars, pc' # "panic", NEW s \in Slots, IsParked(s)'
  PROVE  /\ pool'[s].handle = pool[s].handle
         /\ \/ IsParked(s) /\ pc # "panic"
            \/ s = cur /\ pc = "serve" /\ cmdbuf.op \in SrvOps
<1>1. Kind /\ cur \in Slots \cup {0}
  BY StepKinds DEF IInv, TypeOK
<1> USE DEF ListNames, IsParked
<1>2. CASE Quiet \/ Replies \/ Receives \/ Answers
  BY <1>2 DEF Quiet, Replies, Receives, Answers, SameHandles, Working
<1>3. CASE Stops
  BY <1>3 DEF Stops
<1>4. CASE Closes \/ Resumes
  <2>1. PICK t \in Slots, dst \in {"free", "inUse"}, back \in BOOLEAN :
          lists' = MoveNode(lists, t, dst, back) /\ SameHandles /\ pc # "panic"
    BY <1>4 DEF Closes, Resumes
  <2> QED BY <2>1, Moved DEF OnList, SameHandles
<1>5. CASE Accepts
  <2>1. PICK t \in Slots, back \in BOOLEAN :
          /\ lists' = MoveNode(lists, t, "inUse", back) /\ pc # "panic"
          /\ \A u \in Slots : u # t => pool'[u].handle = pool[u].handle
    BY <1>5 DEF Accepts
  <2>2. s # t /\ IsParked(s)
    BY <2>1, Moved DEF OnList
  <2> QED BY <2>1, <2>2
<1>6. CASE Requeues
  <2>1. PICK t \in Slots, l \in {"toWake", "waitReg"} :
          /\ lists' = MoveNode(lists, t, l, TRUE) /\ OnList(t) \in {"waitReg", "waitPort"}
          /\ SameHandles /\ pc' = pc
    BY <1>6 DEF Requeues
  <2>2. IsParked(s)
    BY <2>1, Moved DEF OnList
  <2> QED BY <2>1, <2>2 DEF SameHandles
<1>7. CASE Parks
  <2>1. PICK l \in {"waitReg", "waitPort"} :
          lists' = MoveNode(lists, cur, l, TRUE) /\ pc = "serve" /\ SameHandles
    BY <1>7 DEF Parks
  <2>2. cur \in Slots /\ OnList(cur) = "inUse"
    BY <2>1 DEF IInv, ControlOK, OnList
  <2>3. \A u \in Slots : OnList(u)' = IF u = cur THEN l ELSE OnList(u)
    BY <2>1, <2>2, Moved
  <2>4. CASE s = cur
    <3>1. ParksNow(s)
      BY <2>2, <2>3, <2>4, WaiterKinds DEF Waiter, Stays, Requeued
    <3> QED BY <2>1, <2>4, <3>1 DEF ParksNow, SrvOps, SameHandles
  <2>5. CASE s # cur
    BY <2>1, <2>3, <2>5 DEF OnList, SameHandles
  <2> QED BY <2>4, <2>5
<1> QED BY <1>1, <1>2, <1>3, <1>4, <1>5, <1>6, <1>7 DEF Kind

(* A session that stays taken stays of its kind.                            *)
LEMMA KindStays ==
  ASSUME IInv, SessionsOK, [Next]_vars, NEW h \in Handles,
         sess[h].st = "taken", sess'[h].st = "taken"
  PROVE  sess'[h].kind = sess[h].kind
<1>1. sess \in [Handles -> Session]
  BY DEF IInv, TypeOK
<1>2. CASE \A g \in Handles : Rest(g)
  BY <1>2 DEF Rest
<1>3. ASSUME NEW g \in Handles, NEW kind \in {"srv", "pm"}, NEW owner \in AllPids, Opens(g, kind, owner)
      PROVE  sess'[h].kind = sess[h].kind
  <2>1. h # g
    BY <1>3 DEF Opens, SessionsOK
  <2> QED BY <1>1, <1>3, <2>1 DEF Opens
<1>4. ASSUME NEW g \in Handles, sess' = [sess EXCEPT ![g] = NoSession]
      PROVE  sess'[h].kind = sess[h].kind
  <2>1. h # g
    BY <1>1, <1>4 DEF NoSession
  <2> QED BY <1>1, <1>4, <2>1
<1> QED BY <1>2, <1>3, <1>4, SessionStep DEF SessionKind

LEMMA ServesStep == IInv /\ IInv' /\ SessionsOK /\ ServesOK /\ [Next]_vars => ServesOK'
<1> SUFFICES ASSUME IInv, IInv', SessionsOK, ServesOK, [Next]_vars PROVE ServesOK'
  OBVIOUS
<1>1. \A h \in Handles : sess[h].kind \in {"none", "srv", "pm"}
  BY DEF IInv, TypeOK, Session
<1>2. 0 \notin Slots
  BY DEF Slots
<1>3. ASSUME pc' = "serve", sess'[pool'[cur'].handle].kind = "pm" PROVE cmdbuf'.op \notin SrvOps
  <2>1. cur' \in Slots /\ pool'[cur'].handle \in Handles /\ sess'[pool'[cur'].handle].st = "taken"
    BY <1>2, <1>3 DEF IInv, ControlOK, HandlesOK, TakenOK
  <2>2. CASE pc = "serve" /\ UNCHANGED <<cmdbuf, cur, pool>>
    <3>1. sess[pool[cur].handle].st = "taken"
      BY <1>2, <2>1, <2>2 DEF IInv, ControlOK, TakenOK
    <3>2. sess'[pool[cur].handle].kind = sess[pool[cur].handle].kind
      BY <2>1, <2>2, <3>1, KindStays
    <3> QED BY <1>3, <2>2, <3>2 DEF ServesOK
  <2>3. CASE /\ pc = "wait" /\ cur' \in Slots /\ IsParked(cur') /\ UNCHANGED sess
             /\ pool'[cur'].handle = pool[cur'].handle /\ cmdbuf'.op = pool[cur'].replay.op
    BY <1>3, <2>3 DEF ServesOK
  <2>4. CASE /\ pc = "wait" /\ cur' \in Slots /\ UNCHANGED pool /\ pool[cur'].handle \in Handles
             /\ cmdbuf'.op = sess[pool[cur'].handle].req.op
             /\ sess'[pool[cur'].handle].kind = sess[pool[cur'].handle].kind
    BY <1>3, <2>4 DEF SessionsOK
  <2> QED BY <1>3, <2>2, <2>3, <2>4, ServeStep
<1>4. ASSUME pc' # "panic", NEW s \in Slots, IsParked(s)' PROVE sess'[pool'[s].handle].kind = "srv"
  <2>1. pool'[s].handle \in Handles /\ sess'[pool'[s].handle].st = "taken"
    BY <1>4 DEF IInv, HandlesOK, TakenOK, IsParked
  <2>2. pool'[s].handle = pool[s].handle
    BY <1>4, ParkStep
  <2>3. CASE IsParked(s) /\ pc # "panic"
    <3>1. sess[pool[s].handle].st = "taken" /\ sess[pool[s].handle].kind = "srv"
      BY <2>3 DEF ServesOK, IInv, TakenOK
    <3> QED BY <2>1, <2>2, <3>1, KindStays
  <2>4. CASE s = cur /\ pc = "serve" /\ cmdbuf.op \in SrvOps
    <3>1. sess[pool[s].handle].st = "taken"
      BY <1>2, <2>4 DEF IInv, TakenOK
    <3>2. sess[pool[s].handle].kind = "srv"
      BY <1>1, <2>1, <2>2, <2>4, <3>1 DEF ServesOK, SessionsOK
    <3> QED BY <2>1, <2>2, <3>1, <3>2, KindStays
  <2> QED BY <1>4, <2>3, <2>4, ParkStep
<1> QED BY <1>3, <1>4 DEF ServesOK

(* The wake-up list is no longer than the kernel's limit on srv: sessions.  *)
LEMMA WokenAreFew == IInv /\ SessionsOK /\ ServesOK /\ pc # "panic" => Len(ToWake) <= SrvMax
<1> SUFFICES ASSUME IInv, SessionsOK, ServesOK, pc # "panic" PROVE Len(ToWake) <= SrvMax
  OBVIOUS
<1> DEFINE N == Len(ToWake)
           T == SessionsOf("srv")
           f == [k \in 1..N |-> pool[ToWake[k]].handle]
<1>1. ToWake \in Seq(Slots) /\ N \in Nat
      /\ \A k \in 1..N : ToWake[k] \in Slots /\ lists.parent[ToWake[k]] = "toWake"
  BY ListOf DEF ToWake, ListNames
<1>2. \A k \in 1..N : pool[ToWake[k]].handle \in T
  <2> TAKE k \in 1..N
  <2>1. ToWake[k] \in Slots /\ IsParked(ToWake[k])
    BY <1>1 DEF IsParked
  <2> QED BY <1>1, <2>1 DEF SessionsOf, ServesOK, IInv, HandlesOK
<1>3. \A k, m \in 1..N : pool[ToWake[k]].handle = pool[ToWake[m]].handle => k = m
  <2> TAKE k \in 1..N, m \in 1..N
  <2>1. pool[ToWake[k]].handle # NoHandle
    BY <1>2, ValuesAssumption DEF SessionsOf
  <2>2. pool[ToWake[k]].handle = pool[ToWake[m]].handle => ToWake[k] = ToWake[m]
    BY <1>1, <2>1 DEF IInv, HandlesOK
  <2>3. ToWake[k] = ToWake[m] => k = m
    BY <1>1 DEF IInv, PoolPartitioned, IsPartition, ToWake, TypeOK, ListNames
  <2> QED BY <2>2, <2>3
<1>4. f \in Injection(1..N, T)
  BY <1>2, <1>3 DEF Injection, IsInjective
<1>5. IsFiniteSet(T) /\ Cardinality(T) <= SrvMax /\ Cardinality(T) \in Nat /\ SrvMax \in Nat
  BY FS_CardinalityType, SizesAssumption DEF SessionsOK
<1>6. Cardinality(1..N) <= Cardinality(T) /\ Cardinality(1..N) = N
  <2> HIDE DEF f, T, N
  <2>1. Cardinality(1..N) <= Cardinality(T)
    BY <1>4, <1>5, FS_Injection
  <2>2. Cardinality(1..N) = N
    BY <1>1, FS_Interval
  <2> QED BY <2>1, <2>2
<1> QED BY <1>1, <1>5, <1>6

(* When no node is free and one more session arrives, the pool is smaller   *)
(* than the number of sessions.                                             *)
LEMMA NodesAreTaken ==
  ASSUME IInv, SessionsOK, Free = <<>>, NEW kind \in {"srv", "pm"}, NEW h \in Pending(kind)
  PROVE  NSlots < Cardinality(SessionsOf("srv")) + Cardinality(SessionsOf("pm"))
<1> DEFINE A == SessionsOf("srv")
           B == SessionsOf("pm")
           T == (A \cup B) \ {h}
           f == [s \in Slots |-> pool[s].handle]
<1>1. h \in Handles /\ sess[h].st = "pending" /\ h \in A \cup B
  BY DEF Pending, SessionsOf
<1>2. \A s \in Slots : lists.parent[s] # "free"
  BY ListOf DEF Free, ToSet, ListNames
<1>3. \A s \in Slots : pool[s].handle \in T /\ pool[s].handle # NoHandle
  <2> TAKE s \in Slots
  <2>1. pool[s].handle \in Handles /\ sess[pool[s].handle].st \in {"idle", "sent", "taken"}
    BY <1>2 DEF IInv, HandlesOK
  <2>2. sess[pool[s].handle].kind \in {"srv", "pm"}
    BY <2>1 DEF SessionsOK, IInv, TypeOK, Session
  <2> QED BY <1>1, <2>1, <2>2, ValuesAssumption DEF SessionsOf
<1>4. f \in Injection(Slots, T)
  BY <1>3 DEF Injection, IsInjective, IInv, HandlesOK
<1>5. IsFiniteSet(A \cup B) /\ Cardinality(A \cup B) <= Cardinality(A) + Cardinality(B)
      /\ Cardinality(A \cup B) \in Nat /\ Cardinality(A) \in Nat /\ Cardinality(B) \in Nat
  <2> HIDE DEF A, B
  <2>1. IsFiniteSet(A) /\ IsFiniteSet(B)
    BY DEF SessionsOK, A, B
  <2>2. /\ IsFiniteSet(A \cup B)
        /\ Cardinality(A \cup B) = Cardinality(A) + Cardinality(B) - Cardinality(A \cap B)
    BY <2>1, FS_Union
  <2>3. IsFiniteSet(A \cap B)
    BY <2>1, FS_Intersection
  <2>4. Cardinality(A) \in Nat /\ Cardinality(B) \in Nat /\ Cardinality(A \cap B) \in Nat
        /\ Cardinality(A \cup B) \in Nat
    BY <2>1, <2>2, <2>3, FS_CardinalityType
  <2> QED BY <2>2, <2>4
<1>6. IsFiniteSet(T) /\ Cardinality(T) = Cardinality(A \cup B) - 1
  <2> HIDE DEF A, B
  <2> QED BY <1>1, <1>5, FS_RemoveElement
<1>7. Cardinality(Slots) <= Cardinality(T) /\ Cardinality(Slots) = NSlots /\ NSlots \in Nat
  <2> HIDE DEF f, T
  <2>1. Cardinality(Slots) <= Cardinality(T)
    BY <1>4, <1>6, FS_Injection
  <2>2. NSlots \in Nat /\ NSlots > 0
    BY SizesAssumption
  <2>3. Cardinality(Slots) = NSlots
    BY <2>2, FS_Interval DEF Slots
  <2> QED BY <2>1, <2>2, <2>3
<1> HIDE DEF A, B, T
<1>8. NSlots <= Cardinality(A \cup B) - 1
  BY <1>6, <1>7
<1>9. NSlots < Cardinality(A) + Cardinality(B)
  BY <1>5, <1>7, <1>8
<1> QED BY <1>9 DEF A, B

(* The two ways sm can fail: the handle of a port it waits on has been      *)
(* closed, or there are more sessions than nodes.                           *)
MoreSessionsThanNodes == NSlots < Cardinality(SessionsOf("srv")) + Cardinality(SessionsOf("pm"))

LEMMA PanicStep ==
  IInv /\ SessionsOK /\ ServesOK /\ [Next]_vars /\ pc # "panic" /\ pc' = "panic" =>
    InvalidHandle \/ MoreSessionsThanNodes
<1> SUFFICES ASSUME IInv, SessionsOK, ServesOK, [Next]_vars, pc # "panic", pc' = "panic"
             PROVE  InvalidHandle \/ MoreSessionsThanNodes
  OBVIOUS
<1>1. sem \in Nat /\ n \in Nat /\ SemaphoreCountsWakeups /\ ControlOK /\ TakenOK
      /\ (pc \notin {"wake", "panic"} => n = 0)
  BY DEF IInv, TypeOK, ControlOK
<1> USE DEF kernel, static, locals
<1>2. ~Environment /\ ~UNCHANGED vars
  BY DEF Environment, Connect, SendRequest, CloseClient, ServerDies, ServiceSessionEnds, vars
<1>3. ~ReplyUnreachable
  <2>1. SUFFICES ASSUME ReplyUnreachable PROVE FALSE
    OBVIOUS
  <2>2. NodeOf(replyTarget) \in ToSet(InUse) /\ pool[NodeOf(replyTarget)].handle = replyTarget
    BY <2>1, ReplyNode, ListOf DEF ReplyUnreachable, InUse, ListNames
  <2> QED BY <2>1, <2>2 DEF ReplyUnreachable, CloseSession
<1>4. ~ResumeRegistered
  <2>1. SUFFICES ASSUME ResumeRegistered PROVE FALSE
    OBVIOUS
  <2>2. sem + n = Len(ToWake) /\ n = 0 /\ sem > 0
    BY <1>1, <2>1 DEF SemaphoreCountsWakeups, ResumeRegistered, Waiting
  <2>3. ToWake # <<>>
    BY <1>1, <2>2
  <2> QED BY <2>1, <2>3 DEF ResumeRegistered, Replay
<1>5. ~WakeDone
  <2>1. SUFFICES ASSUME WakeDone PROVE FALSE
    OBVIOUS
  <2>2. sem + n > SemMax
    BY <2>1 DEF WakeDone, Released
  <2>3. sem + n = Len(ToWake) /\ Len(ToWake) <= SrvMax
    BY WokenAreFew, <1>1 DEF SemaphoreCountsWakeups
  <2>4. Len(ToWake) \in Nat /\ SrvMax \in Nat /\ SemMax \in Nat /\ SrvMax <= SemMax
    BY <1>1, <2>3, SizesAssumption, WakeUpsAssumption
  <2> QED BY <2>2, <2>3, <2>4
<1>6. AcceptSrv \/ AcceptPm => MoreSessionsThanNodes
  <2>1. ASSUME NEW kind \in {"srv", "pm"}, Pending(kind) # {}, AcceptSession(kind) PROVE MoreSessionsThanNodes
    <3>1. Free = <<>>
      BY <2>1 DEF AcceptSession
    <3> QED BY <2>1, <3>1, NodesAreTaken DEF MoreSessionsThanNodes
  <2> QED BY <2>1 DEF AcceptSrv, AcceptPm
<1>7. ~(Reply \/ SessionClosed \/ ReceiveRequest \/ ResumePortReady \/ PortClosed \/ PortClosedNext \/ PortClosedDone)
  BY DEF Reply, SessionClosed, CloseSession, ReceiveRequest, ResumePortReady, Replay, PortClosed,
         PortClosedNext, PortClosedDone
<1>8. Handler => WakeDone
  BY DEF Handler, RegisterClient, WakeNext, GetPort, Park, Answer, PublishAndGetSubscriber,
         RegisterProcess, UnregisterProcess, UnregisterNext, UnregisterDone, GetServiceHandle,
         RegisterService, RegisterPort, RegisterServiceOrPort, AddService,
         UnregisterService, UnregisterPort, UnregisterServiceOrPort
<1> QED BY <1>2, <1>3, <1>4, <1>5, <1>6, <1>7, <1>8 DEF Next, Sm, Loop

---------------------------------------------------------------------------
(* Nobody unregisters                                                       *)

Unregistrations == {"UnregisterService", "UnregisterProcess"}

(* No client has asked to unregister a service.                             *)
KeepServices ==
  /\ \A h \in Handles : sess[h].req.op \notin Unregistrations
  /\ pc = "serve" => cmdbuf.op \notin Unregistrations
  /\ pc # "unregister"

(* A session that waits for room waits on the open port of a service.       *)
RoomOK ==
  \A s \in Slots : OnList(s) = "waitPort" =>
    /\ pool[s].busy \in Ports /\ port[pool[s].busy].open
    /\ \A j \in DOMAIN services : services[j].port = pool[s].busy => ~services[j].named

LEMMA KeepStep ==
  ASSUME Ops \cap Unregistrations = {}, IInv, KeepServices, [Next]_vars
  PROVE  KeepServices'
<1>1. /\ sess \in [Handles -> Session] /\ pool \in [Slots -> Node] /\ NoCommand.op = "None"
      /\ \A s \in Slots : pool[s].replay.op \notin Unregistrations
  BY DEF IInv, TypeOK, NoCommand, Node, ParkedCommand, Unregistrations
<1>2. \A c \in SrvRequests \cup PmRequests \cup {NoCommand} : c.op \notin Unregistrations
  BY <1>1 DEF SrvRequests, PmRequests, Calls, Unregistrations
<1>3. \A h \in Handles : sess'[h].req.op \notin Unregistrations
  <2>1. CASE \A h \in Handles : Rest(h)
    BY <1>2, <2>1 DEF Rest, KeepServices
  <2>2. ASSUME NEW h \in Handles, NEW s, s.req = NoCommand, sess' = [sess EXCEPT ![h] = s]
        PROVE  \A g \in Handles : sess'[g].req.op \notin Unregistrations
    BY <1>1, <1>2, <2>2 DEF KeepServices
  <2> QED BY <2>1, <2>2, SessionStep DEF SessionKind, Opens, NewSession, NoSession
<1>4. pc' # "unregister"
  BY UnregisterLoop DEF KeepServices, Unregistrations
<1>5. ASSUME pc' = "serve" PROVE cmdbuf'.op \notin Unregistrations
  BY <1>1, <1>5, ServeStep DEF KeepServices
<1> QED BY <1>3, <1>4, <1>5 DEF KeepServices

LEMMA RoomStep ==
  ASSUME IInv, ServiceTableSound, KeepServices, RoomOK, [Next]_vars
  PROVE  RoomOK'
<1>1. /\ port \in [Ports -> Port] /\ services \in Seq(Service) /\ Len(services) \in Nat
      /\ \A j \in DOMAIN services : services[j] \in Service
  BY ElementOf DEF IInv, TypeOK
<1>2. \A j \in DOMAIN services : services[j].port \in Ports
  BY <1>1 DEF Service
<1> SUFFICES ASSUME NEW s \in Slots, OnList(s)' = "waitPort"
             PROVE  /\ pool'[s].busy \in Ports /\ port'[pool'[s].busy].open
                    /\ \A j \in DOMAIN services' : services'[j].port = pool'[s].busy => ~services'[j].named
  BY DEF RoomOK
<1>3. CASE ParksNow(s)
  <2>1. PICK j \in DOMAIN services : ~services[j].named /\ pool'[s].busy = services[j].port
    BY <1>3 DEF ParksNow
  <2>2. UNCHANGED <<services, port>>
    BY <1>3 DEF ParksNow
  <2> QED BY <1>2, <2>1, <2>2 DEF ServiceTableSound
<1>4. CASE Stays(s)
  <2> DEFINE p == pool[s].busy
  <2>1. /\ p \in Ports /\ port[p].open /\ pool'[s].busy = p
        /\ \A j \in DOMAIN services : services[j].port = p => ~services[j].named
    BY <1>4 DEF Stays, RoomOK
  <2>2. CASE SameTable
    BY <2>1, <2>2 DEF SameTable
  <2>3. CASE Adds
    <3>1. PICK named \in BOOLEAN, q \in FreePorts, max \in Nat : AddService(q, named, max)
      BY <2>3 DEF Adds
    <3>2. q # p /\ services' = Append(services, [name |-> cmdbuf.arg, pid |-> pool[cur].pid, port |-> q,
                                               named |-> named])
          /\ port'[p] = port[p]
      BY <1>1, <2>1, <3>1 DEF FreePorts, AddService
    <3>3. \A j \in DOMAIN services' : \/ j \in DOMAIN services /\ services'[j] = services[j]
                                      \/ services'[j].port = q
      BY <1>1, <3>2
    <3> QED BY <2>1, <3>2, <3>3
  <2>4. CASE Removes
    <3>1. PICK j \in DOMAIN services :
            /\ services[j].named
            /\ port' = [port EXCEPT ![services[j].port] = ClosedPort]
            /\ services' = RemoveService(services, j)
      BY <2>4 DEF Removes, KeepServices, Unregistrations
    <3>2. port'[p] = port[p]
      BY <1>1, <2>1, <3>1
    <3>3. /\ services' \in Seq(Service) /\ Len(services') = Len(services) - 1
          /\ \A k \in 1..Len(services)-1 : services'[k] = IF k = j THEN services[Len(services)] ELSE services[k]
      <4>1. services \in Seq(Service)
        BY <1>1
      <4> QED BY <3>1, <4>1, RemoveServiceProperties, ZenonT(30)
    <3>4. DOMAIN services' = 1..Len(services)-1 /\ DOMAIN services = 1..Len(services)
      BY <1>1, <3>3
    <3>5. \A k \in DOMAIN services' : \E l \in DOMAIN services : services'[k] = services[l]
      BY <1>1, <3>3, <3>4
    <3> HIDE DEF p
    <3> QED BY <2>1, <3>2, <3>5
  <2> QED BY <2>2, <2>3, <2>4, TableStep
<1> QED BY <1>3, <1>4, WaiterKinds DEF Waiter, Requeued

---------------------------------------------------------------------------
(* Theorems about the panics                                                *)

SmInv == TableInv /\ SrvPmOK /\ SessionsOK /\ ServesOK

LEMMA SmInit == Init => SmInv /\ KeepServices /\ RoomOK
<1> SUFFICES ASSUME Init PROVE SrvPmOK /\ SessionsOK /\ ServesOK /\ KeepServices /\ RoomOK
  BY TableInit DEF SmInv
<1>1. /\ sess = [h \in Handles |-> NoSession] /\ pool = [s \in Slots |-> BlankNode] /\ pc = "wait"
      /\ lists.parent = [s \in Slots |-> "free"]
      /\ services = <<[name |-> SrvPmName, pid |-> SmPid, port |-> SrvPmPort, named |-> FALSE]>>
  BY DEF Init
<1>2. SrvPmOK
  <2>1. port[SrvPmPort] = [open |-> TRUE, alive |-> TRUE, load |-> 0, max |-> PmMax]
    BY ValuesAssumption DEF Init
  <2>2. \A j \in DOMAIN services : services[j].pid = SmPid
    BY <1>1
  <2> QED BY <1>1, <2>1, <2>2, ValuesAssumption DEF SrvPmOK, NoSession, BlankNode
<1>3. SessionsOK
  <2>1. SessionsOf("srv") = {} /\ SessionsOf("pm") = {}
    BY <1>1 DEF SessionsOf, NoSession
  <2>2. SrvMax \in Nat /\ PmMax \in Nat
    BY SizesAssumption
  <2>3. IsFiniteSet({}) /\ Cardinality({}) = 0
    BY FS_EmptySet
  <2>4. \A h \in Handles : sess[h].st = "none" /\ sess[h].kind = "none"
    BY <1>1 DEF NoSession
  <2> QED BY <2>1, <2>2, <2>3, <2>4 DEF SessionsOK
<1>4. ServesOK /\ RoomOK
  BY <1>1 DEF ServesOK, IsParked, RoomOK, OnList
<1>5. KeepServices
  BY <1>1 DEF KeepServices, NoSession, NoCommand, Unregistrations
<1> QED BY <1>2, <1>3, <1>4, <1>5

LEMMA SmStep == SmInv /\ [Next]_vars => SmInv'
<1>1. IInv /\ [Next]_vars => IInv'
  BY TypeStep, PartitionStep, SemStep, ControlStep, HandlesStep, TakenStep DEF IInv
<1> QED BY <1>1, TableSoundStep, UnregisterStep, SrvPmStep, SessionsStep, ServesStep DEF SmInv, TableInv

LEMMA SmInvariant == Spec => []SmInv
BY SmInit, SmStep, PTL DEF Spec

(* Of the panics of main.c only two can be reached: the wait on a port       *)
(* whose handle sm has closed, because its service was unregistered while a *)
(* session waited for room on it, and a session for which the pool has no   *)
(* node.                                                                    *)
PanicsForTwoReasons ==
  [][pc # "panic" /\ pc' = "panic" => InvalidHandle \/ MoreSessionsThanNodes]_vars

THEOREM OnlyTwoPanics == Spec => PanicsForTwoReasons
<1>1. SmInv /\ [Next]_vars => [pc # "panic" /\ pc' = "panic" => InvalidHandle \/ MoreSessionsThanNodes]_vars
  BY PanicStep DEF SmInv, TableInv
<1> QED BY <1>1, SmInvariant, PTL DEF Spec, PanicsForTwoReasons

(* The pool has a node for every session as soon as the two ports together   *)
(* admit no more of them than it has nodes.  They do admit more in the      *)
(* build (64 and 64, for 76 nodes).                                         *)
THEOREM PoolSuffices ==
  ASSUME SrvMax + PmMax <= NSlots
  PROVE  Spec => []~MoreSessionsThanNodes
<1>1. SmInv => ~MoreSessionsThanNodes
  <2> SUFFICES ASSUME SmInv PROVE ~MoreSessionsThanNodes
    OBVIOUS
  <2> DEFINE a == Cardinality(SessionsOf("srv"))
             b == Cardinality(SessionsOf("pm"))
  <2>1. a \in Nat /\ b \in Nat /\ a <= SrvMax /\ b <= PmMax
    BY FS_CardinalityType DEF SmInv, SessionsOK
  <2>2. SrvMax \in Nat /\ PmMax \in Nat /\ NSlots \in Nat /\ SrvMax + PmMax <= NSlots
    BY SizesAssumption
  <2> HIDE DEF a, b
  <2>3. ~(NSlots < a + b)
    BY <2>1, <2>2
  <2> QED BY <2>3 DEF MoreSessionsThanNodes, a, b
<1> QED BY <1>1, SmInvariant, PTL

(* sm never panics while its clients register, ask and leave as they like,  *)
(* as long as no service is unregistered and there are never more sessions  *)
(* than nodes in the pool.                                                  *)
THEOREM PanicFree ==
  ASSUME Ops \cap Unregistrations = {}
  PROVE  Spec /\ []~MoreSessionsThanNodes => []NeverPanics
<1> DEFINE Inv == SmInv /\ KeepServices /\ RoomOK /\ NeverPanics
<1>1. Init => Inv
  BY SmInit DEF Init, NeverPanics
<1>2. Inv /\ ~MoreSessionsThanNodes /\ [Next]_vars => Inv'
  <2> SUFFICES ASSUME Inv, ~MoreSessionsThanNodes, [Next]_vars PROVE Inv'
    OBVIOUS
  <2>1. SmInv'
    BY SmStep
  <2>2. KeepServices' /\ RoomOK'
    BY KeepStep, RoomStep DEF SmInv, TableInv
  <2>3. ~InvalidHandle
    <3>1. \A s \in ToSet(WaitPort) : port[pool[s].busy].open
      <4> TAKE s \in ToSet(WaitPort)
      <4>1. s \in Slots
        BY ListOf DEF SmInv, TableInv, WaitPort, ToSet, ListNames
      <4>2. OnList(s) = "waitPort"
        BY <4>1, ListOf DEF SmInv, TableInv, WaitPort, OnList, ListNames
      <4> QED BY <4>1, <4>2 DEF RoomOK
    <3> QED BY <3>1 DEF InvalidHandle, HandlesValid
  <2>4. NeverPanics'
    BY <2>3, PanicStep DEF SmInv, TableInv, NeverPanics
  <2> QED BY <2>1, <2>2, <2>4
<1>3. Inv => NeverPanics
  OBVIOUS
<1> QED BY <1>1, <1>2, <1>3, PTL DEF Spec
=============================================================================
