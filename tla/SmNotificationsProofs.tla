---------------------- MODULE SmNotificationsProofs ------------------------
(***************************************************************************)
(* The rings of notifications, for any number of processes, notifications   *)
(* and slots.                                                               *)
(***************************************************************************)
EXTENDS SmNotifications, SequenceLemmas

(* The slot a position on the unrolled ring stands for.                     *)
Around(x) == IF x < Ring THEN x ELSE x - Ring

LEMMA Round ==
  /\ Ring \in Nat \ {0}
  /\ \A a \in 0..Ring-1, b \in 0..Ring :
       (a + b) % Ring = Around(a + b) /\ Around(a + b) \in 0..Ring-1
<1>1. Ring \in Nat \ {0}
  BY SizesAssumption
<1>2. ASSUME NEW a \in 0..Ring-1, NEW b \in 0..Ring
      PROVE  (a + b) % Ring = Around(a + b) /\ Around(a + b) \in 0..Ring-1
  <2>1. CASE a + b < Ring
    <3>1. (a + b) % Ring = a + b
      BY <1>1, <2>1
    <3> QED BY <1>1, <2>1, <3>1 DEF Around
  <2>2. CASE a + b >= Ring
    <3>1. a + b = Ring * 1 + (a + b - Ring) /\ a + b - Ring \in 0..Ring-1
      BY <1>1, <2>2
    <3>2. (a + b) % Ring = a + b - Ring
      BY <1>1, <3>1
    <3> QED BY <1>1, <2>2, <3>1, <3>2 DEF Around
  <2> QED BY <1>1, <2>1, <2>2
<1> QED BY <1>1, <1>2

---------------------------------------------------------------------------
(* One node                                                                 *)

(* The ring of a node is a queue of notifications.                          *)
RingOK(d) == d.pend = (d.rcv + d.nb) % Ring /\ Pending(d) \in Seq(Ids)
SameRing(d, e) == e.rcv = d.rcv /\ e.pend = d.pend /\ e.nb = d.nb /\ e.ring = d.ring
Subscribed(d) == IsInjective(d.subs) /\ Len(d.subs) <= MaxSubs
NodeOK(d) == d \in Node /\ RingOK(d) /\ Subscribed(d)

(* The elements of the queue of a node lie in the slots from rcv on.        *)
LEMMA PendingProperties ==
  ASSUME NEW d \in Node
  PROVE  /\ Pending(d) \in Seq(Ids \cup {None}) /\ Len(Pending(d)) = d.nb
         /\ \A k \in 1..d.nb : Pending(d)[k] = d.ring[Around(d.rcv + k - 1)]
<1>1. Ring \in Nat \ {0} /\ d.rcv \in 0..Ring-1 /\ d.nb \in 0..Ring
      /\ d.ring \in [0..Ring-1 -> Ids \cup {None}]
  BY SizesAssumption DEF Node
<1>2. \A k \in 1..d.nb : /\ (d.rcv + k - 1) % Ring \in 0..Ring-1
                         /\ (d.rcv + k - 1) % Ring = Around(d.rcv + k - 1)
  <2> TAKE k \in 1..d.nb
  <2>1. k - 1 \in 0..Ring /\ d.rcv + (k - 1) = d.rcv + k - 1
    BY <1>1
  <2> QED BY <1>1, <2>1, Round
<1>3. \A k \in 1..d.nb : d.ring[(d.rcv + k - 1) % Ring] \in Ids \cup {None}
  BY <1>1, <1>2
<1> DEFINE f(k) == d.ring[(d.rcv + k - 1) % Ring]
<1>4. Pending(d) = [k \in 1..d.nb |-> f(k)]
  BY DEF Pending
<1>5. \A k \in 1..d.nb : f(k) \in Ids \cup {None} /\ f(k) = d.ring[Around(d.rcv + k - 1)]
  BY <1>2, <1>3
<1> HIDE DEF f
<1> QED BY <1>1, <1>4, <1>5

(* Nodes with the same ring have the same queue.                            *)
LEMMA SameQueue ==
  ASSUME NEW d \in Node, NEW e \in Node, SameRing(d, e)
  PROVE  Pending(e) = Pending(d) /\ (RingOK(d) => RingOK(e))
BY DEF SameRing, Pending, RingOK

(* A new node has an empty queue.                                           *)
LEMMA BlankProperties ==
  /\ NodeOK(Blank) /\ NodeOK([Blank EXCEPT !.enabled = TRUE])
  /\ Pending(Blank) = <<>> /\ Pending([Blank EXCEPT !.enabled = TRUE]) = <<>>
<1> DEFINE E == [Blank EXCEPT !.enabled = TRUE]
<1>1. Blank \in Node /\ E \in Node
  <2> DEFINE r == [k \in 0..Ring-1 |-> None]
  <2>1. Ring \in Nat \ {0}
    BY SizesAssumption
  <2>2. 0 \in 0..Ring-1 /\ 0 \in 0..Ring
    BY <2>1
  <2>3. r \in [0..Ring-1 -> Ids \cup {None}]
    OBVIOUS
  <2>4. <<>> \in Seq(Ids)
    OBVIOUS
  <2>5. Blank = [enabled |-> FALSE, rcv |-> 0, pend |-> 0, nb |-> 0, ring |-> r, subs |-> <<>>]
    BY DEF Blank
  <2> HIDE DEF r, E
  <2>6. Blank \in Node
    BY <2>2, <2>3, <2>4, <2>5 DEF Node
  <2>7. E \in Node
    BY <2>6 DEF Node, E
  <2> QED BY <2>6, <2>7
<1>2. Blank.nb = 0 /\ Blank.rcv = 0 /\ Blank.pend = 0 /\ Blank.subs = <<>>
      /\ E.nb = 0 /\ E.rcv = 0 /\ E.pend = 0 /\ E.subs = <<>>
  BY DEF Blank
<1>3. (0 + 0) % Ring = 0
  BY SizesAssumption
<1>4. Pending(Blank) = <<>> /\ Pending(E) = <<>>
  <2>1. Pending(Blank) \in Seq(Ids \cup {None}) /\ Len(Pending(Blank)) = 0
    BY <1>1, <1>2, PendingProperties
  <2>2. Pending(E) \in Seq(Ids \cup {None}) /\ Len(Pending(E)) = 0
    BY <1>1, <1>2, PendingProperties
  <2> QED BY <2>1, <2>2, EmptySeq
<1>5. IsInjective(<<>>) /\ Len(<<>>) <= MaxSubs
  BY SizesAssumption DEF IsInjective
<1>6. RingOK(Blank) /\ RingOK(E)
  BY <1>2, <1>3, <1>4, EmptySeq DEF RingOK
<1> QED BY <1>1, <1>2, <1>4, <1>5, <1>6 DEF NodeOK, Subscribed

(* A notification put into a ring with room becomes the last of the queue.  *)
LEMMA PutProperties ==
  ASSUME NEW d, NodeOK(d), d.nb < Ring, NEW id \in Ids
  PROVE  /\ NodeOK(Put(d, id)) /\ Pending(Put(d, id)) = Append(Pending(d), id)
         /\ Put(d, id).nb = d.nb + 1 /\ Put(d, id).enabled = d.enabled
<1> DEFINE e == Put(d, id)
<1>1. /\ d \in Node /\ Ring \in Nat \ {0} /\ d.rcv \in 0..Ring-1 /\ d.nb \in 0..Ring-1
      /\ d.pend \in 0..Ring-1 /\ d.ring \in [0..Ring-1 -> Ids \cup {None}]
      /\ d.enabled \in BOOLEAN /\ d.subs \in Seq(Ids)
  BY SizesAssumption DEF NodeOK, Node
<1>2. /\ e = [enabled |-> d.enabled, rcv |-> d.rcv, pend |-> (d.pend + 1) % Ring, nb |-> d.nb + 1,
              ring |-> [d.ring EXCEPT ![d.pend] = id], subs |-> d.subs]
  BY <1>1, SMTT(30) DEF Put, Node
<1>3. /\ e.rcv = d.rcv /\ e.pend = (d.pend + 1) % Ring /\ e.nb = d.nb + 1 /\ e.subs = d.subs
      /\ e.ring = [d.ring EXCEPT ![d.pend] = id] /\ e.enabled = d.enabled
  BY <1>2
<1>4. e.pend \in 0..Ring-1 /\ e.pend = Around(d.pend + 1)
  <2>1. 1 \in 0..Ring
    BY <1>1
  <2>2. (d.pend + 1) % Ring = Around(d.pend + 1) /\ Around(d.pend + 1) \in 0..Ring-1
    BY <1>1, <2>1, Round
  <2> QED BY <1>3, <2>2
<1>5. e \in Node
  <2>1. [d.ring EXCEPT ![d.pend] = id] \in [0..Ring-1 -> Ids \cup {None}]
    BY <1>1
  <2>2. d.nb + 1 \in 0..Ring /\ (d.pend + 1) % Ring \in 0..Ring-1
    BY <1>1, <1>3, <1>4
  <2> QED BY <1>1, <1>2, <2>1, <2>2 DEF Node
<1> HIDE DEF e
<1>6. d.pend = Around(d.rcv + d.nb)
  <2>1. d.pend = (d.rcv + d.nb) % Ring
    BY DEF NodeOK, RingOK
  <2>2. d.nb \in 0..Ring
    BY <1>1
  <2>3. (d.rcv + d.nb) % Ring = Around(d.rcv + d.nb)
    BY <1>1, <2>2, Round
  <2> QED BY <2>1, <2>3
<1>7. e.pend = (e.rcv + e.nb) % Ring
  <2>1. d.nb + 1 \in 0..Ring
    BY <1>1
  <2>2. (d.rcv + (d.nb + 1)) % Ring = Around(d.rcv + (d.nb + 1))
    BY <1>1, <2>1, Round
  <2>3. Around(Around(d.rcv + d.nb) + 1) = Around(d.rcv + (d.nb + 1))
    BY <1>1 DEF Around
  <2> QED BY <1>3, <1>4, <1>6, <2>2, <2>3
<1>8. Pending(e) = Append(Pending(d), id)
  <2>1. /\ Pending(d) \in Seq(Ids) /\ Len(Pending(d)) = d.nb
        /\ \A k \in 1..d.nb : Pending(d)[k] = d.ring[Around(d.rcv + k - 1)]
    BY <1>1, PendingProperties DEF NodeOK, RingOK
  <2>2. /\ Pending(e) \in Seq(Ids \cup {None}) /\ Len(Pending(e)) = d.nb + 1
        /\ \A k \in 1..d.nb+1 : Pending(e)[k] = e.ring[Around(d.rcv + k - 1)]
    BY <1>5, <1>3, PendingProperties
  <2>3. /\ Append(Pending(d), id) \in Seq(Ids) /\ Len(Append(Pending(d), id)) = d.nb + 1
        /\ \A k \in 1..d.nb : Append(Pending(d), id)[k] = Pending(d)[k]
        /\ Append(Pending(d), id)[d.nb + 1] = id
    BY <2>1, AppendProperties
  <2>4. \A k \in 1..d.nb : Pending(e)[k] = Append(Pending(d), id)[k]
    <3> TAKE k \in 1..d.nb
    <3> DEFINE s == Around(d.rcv + k - 1)
    <3>1. s \in 0..Ring-1 /\ s # d.pend
      <4>1. s \in 0..Ring-1 /\ s # Around(d.rcv + d.nb)
        BY <1>1 DEF Around
      <4> QED BY <4>1, <1>6
    <3>2. Pending(e)[k] = e.ring[s] /\ Pending(d)[k] = d.ring[s]
      BY <2>1, <2>2, <1>1
    <3> HIDE DEF s
    <3> QED BY <1>1, <1>3, <2>3, <3>1, <3>2
  <2>5. Pending(e)[d.nb + 1] = id
    <3>1. d.pend = Around(d.rcv + (d.nb + 1) - 1)
      <4>1. d.rcv + (d.nb + 1) - 1 = d.rcv + d.nb
        BY <1>1
      <4> QED BY <4>1, <1>6
    <3>2. Pending(e)[d.nb + 1] = e.ring[d.pend]
      BY <2>2, <3>1, <1>1
    <3> QED BY <1>1, <1>3, <3>2
  <2>6. Append(Pending(d), id) \in Seq(Ids \cup {None})
    BY <2>3, SeqMonotonic
  <2>7. \A k \in 1..Len(Pending(e)) : Pending(e)[k] = Append(Pending(d), id)[k]
    BY <1>1, <2>2, <2>3, <2>4, <2>5
  <2> QED BY <2>2, <2>3, <2>6, <2>7, SeqEqual
<1>9. Pending(e) \in Seq(Ids)
  BY <1>8, AppendProperties DEF NodeOK, RingOK
<1> QED BY <1>3, <1>5, <1>7, <1>8, <1>9 DEF NodeOK, RingOK, Subscribed, e

(* The positions counted from the next slot on.                             *)
LEMMA AroundFromNext ==
  ASSUME Ring \in Nat \ {0}, NEW x \in 0..Ring-1, NEW k \in 1..Ring-1
  PROVE  Around(Around(x + 1) + k - 1) = Around(x + (k + 1) - 1)
BY DEF Around

(* A received notification was the head of the queue; the tail is left.     *)
LEMMA ReceivedProperties ==
  ASSUME NEW d, NodeOK(d), d.nb # 0, NEW e, e = [d EXCEPT !.nb = @ - 1, !.rcv = (@ + 1) % Ring]
  PROVE  /\ NodeOK(e) /\ Pending(d) # <<>> /\ Pending(e) = Tail(Pending(d))
         /\ d.ring[d.rcv] = Head(Pending(d)) /\ d.ring[d.rcv] \in Ids
         /\ e.nb = d.nb - 1 /\ e.enabled = d.enabled
<1>1. /\ d \in Node /\ Ring \in Nat \ {0} /\ d.rcv \in 0..Ring-1 /\ d.nb \in 1..Ring
      /\ d.pend \in 0..Ring-1 /\ d.ring \in [0..Ring-1 -> Ids \cup {None}]
      /\ d.enabled \in BOOLEAN /\ d.subs \in Seq(Ids)
  BY SizesAssumption DEF NodeOK, Node
<1>2. e = [enabled |-> d.enabled, rcv |-> (d.rcv + 1) % Ring, pend |-> d.pend, nb |-> d.nb - 1,
           ring |-> d.ring, subs |-> d.subs]
  BY <1>1 DEF Node
<1>3. /\ e.rcv = (d.rcv + 1) % Ring /\ e.pend = d.pend /\ e.nb = d.nb - 1 /\ e.subs = d.subs
      /\ e.ring = d.ring /\ e.enabled = d.enabled
  BY <1>2
<1>4. e.rcv = Around(d.rcv + 1) /\ e.rcv \in 0..Ring-1
  <2>1. 1 \in 0..Ring
    BY <1>1
  <2> QED BY <1>1, <1>3, <2>1, Round
<1>5. e \in Node
  <2>1. e.nb \in 0..Ring
    BY <1>1, <1>3
  <2> QED BY <1>1, <1>2, <1>3, <1>4, <2>1 DEF Node
<1>6. /\ Pending(d) \in Seq(Ids) /\ Len(Pending(d)) = d.nb
      /\ \A k \in 1..d.nb : Pending(d)[k] = d.ring[Around(d.rcv + k - 1)]
  BY <1>1, PendingProperties DEF NodeOK, RingOK
<1>7. d.ring[d.rcv] = Pending(d)[1] /\ Pending(d) # <<>>
  <2>1. Around(d.rcv + 1 - 1) = d.rcv
    BY <1>1 DEF Around
  <2> QED BY <1>1, <1>6, <2>1
<1>8. Head(Pending(d)) = Pending(d)[1] /\ Pending(d)[1] \in Ids
  BY <1>1, <1>6
<1>9. Pending(e) = Tail(Pending(d))
  <2>1. /\ Tail(Pending(d)) \in Seq(Ids) /\ Len(Tail(Pending(d))) = d.nb - 1
        /\ \A k \in 1..d.nb-1 : Tail(Pending(d))[k] = Pending(d)[k+1]
    BY <1>6, <1>7, HeadTailProperties
  <2>2. /\ Pending(e) \in Seq(Ids \cup {None}) /\ Len(Pending(e)) = d.nb - 1
        /\ \A k \in 1..d.nb-1 : Pending(e)[k] = d.ring[Around(e.rcv + k - 1)]
    BY <1>3, <1>5, PendingProperties
  <2>3. \A k \in 1..d.nb-1 : Around(e.rcv + k - 1) = Around(d.rcv + (k + 1) - 1)
    <3> TAKE k \in 1..d.nb-1
    <3>1. k \in 1..Ring-1
      BY <1>1
    <3> QED BY <1>1, <1>4, <3>1, AroundFromNext
  <2>4. \A k \in 1..d.nb-1 : Pending(e)[k] = Tail(Pending(d))[k]
    <3> TAKE k \in 1..d.nb-1
    <3>1. k + 1 \in 1..d.nb
      BY <1>1
    <3> QED BY <1>6, <2>1, <2>2, <2>3, <3>1
  <2>5. Tail(Pending(d)) \in Seq(Ids \cup {None})
    BY <2>1, SeqMonotonic
  <2> QED BY <2>1, <2>2, <2>4, <2>5, SeqEqual
<1>10. Pending(e) \in Seq(Ids)
  BY <1>6, <1>7, <1>9, HeadTailProperties
<1>11. e.pend = (e.rcv + e.nb) % Ring
  <2>1. d.nb - 1 \in 0..Ring /\ d.nb \in 0..Ring
    BY <1>1
  <2>2. (e.rcv + (d.nb - 1)) % Ring = Around(e.rcv + (d.nb - 1))
    BY <1>4, <2>1, Round
  <2>3. (d.rcv + d.nb) % Ring = Around(d.rcv + d.nb)
    BY <1>1, <2>1, Round
  <2>4. Around(Around(d.rcv + 1) + (d.nb - 1)) = Around(d.rcv + d.nb)
    BY <1>1, SMTT(30) DEF Around
  <2> QED BY <1>3, <1>4, <2>2, <2>3, <2>4 DEF NodeOK, RingOK
<1> QED BY <1>3, <1>5, <1>7, <1>8, <1>9, <1>10, <1>11 DEF NodeOK, RingOK, Subscribed

(* Unsubscribing removes one notification and keeps the others.             *)
LEMMA WithoutProperties ==
  ASSUME NEW subs \in Seq(Ids), IsInjective(subs), NEW id, id \in ToSet(subs)
  PROVE  /\ Without(subs, id) \in Seq(Ids) /\ IsInjective(Without(subs, id))
         /\ Len(Without(subs, id)) = Len(subs) - 1
<1> DEFINE w == Without(subs, id)
           f(k) == IF subs[k] = id THEN Last(subs) ELSE subs[k]
<1>1. PICK i \in 1..Len(subs) : subs[i] = id
  BY DEF ToSet
<1>2. Len(subs) \in Nat \ {0} /\ Last(subs) = subs[Len(subs)] /\ Last(subs) \in Ids
  BY <1>1 DEF Last
<1>3. w = [k \in 1..Len(subs)-1 |-> f(k)]
  BY DEF Without
<1>4. \A k \in 1..Len(subs)-1 : f(k) \in Ids
  BY <1>2
<1>5. \A j, k \in 1..Len(subs)-1 : f(j) = f(k) => j = k
  BY <1>2 DEF IsInjective
<1> HIDE DEF f
<1>6. w \in Seq(Ids) /\ Len(w) = Len(subs) - 1 /\ \A k \in 1..Len(subs)-1 : w[k] = f(k)
  BY <1>2, <1>3, <1>4
<1>7. IsInjective(w)
  BY <1>2, <1>3, <1>5, <1>6 DEF IsInjective
<1> QED BY <1>6, <1>7

---------------------------------------------------------------------------
(* What a step of sm or of a process may be                                 *)

(* Nothing is known of a process sm has not registered, and a process that  *)
(* has acquired its semaphore has enabled its notifications.                *)
UnregisteredIsBlank ==
  \A p \in Pids : /\ ~Registered(p) => data[p] = Blank /\ sem[p] = 0 /\ ~owed[p]
                  /\ owed[p] => data[p].enabled
IInv == TypeOK /\ (\A p \in Pids : RingOK(data[p])) /\ UnregisteredIsBlank

Answers == /\ result' \in Results
           /\ UNCHANGED <<inUse, data, sem, owed>>
Enters(p) == /\ ~Registered(p) /\ Len(inUse) < NProcs
             /\ inUse' = <<p>> \o inUse
             /\ \E node \in {Blank, [Blank EXCEPT !.enabled = TRUE]} :
                  data' = [data EXCEPT ![p] = node]
             /\ result' = "ok" /\ UNCHANGED <<sem, owed>>
Ends(p) == /\ Registered(p) /\ inUse' = RemoveAt(inUse, Place(p))
           /\ data' = [data EXCEPT ![p] = Blank]
           /\ sem' = [sem EXCEPT ![p] = 0] /\ owed' = [owed EXCEPT ![p] = FALSE]
           /\ result' = "ok"
Changes(p) == /\ Registered(p)
              /\ \E e : /\ NodeOK(e) /\ SameRing(data[p], e)
                        /\ data[p].enabled => e.enabled
                        /\ data' = [data EXCEPT ![p] = e]
              /\ result' = "ok" /\ UNCHANGED <<inUse, sem, owed>>
Delivers(reached, id) ==
  /\ \A p \in reached : /\ Registered(p) /\ data[p].enabled
                        /\ data[p].nb < Ring /\ sem[p] # Ring
  /\ data' = [p \in Pids |-> IF p \in reached THEN Put(data[p], id) ELSE data[p]]
  /\ sem' = [p \in Pids |-> IF p \in reached THEN sem[p] + 1 ELSE sem[p]]
  /\ result' \in {"ok", "full"} /\ UNCHANGED <<inUse, owed>>

(* A publication ends in an answer or reaches some of its targets.          *)
LEMMA PublishKinds ==
  ASSUME NEW T \in SUBSET Pids, \A p \in T : Enabled(p), NEW id \in Ids, NEW flags,
         Publish(T, id, flags)
  PROVE  Answers \/ \E reached \in SUBSET Pids : Delivers(reached, id)
<1> DEFINE before == UntilRefusal(T, id, flags)
           reached == {p \in before : Takes(p, id, flags)}
<1>1. CASE \E p \in reached : sem[p] = Ring
  BY <1>1 DEF Publish, Panic, Answers, Results
<1>2. CASE ~\E p \in reached : sem[p] = Ring
  <2>1. /\ data' = [p \in Pids |-> IF p \in reached THEN Put(data[p], id) ELSE data[p]]
        /\ sem' = [p \in Pids |-> IF p \in reached THEN sem[p] + 1 ELSE sem[p]]
        /\ result' \in {"ok", "full"} /\ UNCHANGED <<inUse, owed>>
    BY <1>2 DEF Publish
  <2>2. reached \in SUBSET T
    BY DEF UntilRefusal
  <2>3. \A p \in reached : data[p].nb < Ring
    BY DEF Takes, Room
  <2>4. Delivers(reached, id)
    BY <1>2, <2>1, <2>2, <2>3 DEF Delivers, Enabled
  <2> QED BY <2>2, <2>4
<1> QED BY <1>1, <1>2

(* The commands that change one node leave its ring alone.                  *)
LEMMA SubscriptionKinds ==
  ASSUME IInv, NEW p \in Pids, NEW id \in Ids, Subscribe(p, id) \/ Unsubscribe(p, id)
  PROVE  Answers \/ Changes(p)
<1> DEFINE d == data[p]
<1>1. NodeOK(d)
  BY DEF IInv, TypeOK, NodeOK, Subscribed
<1>2. d \in Node /\ d.subs \in Seq(Ids) /\ IsInjective(d.subs) /\ Len(d.subs) <= MaxSubs
      /\ MaxSubs \in Nat
  BY <1>1, SizesAssumption DEF NodeOK, Node, Subscribed
<1>3. ASSUME NEW s \in Seq(Ids), IsInjective(s), Len(s) <= MaxSubs, Registered(p),
             NEW e, e = [d EXCEPT !.subs = s],
             data' = [data EXCEPT ![p] = e], result' = "ok", UNCHANGED <<inUse, sem, owed>>
      PROVE  Changes(p)
  <2>1. e \in Node /\ SameRing(d, e) /\ e.enabled = d.enabled /\ e.subs = s
    BY <1>2, <1>3 DEF Node, SameRing
  <2>2. RingOK(e)
    BY <1>1, <1>2, <2>1, SameQueue DEF NodeOK
  <2>3. NodeOK(e)
    BY <1>3, <2>1, <2>2 DEF NodeOK, Subscribed
  <2> QED BY <1>3, <2>1, <2>3 DEF Changes
<1>4. CASE Subscribe(p, id) /\ ~Answers
  <2>1. /\ Enabled(p) /\ id \notin ToSet(d.subs) /\ Len(d.subs) # MaxSubs
        /\ data' = [data EXCEPT ![p] = [d EXCEPT !.subs = Append(d.subs, id)]]
        /\ result' = "ok" /\ UNCHANGED <<inUse, sem, owed>>
    BY <1>4 DEF Subscribe, Fails, Answers, Results, IInv, TypeOK
  <2>2. /\ Append(d.subs, id) \in Seq(Ids) /\ Len(Append(d.subs, id)) = Len(d.subs) + 1
        /\ \A i \in 1..Len(d.subs) : Append(d.subs, id)[i] = d.subs[i]
        /\ Append(d.subs, id)[Len(d.subs) + 1] = id
    BY <1>2, AppendProperties
  <2>3. IsInjective(Append(d.subs, id)) /\ Len(Append(d.subs, id)) <= MaxSubs
    BY <1>2, <2>1, <2>2 DEF IsInjective, ToSet
  <2> QED BY <1>3, <2>1, <2>2, <2>3 DEF Enabled
<1>5. CASE Unsubscribe(p, id) /\ ~Answers
  <2>1. /\ Enabled(p) /\ id \in ToSet(d.subs)
        /\ data' = [data EXCEPT ![p] = [d EXCEPT !.subs = Without(d.subs, id)]]
        /\ result' = "ok" /\ UNCHANGED <<inUse, sem, owed>>
    BY <1>5 DEF Unsubscribe, Fails, Answers, Results, IInv, TypeOK
  <2>2. /\ Without(d.subs, id) \in Seq(Ids) /\ IsInjective(Without(d.subs, id))
        /\ Len(Without(d.subs, id)) = Len(d.subs) - 1
    BY <1>2, <2>1, WithoutProperties
  <2>3. Len(Without(d.subs, id)) <= MaxSubs
    BY <1>2, <2>2
  <2> QED BY <1>3, <2>1, <2>2, <2>3 DEF Enabled
<1> QED BY <1>4, <1>5

(* Every step, sorted by what it does to the rings and the semaphores.      *)
LEMMA StepKinds ==
  ASSUME IInv, Next
  PROVE  \/ Answers
         \/ \E p \in Pids : Enters(p) \/ Ends(p) \/ Changes(p)
                            \/ Acquire(p) \/ ReceiveNotification(p)
         \/ \E reached \in SUBSET Pids, id \in Ids : Delivers(reached, id)
<1>0. inUse \in Seq(Pids) /\ Len(inUse) <= NProcs /\ NProcs \in Nat
      /\ data \in [Pids -> Node] /\ \A p \in Pids : NodeOK(data[p])
  BY SizesAssumption DEF IInv, TypeOK, NodeOK, Subscribed
<1>1. ASSUME NEW p \in Pids, NEW node \in {Blank, [Blank EXCEPT !.enabled = TRUE]},
             ~Registered(p), doRegisterProcess(p, node)
      PROVE  Answers \/ Enters(p)
  <2>1. CASE Len(inUse) = NProcs
    BY <1>1, <2>1 DEF doRegisterProcess, Panic, Answers, Results
  <2>2. CASE Len(inUse) # NProcs
    <3>1. Len(inUse) < NProcs
      BY <1>0, <2>2
    <3> QED BY <1>1, <2>2, <3>1 DEF doRegisterProcess, Enters
  <2> QED BY <2>1, <2>2
<1>2. ASSUME NEW p \in Pids, RegisterProcess(p)
      PROVE  Answers \/ Enters(p)
  BY <1>1, <1>2 DEF RegisterProcess, Fails, Answers, Results
<1>3. ASSUME NEW p \in Pids, UnregisterProcess(p)
      PROVE  Answers \/ Ends(p)
  BY <1>3 DEF UnregisterProcess, Fails, Answers, Ends, Results
<1>4. ASSUME NEW p \in Pids, EnableNotification(p)
      PROVE  Answers \/ Enters(p) \/ Changes(p)
  <2>1. CASE Registered(p)
    <3> DEFINE e == [data[p] EXCEPT !.enabled = TRUE]
    <3>1. e \in Node /\ SameRing(data[p], e) /\ e.enabled /\ e.subs = data[p].subs
      BY <1>0 DEF Node, SameRing
    <3>2. NodeOK(e)
      BY <1>0, <3>1, SameQueue DEF NodeOK, Subscribed
    <3>3. data' = [data EXCEPT ![p] = e] /\ result' = "ok" /\ UNCHANGED <<inUse, sem, owed>>
      BY <1>0, <1>4, <2>1 DEF EnableNotification
    <3> HIDE DEF e
    <3> QED BY <2>1, <3>1, <3>2, <3>3 DEF Changes
  <2>2. CASE ~Registered(p)
    BY <1>1, <1>4, <2>2 DEF EnableNotification, Fails, Answers, Results
  <2> QED BY <2>1, <2>2
<1>5. ASSUME NEW p \in Pids, NEW id \in Ids,
             Subscribe(p, id) \/ Unsubscribe(p, id) \/ PublishToProcess(p, id)
      PROVE  Answers \/ Changes(p) \/ \E reached \in SUBSET Pids : Delivers(reached, id)
  <2>1. CASE PublishToProcess(p, id)
    <3>1. CASE Enabled(p)
      <4>1. {p} \in SUBSET Pids /\ (\A q \in {p} : Enabled(q)) /\ Publish({p}, id, 0)
        BY <2>1, <3>1 DEF PublishToProcess
      <4> QED BY <4>1, PublishKinds
    <3>2. CASE ~Enabled(p)
      BY <2>1, <3>2 DEF PublishToProcess, Fails, Answers, Results
    <3> QED BY <3>1, <3>2
  <2> QED BY <1>5, <2>1, SubscriptionKinds
<1>6. ASSUME NEW id \in Ids, NEW flags, PublishToSubscriber(id, flags) \/ PublishAndGetSubscriber(id)
      PROVE  Answers \/ \E reached \in SUBSET Pids : Delivers(reached, id)
  <2>1. Subscribers(id) \in SUBSET Pids /\ \A p \in Subscribers(id) : Enabled(p)
    BY <1>0 DEF Subscribers, Enabled, Registered, ToSet
  <2>2. Publish(Subscribers(id), id, flags) \/ Publish(Subscribers(id), id, 0)
    BY <1>6 DEF PublishToSubscriber, PublishAndGetSubscriber
  <2> QED BY <2>1, <2>2, PublishKinds
<1>7. ASSUME NEW id \in Ids, PublishToAll(id)
      PROVE  Answers \/ \E reached \in SUBSET Pids : Delivers(reached, id)
  <2> DEFINE T == {p \in ToSet(inUse) : data[p].enabled}
  <2>1. T \in SUBSET Pids /\ \A p \in T : Enabled(p)
    BY <1>0 DEF Enabled, Registered, ToSet
  <2>2. Publish(T, id, 0)
    BY <1>7 DEF PublishToAll
  <2> HIDE DEF T
  <2> QED BY <2>1, <2>2, PublishKinds
<1> QED BY <1>2, <1>3, <1>4, <1>5, <1>6, <1>7 DEF Next

---------------------------------------------------------------------------
(* The invariant                                                            *)

LEMMA InitStep ==
  Init => IInv
<1> SUFFICES ASSUME Init PROVE IInv
  OBVIOUS
<1>1. TypeOK
  <2>1. data \in [Pids -> Node] /\ \A p \in Pids : Subscribed(data[p])
    BY BlankProperties DEF Init, NodeOK
  <2>2. inUse \in Seq(Pids) /\ IsInjective(inUse) /\ Len(inUse) <= NProcs
    BY SizesAssumption DEF Init, IsInjective
  <2>3. sem \in [Pids -> 0..Ring] /\ owed \in [Pids -> BOOLEAN] /\ result \in Results \cup Ids
    <3>1. 0 \in 0..Ring
      BY SizesAssumption
    <3>2. "none" \in Results
      BY DEF Results
    <3> QED BY <3>1, <3>2 DEF Init
  <2> QED BY <2>1, <2>2, <2>3 DEF TypeOK, Subscribed
<1>2. \A p \in Pids : RingOK(data[p])
  BY BlankProperties DEF Init, NodeOK
<1>3. UnregisteredIsBlank
  BY DEF Init, UnregisteredIsBlank, Registered
<1> QED BY <1>1, <1>2, <1>3 DEF IInv

(* Registered processes after the process list has grown or shrunk.         *)
LEMMA EntersProperties ==
  ASSUME IInv, NEW p \in Pids, Enters(p)
  PROVE  /\ inUse' \in Seq(Pids) /\ IsInjective(inUse') /\ Len(inUse') <= NProcs
         /\ \A q \in Pids : Registered(q)' <=> Registered(q) \/ q = p
<1>1. inUse \in Seq(Pids) /\ IsInjective(inUse) /\ <<p>> \in Seq(Pids) /\ Len(<<p>>) = 1 /\ <<p>>[1] = p
  BY DEF IInv, TypeOK
<1>2. /\ inUse' \in Seq(Pids) /\ Len(inUse') = 1 + Len(inUse)
      /\ \A k \in 1..1+Len(inUse) : inUse'[k] = IF k <= 1 THEN <<p>>[k] ELSE inUse[k-1]
  BY <1>1, ConcatProperties DEF Enters
<1>3. inUse'[1] = p /\ \A k \in 1..Len(inUse) : inUse'[k+1] = inUse[k]
  BY <1>1, <1>2
<1>4. \A k \in 2..1+Len(inUse) : k-1 \in 1..Len(inUse) /\ inUse'[k] = inUse[k-1]
  BY <1>1, <1>2
<1>5. \A k \in 1..Len(inUse) : inUse[k] # p
  BY <1>1 DEF Enters, Registered, ToSet
<1>9. \A j, k \in 1..Len(inUse) : inUse[j] = inUse[k] => j = k
  BY <1>1 DEF IsInjective
<1>6. IsInjective(inUse')
  <2>1. ASSUME NEW j \in 1..1+Len(inUse), NEW k \in 1..1+Len(inUse), inUse'[j] = inUse'[k], j # 1
        PROVE  j = k
    <3>1. j \in 2..1+Len(inUse) /\ j-1 \in 1..Len(inUse) /\ inUse'[j] = inUse[j-1]
      BY <1>1, <1>4, <2>1
    <3>2. CASE k = 1
      BY <1>3, <1>5, <2>1, <3>1, <3>2
    <3>3. CASE k # 1
      <4>1. k \in 2..1+Len(inUse) /\ k-1 \in 1..Len(inUse) /\ inUse'[k] = inUse[k-1]
        BY <1>1, <1>4, <3>3
      <4>2. j-1 = k-1
        BY <1>9, <2>1, <3>1, <4>1
      <4> QED BY <3>1, <4>1, <4>2
    <3> QED BY <3>2, <3>3
  <2>2. ASSUME NEW j \in 1..1+Len(inUse), NEW k \in 1..1+Len(inUse), inUse'[j] = inUse'[k]
        PROVE  j = k
    BY <2>1, <2>2
  <2> QED BY <1>2, <2>2 DEF IsInjective
<1>7. \A q \in Pids : Registered(q)' <=> Registered(q) \/ q = p
  <2> TAKE q \in Pids
  <2>1. Registered(q) <=> \E k \in 1..Len(inUse) : inUse[k] = q
    BY <1>1 DEF Registered, ToSet
  <2>2. Registered(q)' <=> \E k \in 1..1+Len(inUse) : inUse'[k] = q
    BY <1>2, SMTT(30) DEF Registered, ToSet
  <2>3. \A k \in 1..1+Len(inUse) : k = 1 \/ k \in 2..1+Len(inUse)
    BY <1>1
  <2>4. 1 \in 1..1+Len(inUse) /\ \A k \in 1..Len(inUse) : k+1 \in 1..1+Len(inUse)
    BY <1>1
  <2> QED BY <2>1, <2>2, <2>3, <2>4, <1>3, <1>4
<1>8. Len(inUse') <= NProcs
  BY <1>1, <1>2, SizesAssumption DEF Enters
<1> QED BY <1>2, <1>6, <1>7, <1>8

LEMMA EndsProperties ==
  ASSUME IInv, NEW p \in Pids, Ends(p)
  PROVE  /\ inUse' \in Seq(Pids) /\ IsInjective(inUse') /\ Len(inUse') <= NProcs
         /\ \A q \in Pids : Registered(q)' <=> Registered(q) /\ q # p
<1> DEFINE i == Place(p)
<1>1. inUse \in Seq(Pids) /\ IsInjective(inUse) /\ Len(inUse) <= NProcs /\ NProcs \in Nat
  BY SizesAssumption DEF IInv, TypeOK
<1>2. i \in 1..Len(inUse) /\ inUse[i] = p
  <2>1. \E k \in DOMAIN inUse : inUse[k] = p
    BY DEF Ends, Registered, ToSet
  <2> QED BY <1>1, <2>1 DEF Place
<1>3. inUse' = RemoveAt(inUse, i)
  BY DEF Ends
<1> HIDE DEF i
<1>4. /\ inUse' \in Seq(Pids) /\ Len(inUse') = Len(inUse) - 1
      /\ \A k \in 1..Len(inUse)-1 : inUse'[k] = IF k < i THEN inUse[k] ELSE inUse[k+1]
  BY <1>1, <1>2, <1>3, RemoveAtProperties
<1>5. \A k \in 1..Len(inUse)-1 : k \in 1..Len(inUse) /\ k+1 \in 1..Len(inUse)
  BY <1>1
<1>8. \A j, k \in 1..Len(inUse) : inUse[j] = inUse[k] => j = k
  BY <1>1 DEF IsInjective
<1>9. \A k \in 1..Len(inUse)-1 : /\ k < i => inUse'[k] = inUse[k]
                                 /\ ~(k < i) => inUse'[k] = inUse[k+1] /\ k >= i
  BY <1>1, <1>2, <1>4
<1>6. IsInjective(inUse')
  <2>1. ASSUME NEW j \in 1..Len(inUse)-1, NEW k \in 1..Len(inUse)-1, inUse'[j] = inUse'[k]
        PROVE  j = k
    <3>1. CASE j < i /\ k < i
      BY <1>5, <1>8, <1>9, <2>1, <3>1
    <3>2. CASE j < i /\ ~(k < i)
      <4>1. j = k+1
        BY <1>5, <1>8, <1>9, <2>1, <3>2
      <4> QED BY <1>1, <1>2, <3>2, <4>1
    <3>3. CASE ~(j < i) /\ k < i
      <4>1. j+1 = k
        BY <1>5, <1>8, <1>9, <2>1, <3>3
      <4> QED BY <1>1, <1>2, <3>3, <4>1
    <3>4. CASE ~(j < i) /\ ~(k < i)
      <4>1. j+1 = k+1
        BY <1>5, <1>8, <1>9, <2>1, <3>4
      <4> QED BY <4>1
    <3> QED BY <3>1, <3>2, <3>3, <3>4
  <2> QED BY <1>1, <1>4, <2>1 DEF IsInjective
<1>7. \A q \in Pids : Registered(q)' <=> Registered(q) /\ q # p
  <2> TAKE q \in Pids
  <2>1. Registered(q) <=> \E k \in 1..Len(inUse) : inUse[k] = q
    BY <1>1 DEF Registered, ToSet
  <2>2. Registered(q)' <=> \E k \in 1..Len(inUse)-1 : inUse'[k] = q
    BY <1>1, <1>4 DEF Registered, ToSet
  <2>3. ASSUME NEW k \in 1..Len(inUse)-1 PROVE inUse'[k] # p
    <3>1. CASE k < i
      <4>1. inUse'[k] = inUse[k] /\ k # i
        BY <1>2, <1>9, <3>1
      <4> QED BY <1>2, <1>5, <1>8, <4>1
    <3>2. CASE ~(k < i)
      <4>1. inUse'[k] = inUse[k+1] /\ k+1 # i
        BY <1>1, <1>2, <1>9, <3>2
      <4> QED BY <1>2, <1>5, <1>8, <4>1
    <3> QED BY <3>1, <3>2
  <2>4. ASSUME NEW k \in 1..Len(inUse), inUse[k] = q, q # p
        PROVE  \E j \in 1..Len(inUse)-1 : inUse'[j] = q
    <3>1. CASE k < i
      <4>1. k \in 1..Len(inUse)-1
        BY <1>1, <1>2, <3>1
      <4> QED BY <1>4, <2>4, <3>1, <4>1
    <3>2. CASE k > i
      <4>1. k-1 \in 1..Len(inUse)-1 /\ ~(k-1 < i) /\ k-1+1 = k
        BY <1>1, <1>2, <3>2
      <4>2. inUse'[k-1] = inUse[k]
        BY <1>4, <4>1
      <4> QED BY <2>4, <4>1, <4>2
    <3> QED BY <1>1, <1>2, <2>4, <3>1, <3>2
  <2>5. ASSUME NEW k \in 1..Len(inUse)-1, inUse'[k] = q
        PROVE  \E j \in 1..Len(inUse) : inUse[j] = q
    BY <1>4, <1>5, <2>5
  <2> QED BY <2>1, <2>2, <2>3, <2>4, <2>5
<1> QED BY <1>1, <1>4, <1>6, <1>7

(* One lemma for what each kind of step does to the table of processes ...  *)
LEMMA TableStep ==
  ASSUME IInv, [Next]_vars
  PROVE  inUse' \in Seq(Pids) /\ IsInjective(inUse') /\ Len(inUse') <= NProcs
<1>1. inUse \in Seq(Pids) /\ IsInjective(inUse) /\ Len(inUse) <= NProcs
  BY DEF IInv, TypeOK
<1>2. CASE UNCHANGED inUse
  BY <1>1, <1>2
<1>3. CASE inUse' # inUse
  <2>1. \E p \in Pids : Enters(p) \/ Ends(p)
    BY <1>3, StepKinds DEF vars, Answers, Changes, Acquire, ReceiveNotification, Delivers
  <2> QED BY <2>1, EntersProperties, EndsProperties
<1> QED BY <1>2, <1>3

(* ... and one for what it does to the nodes.                               *)
LEMMA NodeStep ==
  ASSUME IInv, [Next]_vars
  PROVE  data' \in [Pids -> Node] /\ \A p \in Pids : NodeOK(data'[p])
<1>1. data \in [Pids -> Node] /\ \A p \in Pids : NodeOK(data[p])
  BY DEF IInv, TypeOK, NodeOK, Subscribed
<1>2. ASSUME NEW p \in Pids, NEW e, NodeOK(e), data' = [data EXCEPT ![p] = e]
      PROVE  data' \in [Pids -> Node] /\ \A q \in Pids : NodeOK(data'[q])
  <2>1. e \in Node
    BY <1>2 DEF NodeOK
  <2> QED BY <1>1, <1>2, <2>1
<1>3. CASE UNCHANGED data
  BY <1>1, <1>3
<1>4. ASSUME NEW p \in Pids, Enters(p) \/ Ends(p) \/ Changes(p)
      PROVE  data' \in [Pids -> Node] /\ \A q \in Pids : NodeOK(data'[q])
  BY <1>2, <1>4, BlankProperties DEF Enters, Ends, Changes
<1>5. ASSUME NEW p \in Pids, ReceiveNotification(p), data' # data
      PROVE  data' \in [Pids -> Node] /\ \A q \in Pids : NodeOK(data'[q])
  <2> DEFINE e == [data[p] EXCEPT !.nb = @ - 1, !.rcv = (@ + 1) % Ring]
  <2>1. data[p].nb # 0 /\ data' = [data EXCEPT ![p] = e]
    BY <1>1, <1>5 DEF ReceiveNotification
  <2>2. NodeOK(e)
    BY <1>1, <2>1, ReceivedProperties
  <2> HIDE DEF e
  <2> QED BY <1>2, <2>1, <2>2
<1>6. ASSUME NEW reached \in SUBSET Pids, NEW id \in Ids, Delivers(reached, id)
      PROVE  data' \in [Pids -> Node] /\ \A q \in Pids : NodeOK(data'[q])
  <2>1. \A p \in reached : NodeOK(Put(data[p], id))
    BY <1>1, <1>6, PutProperties DEF Delivers
  <2>2. \A p \in Pids : NodeOK(IF p \in reached THEN Put(data[p], id) ELSE data[p])
    BY <1>1, <2>1
  <2>3. data' = [p \in Pids |-> IF p \in reached THEN Put(data[p], id) ELSE data[p]]
    BY <1>6 DEF Delivers
  <2> QED BY <2>2, <2>3 DEF NodeOK
<1> QED BY <1>3, <1>4, <1>5, <1>6, StepKinds DEF vars, Answers, Acquire

(* The kernel's count never exceeds the maximum of the semaphore.           *)
LEMMA SemaphoreStep ==
  ASSUME IInv, [Next]_vars
  PROVE  sem' \in [Pids -> 0..Ring] /\ owed' \in [Pids -> BOOLEAN] /\ result' \in Results \cup Ids
<1>1. /\ sem \in [Pids -> 0..Ring] /\ owed \in [Pids -> BOOLEAN] /\ result \in Results \cup Ids
      /\ Ring \in Nat \ {0} /\ \A p \in Pids : NodeOK(data[p])
  BY SizesAssumption DEF IInv, TypeOK, NodeOK, Subscribed
<1>2. {"ok", "full", "not found"} \subseteq Results
  BY DEF Results
<1>3. CASE Answers \/ UNCHANGED vars \/ \E p \in Pids : Enters(p) \/ Changes(p)
  BY <1>1, <1>2, <1>3 DEF Answers, vars, Enters, Changes
<1>4. ASSUME NEW p \in Pids, Ends(p)
      PROVE  sem' \in [Pids -> 0..Ring] /\ owed' \in [Pids -> BOOLEAN] /\ result' \in Results \cup Ids
  <2>1. 0 \in 0..Ring
    BY <1>1
  <2> QED BY <1>1, <1>2, <1>4, <2>1 DEF Ends
<1>5. ASSUME NEW p \in Pids, Acquire(p)
      PROVE  sem' \in [Pids -> 0..Ring] /\ owed' \in [Pids -> BOOLEAN] /\ result' \in Results \cup Ids
  <2>1. sem[p] - 1 \in 0..Ring
    BY <1>1, <1>5 DEF Acquire
  <2> QED BY <1>1, <1>5, <2>1 DEF Acquire
<1>6. ASSUME NEW p \in Pids, ReceiveNotification(p)
      PROVE  sem' \in [Pids -> 0..Ring] /\ owed' \in [Pids -> BOOLEAN] /\ result' \in Results \cup Ids
  <2>1. data[p].nb # 0 => data[p].ring[data[p].rcv] \in Ids
    BY <1>1, ReceivedProperties
  <2> QED BY <1>1, <1>2, <1>6, <2>1 DEF ReceiveNotification
<1>7. ASSUME NEW reached \in SUBSET Pids, NEW id \in Ids, Delivers(reached, id)
      PROVE  sem' \in [Pids -> 0..Ring] /\ owed' \in [Pids -> BOOLEAN] /\ result' \in Results \cup Ids
  <2>1. \A p \in reached : sem[p] + 1 \in 0..Ring
    BY <1>1, <1>7 DEF Delivers
  <2> QED BY <1>1, <1>2, <1>7, <2>1 DEF Delivers
<1> QED BY <1>3, <1>4, <1>5, <1>6, <1>7, StepKinds

LEMMA BlankStep ==
  ASSUME IInv, [Next]_vars
  PROVE  UnregisteredIsBlank'
<1>1. /\ data \in [Pids -> Node] /\ sem \in [Pids -> 0..Ring] /\ owed \in [Pids -> BOOLEAN]
      /\ \A p \in Pids : NodeOK(data[p])
      /\ \A p \in Pids : /\ ~Registered(p) => data[p] = Blank /\ sem[p] = 0 /\ ~owed[p]
                         /\ owed[p] => data[p].enabled
  BY DEF IInv, TypeOK, NodeOK, Subscribed, UnregisteredIsBlank
<1>2. CASE Answers \/ UNCHANGED vars
  BY <1>1, <1>2 DEF Answers, vars, UnregisteredIsBlank, Registered
<1>3. ASSUME NEW p \in Pids, Enters(p) PROVE UnregisteredIsBlank'
  <2>1. \A q \in Pids : Registered(q)' <=> Registered(q) \/ q = p
    BY <1>3, EntersProperties
  <2>2. ~owed[p] /\ UNCHANGED <<sem, owed>> /\ \A q \in Pids \ {p} : data'[q] = data[q]
    BY <1>1, <1>3 DEF Enters
  <2> QED BY <1>1, <2>1, <2>2 DEF UnregisteredIsBlank
<1>4. ASSUME NEW p \in Pids, Ends(p) PROVE UnregisteredIsBlank'
  <2>1. \A q \in Pids : Registered(q)' <=> Registered(q) /\ q # p
    BY <1>4, EndsProperties
  <2>2. data'[p] = Blank /\ sem'[p] = 0 /\ owed'[p] = FALSE
        /\ \A q \in Pids \ {p} : data'[q] = data[q] /\ sem'[q] = sem[q] /\ owed'[q] = owed[q]
    BY <1>1, <1>4 DEF Ends
  <2> QED BY <1>1, <2>1, <2>2 DEF UnregisteredIsBlank
<1>5. ASSUME NEW p \in Pids, Changes(p) PROVE UnregisteredIsBlank'
  <2>1. PICK e : data' = [data EXCEPT ![p] = e] /\ (data[p].enabled => e.enabled)
    BY <1>5 DEF Changes
  <2>2. Registered(p) /\ UNCHANGED <<inUse, sem, owed>> /\ data'[p] = e
        /\ \A q \in Pids \ {p} : data'[q] = data[q]
    BY <1>1, <1>5, <2>1 DEF Changes
  <2>3. \A q \in Pids : Registered(q)' <=> Registered(q)
    BY <2>2 DEF Registered
  <2> QED BY <1>1, <2>1, <2>2, <2>3 DEF UnregisteredIsBlank
<1>6. ASSUME NEW p \in Pids, Acquire(p) PROVE UnregisteredIsBlank'
  <2>1. Registered(p) /\ data[p].enabled /\ UNCHANGED <<inUse, data>>
        /\ \A q \in Pids \ {p} : sem'[q] = sem[q] /\ owed'[q] = owed[q]
    BY <1>1, <1>6 DEF Acquire, Enabled
  <2>2. \A q \in Pids : Registered(q)' <=> Registered(q)
    BY <2>1 DEF Registered
  <2> QED BY <1>1, <2>1, <2>2 DEF UnregisteredIsBlank
<1>7. ASSUME NEW p \in Pids, ReceiveNotification(p) PROVE UnregisteredIsBlank'
  <2>1. UNCHANGED <<inUse, sem>> /\ owed'[p] = FALSE /\ \A q \in Pids \ {p} : owed'[q] = owed[q]
    BY <1>1, <1>7 DEF ReceiveNotification
  <2>2. (\A q \in Pids \ {p} : data'[q] = data[q]) /\ (~Registered(p) => data'[p] = data[p])
    BY <1>1, <1>7 DEF ReceiveNotification, Enabled
  <2>3. \A q \in Pids : Registered(q)' <=> Registered(q)
    BY <2>1 DEF Registered
  <2> QED BY <1>1, <2>1, <2>2, <2>3 DEF UnregisteredIsBlank
<1>8. ASSUME NEW reached \in SUBSET Pids, NEW id \in Ids, Delivers(reached, id)
      PROVE  UnregisteredIsBlank'
  <2>1. \A q \in Pids : Registered(q)' <=> Registered(q)
    BY <1>8 DEF Registered, Delivers
  <2>2. \A q \in reached : Registered(q) /\ data'[q].enabled = data[q].enabled
    BY <1>1, <1>8, PutProperties DEF Delivers
  <2>3. UNCHANGED owed /\ \A q \in Pids \ reached : data'[q] = data[q] /\ sem'[q] = sem[q]
    BY <1>8 DEF Delivers
  <2> QED BY <1>1, <2>1, <2>2, <2>3 DEF UnregisteredIsBlank
<1> QED BY <1>2, <1>3, <1>4, <1>5, <1>6, <1>7, <1>8, StepKinds

LEMMA InductiveStep ==
  IInv /\ [Next]_vars => IInv'
<1> SUFFICES ASSUME IInv, [Next]_vars PROVE IInv'
  OBVIOUS
<1>1. TypeOK'
  BY TableStep, NodeStep, SemaphoreStep DEF TypeOK, NodeOK, Subscribed
<1>2. \A p \in Pids : RingOK(data'[p])
  BY NodeStep DEF NodeOK
<1> QED BY <1>1, <1>2, BlankStep DEF IInv

(* The rings stay queues and the kernel's counts in their range, whatever   *)
(* the processes do (notifications.c, processes.c).                         *)
THEOREM Inductive == Spec => []IInv
BY InitStep, InductiveStep, PTL DEF Spec

(* Every variable of the notifications keeps its type.                      *)
THEOREM TypeCorrect == Spec => []TypeOK
<1>1. IInv => TypeOK
  BY DEF IInv
<1> QED BY <1>1, Inductive, PTL

---------------------------------------------------------------------------
(* The semaphore                                                            *)

Owed(p) == IF owed[p] THEN 1 ELSE 0

(* The semaphore of a process that acquires it before it receives counts    *)
(* its notifications: the release in notifications.c:41 cannot fail.        *)
THEOREM SemaphoreCountsRing ==
  ASSUME WaitFirst
  PROVE  Spec => []SemaphoreMatchesRing
<1> DEFINE Counts == \A p \in Pids : sem[p] + Owed(p) = data[p].nb
<1>1. Init => Counts
  BY DEF Init, Owed, Blank
<1>2. IInv /\ Counts /\ [Next]_vars => Counts'
  <2> SUFFICES ASSUME IInv, Counts, [Next]_vars PROVE Counts'
    OBVIOUS
  <2>1. /\ data \in [Pids -> Node] /\ sem \in [Pids -> 0..Ring] /\ owed \in [Pids -> BOOLEAN]
        /\ Ring \in Nat
        /\ \A p \in Pids : /\ NodeOK(data[p])
                           /\ data[p].nb \in Nat
                           /\ ~Registered(p) => data[p] = Blank /\ sem[p] = 0 /\ ~owed[p]
                           /\ owed[p] => Registered(p) /\ data[p].enabled
    BY SizesAssumption DEF IInv, TypeOK, NodeOK, Subscribed, UnregisteredIsBlank, Node
  <2>2. CASE Answers \/ UNCHANGED vars
    BY <2>2 DEF Answers, vars, Owed
  <2>3. ASSUME NEW p \in Pids, Enters(p) PROVE Counts'
    <3>1. sem[p] = 0 /\ ~owed[p] /\ data'[p].nb = 0
      BY <2>1, <2>3 DEF Enters, Blank
    <3>2. UNCHANGED <<sem, owed>> /\ \A q \in Pids \ {p} : data'[q] = data[q]
      BY <2>1, <2>3 DEF Enters
    <3> QED BY <3>1, <3>2 DEF Owed
  <2>4. ASSUME NEW p \in Pids, Ends(p) PROVE Counts'
    <3>1. sem'[p] = 0 /\ owed'[p] = FALSE /\ data'[p].nb = 0
      BY <2>1, <2>4 DEF Ends, Blank
    <3>2. \A q \in Pids \ {p} : data'[q] = data[q] /\ sem'[q] = sem[q] /\ owed'[q] = owed[q]
      BY <2>1, <2>4 DEF Ends
    <3> QED BY <3>1, <3>2 DEF Owed
  <2>5. ASSUME NEW p \in Pids, Changes(p) PROVE Counts'
    <3>1. PICK e : data' = [data EXCEPT ![p] = e] /\ SameRing(data[p], e)
      BY <2>5 DEF Changes
    <3>2. data'[p].nb = data[p].nb /\ UNCHANGED <<sem, owed>>
          /\ \A q \in Pids \ {p} : data'[q] = data[q]
      BY <2>1, <2>5, <3>1 DEF Changes, SameRing
    <3> QED BY <3>2 DEF Owed
  <2>6. ASSUME NEW p \in Pids, Acquire(p) PROVE Counts'
    <3>1. sem'[p] = sem[p] - 1 /\ ~owed[p] /\ owed'[p] = TRUE /\ UNCHANGED data
          /\ \A q \in Pids \ {p} : sem'[q] = sem[q] /\ owed'[q] = owed[q]
      BY <2>1, <2>6 DEF Acquire
    <3>2. sem'[p] + 1 = data[p].nb
      BY <2>1, <3>1 DEF Owed
    <3> QED BY <3>1, <3>2 DEF Owed
  <2>7. ASSUME NEW p \in Pids, ReceiveNotification(p) PROVE Counts'
    <3>1. owed[p] /\ sem[p] + 1 = data[p].nb /\ Enabled(p) /\ data[p].nb # 0
      <4>1. owed[p]
        BY <2>7, Zenon DEF ReceiveNotification
      <4> QED BY <2>1, <4>1 DEF Owed, Enabled
    <3> DEFINE e == [data[p] EXCEPT !.nb = @ - 1, !.rcv = (@ + 1) % Ring]
    <3>2. data' = [data EXCEPT ![p] = e] /\ owed' = [owed EXCEPT ![p] = FALSE] /\ UNCHANGED sem
      BY <2>1, <2>7, <3>1 DEF ReceiveNotification
    <3>3. e.nb = data[p].nb - 1
      BY <2>1, <3>1, ReceivedProperties
    <3> HIDE DEF e
    <3>4. data'[p].nb = sem[p] /\ owed'[p] = FALSE
          /\ \A q \in Pids \ {p} : data'[q] = data[q] /\ owed'[q] = owed[q]
      BY <2>1, <3>1, <3>2, <3>3
    <3> QED BY <2>1, <3>2, <3>4 DEF Owed
  <2>8. ASSUME NEW reached \in SUBSET Pids, NEW id \in Ids, Delivers(reached, id) PROVE Counts'
    <3>1. \A p \in reached : data'[p].nb = data[p].nb + 1 /\ sem'[p] = sem[p] + 1
      BY <2>1, <2>8, PutProperties DEF Delivers
    <3>2. UNCHANGED owed /\ \A p \in Pids \ reached : data'[p] = data[p] /\ sem'[p] = sem[p]
      BY <2>8 DEF Delivers
    <3> QED BY <2>1, <3>1, <3>2 DEF Owed
  <2> QED BY <2>2, <2>3, <2>4, <2>5, <2>6, <2>7, <2>8, StepKinds
<1>3. IInv /\ Counts => SemaphoreMatchesRing
  BY DEF IInv, RingOK, SemaphoreMatchesRing, Owed
<1> HIDE DEF Counts
<1> QED BY <1>1, <1>2, <1>3, Inductive, PTL DEF Spec

---------------------------------------------------------------------------
(* The queues the rings implement                                           *)

LEMMA QueuesInit ==
  Init => Queues!Init
<1> SUFFICES ASSUME Init PROVE Queues!Init
  OBVIOUS
<1>1. \A p \in Pids : Pending(data[p]) = <<>>
  BY BlankProperties DEF Init
<1>2. result \notin Ids
  BY SizesAssumption DEF Init, Results
<1> QED BY <1>1, <1>2 DEF Queues!Init

LEMMA QueuesStep ==
  ASSUME IInv, [Next]_vars
  PROVE  [Queues!Next]_Queues!qvars
<1> DEFINE queue == [p \in Pids |-> Pending(data[p])]
           delivered == IF result \in Ids THEN result ELSE None
<1>1. /\ data \in [Pids -> Node] /\ \A p \in Pids : NodeOK(data[p]) /\ RingOK(data[p])
      /\ Results \cap Ids = {}
  BY SizesAssumption DEF IInv, TypeOK, NodeOK, Subscribed
<1>2. ASSUME queue' = queue, result' \in Results
      PROVE  [Queues!Next]_Queues!qvars
  <2>1. delivered' = None
    BY <1>1, <1>2
  <2>2. CASE result \in Ids
    <3>1. Queues!Publish(result, {})
      <4>1. queue' = [p \in Pids |-> IF p \in {} THEN Append(queue[p], result) ELSE queue[p]]
        BY <1>2
      <4> QED BY <2>1, <4>1 DEF Queues!Publish
    <3> QED BY <2>2, <3>1 DEF Queues!Next
  <2>3. CASE result \notin Ids
    BY <1>2, <2>1, <2>3 DEF Queues!qvars
  <2> QED BY <2>2, <2>3
<1>3. CASE Answers
  <2>1. queue' = queue /\ result' \in Results
    BY <1>3 DEF Answers
  <2> HIDE DEF queue
  <2> QED BY <1>2, <2>1
<1>4. CASE UNCHANGED vars \/ \E p \in Pids : Acquire(p)
  BY <1>4 DEF vars, Acquire, Queues!qvars
<1>5. ASSUME NEW p \in Pids, NEW e, Pending(e) = <<>>, data' = [data EXCEPT ![p] = e], result' = "ok"
      PROVE  [Queues!Next]_Queues!qvars
  <2>1. queue' = [queue EXCEPT ![p] = <<>>]
    BY <1>1, <1>5
  <2>2. delivered' = None
    BY <1>1, <1>5 DEF Results
  <2>3. Queues!Reset(p)
    BY <2>1, <2>2 DEF Queues!Reset
  <2> QED BY <2>3 DEF Queues!Next
<1>6. ASSUME NEW p \in Pids, Enters(p) \/ Ends(p)
      PROVE  [Queues!Next]_Queues!qvars
  BY <1>5, <1>6, BlankProperties DEF Enters, Ends
<1>7. ASSUME NEW p \in Pids, Changes(p)
      PROVE  [Queues!Next]_Queues!qvars
  <2>1. PICK e : NodeOK(e) /\ SameRing(data[p], e) /\ data' = [data EXCEPT ![p] = e]
    BY <1>7 DEF Changes
  <2>2. Pending(e) = Pending(data[p])
    BY <1>1, <2>1, SameQueue DEF NodeOK
  <2>3. queue' = queue /\ result' \in Results
    BY <1>1, <1>7, <2>1, <2>2 DEF Changes, Results
  <2> HIDE DEF queue
  <2> QED BY <1>2, <2>3
<1>8. ASSUME NEW p \in Pids, ReceiveNotification(p)
      PROVE  [Queues!Next]_Queues!qvars
  <2>1. CASE UNCHANGED data /\ result' = "not found"
    <3>1. queue' = queue /\ result' \in Results
      BY <2>1 DEF Results
    <3> HIDE DEF queue
    <3> QED BY <1>2, <3>1
  <2>2. CASE ~(UNCHANGED data /\ result' = "not found")
    <3> DEFINE d == data[p]
               e == [d EXCEPT !.nb = @ - 1, !.rcv = (@ + 1) % Ring]
    <3>1. d.nb # 0 /\ data' = [data EXCEPT ![p] = e] /\ result' = d.ring[d.rcv]
      BY <1>1, <1>8, <2>2 DEF ReceiveNotification
    <3>2. /\ Pending(d) # <<>> /\ Pending(e) = Tail(Pending(d))
          /\ d.ring[d.rcv] = Head(Pending(d)) /\ d.ring[d.rcv] \in Ids
      BY <1>1, <3>1, ReceivedProperties
    <3>3. queue[p] = Pending(d)
      OBVIOUS
    <3> HIDE DEF e
    <3>4. queue' = [queue EXCEPT ![p] = Tail(@)]
      BY <1>1, <3>1, <3>2
    <3>5. delivered' = Head(queue[p])
      BY <3>1, <3>2
    <3>6. Queues!Receive(p)
      BY <3>2, <3>3, <3>4, <3>5 DEF Queues!Receive
    <3> QED BY <3>6 DEF Queues!Next
  <2> QED BY <2>1, <2>2
<1>9. ASSUME NEW reached \in SUBSET Pids, NEW id \in Ids, Delivers(reached, id)
      PROVE  [Queues!Next]_Queues!qvars
  <2>1. \A p \in reached : /\ Pending(Put(data[p], id)) = Append(Pending(data[p]), id)
                           /\ Len(Pending(data[p])) < Ring
    BY <1>1, <1>9, PutProperties, PendingProperties DEF Delivers
  <2>2. queue' = [p \in Pids |-> IF p \in reached THEN Append(queue[p], id) ELSE queue[p]]
    BY <1>9, <2>1 DEF Delivers
  <2>3. delivered' = None
    BY <1>1, <1>9 DEF Delivers, Results
  <2>4. \A p \in reached : Len(queue[p]) < Ring
    BY <2>1
  <2>5. Queues!Publish(id, reached)
    BY <2>2, <2>3, <2>4 DEF Queues!Publish
  <2> QED BY <2>5 DEF Queues!Next
<1> QED BY <1>3, <1>4, <1>6, <1>7, <1>8, <1>9, StepKinds

(* Each ring is a bounded first-in first-out queue, through wrap-around,    *)
(* the end of its process and its registration anew.                        *)
THEOREM RingsAreQueues == Spec => IsQueues
BY Inductive, QueuesInit, QueuesStep, PTL DEF Spec, IsQueues, Queues!Spec

---------------------------------------------------------------------------
(* Publications                                                             *)

LEMMA PublishedReaches ==
  ASSUME IInv, NEW id \in Ids, NEW flags \in 0..3, PublishToSubscriber(id, flags), result' = "ok",
         NEW p \in Subscribers(id)
  PROVE  id \in ToSet(Pending(data'[p])) \/ (DropIfFull(flags) /\ data[p].nb = Ring)
<1> DEFINE T == Subscribers(id)
           before == UntilRefusal(T, id, flags)
           reached == {q \in before : Takes(q, id, flags)}
<1>1. /\ data' = [q \in Pids |-> IF q \in reached THEN Put(data[q], id) ELSE data[q]]
      /\ before = T
  BY DEF PublishToSubscriber, Publish, Panic
<1>2. p \in Pids /\ NodeOK(data[p]) /\ p \in before
  <2>1. p \in Pids
    BY DEF Subscribers, ToSet, IInv, TypeOK
  <2>2. NodeOK(data[p])
    BY <2>1 DEF IInv, TypeOK, NodeOK, Subscribed
  <2>3. p \in before
    BY <1>1, Zenon
  <2> QED BY <2>1, <2>2, <2>3
<1>3. ~Refuses(p, id, flags)
  <2>1. PICK k \in DOMAIN inUse : inUse[k] = p
    BY DEF Subscribers, ToSet
  <2>2. Place(p) \in DOMAIN inUse /\ inUse[Place(p)] = p
    BY <2>1 DEF Place
  <2>3. Place(p) \in 1..Place(p)
    BY <2>2 DEF IInv, TypeOK
  <2> QED BY <1>1, <1>2, <2>2, <2>3 DEF UntilRefusal
<1>4. data'[p] = IF p \in reached THEN Put(data[p], id) ELSE data[p]
  BY <1>1, <1>2
<1>5. CASE AlreadyThere(p, id, flags)
  <2>1. p \notin reached
    BY <1>5 DEF Takes
  <2> QED BY <1>4, <1>5, <2>1 DEF AlreadyThere
<1>6. CASE ~AlreadyThere(p, id, flags) /\ Room(p)
  <2>1. p \in reached
    BY <1>2, <1>6 DEF Takes
  <2>2. Pending(data'[p]) = Append(Pending(data[p]), id) /\ Pending(data[p]) \in Seq(Ids)
    BY <1>2, <1>4, <1>6, <2>1, PutProperties DEF Room, NodeOK, RingOK
  <2>3. /\ Len(Pending(data'[p])) = Len(Pending(data[p])) + 1 /\ Len(Pending(data[p])) \in Nat
        /\ Pending(data'[p]) \in Seq(Ids)
        /\ Pending(data'[p])[Len(Pending(data[p])) + 1] = id
    BY <2>2, AppendProperties
  <2>4. Len(Pending(data[p])) + 1 \in DOMAIN Pending(data'[p])
    BY <2>3
  <2> QED BY <2>3, <2>4 DEF ToSet
<1>7. CASE ~AlreadyThere(p, id, flags) /\ ~Room(p)
  <2>1. DropIfFull(flags)
    BY <1>3, <1>7 DEF Refuses
  <2>2. data[p].nb \in 0..Ring /\ ~(data[p].nb < Ring) /\ Ring \in Nat
    BY <1>2, <1>7, SizesAssumption DEF NodeOK, Node, Room
  <2> QED BY <2>1, <2>2
<1> QED BY <1>5, <1>6, <1>7

(* A publication to the subscribers that reports no error has reached each  *)
(* of them, or dropped what it was allowed to (notifications.c:141).        *)
THEOREM PublicationsReachAll == Spec => PublishedToAllSubscribers
<1> DEFINE A == \A id \in Ids, flags \in 0..3 :
                  PublishToSubscriber(id, flags) /\ result' = "ok" =>
                    \A p \in Subscribers(id) :
                      id \in ToSet(Pending(data'[p])) \/ (DropIfFull(flags) /\ data[p].nb = Ring)
<1>1. IInv => A
  BY PublishedReaches
<1>2. [][A]_vars => PublishedToAllSubscribers
  BY PTL DEF PublishedToAllSubscribers
<1> HIDE DEF A
<1> QED BY <1>1, <1>2, Inductive, PTL
=============================================================================
