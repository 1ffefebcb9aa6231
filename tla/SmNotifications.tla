-------------------------- MODULE SmNotifications --------------------------
(***************************************************************************)
(* The notifications of sm (notifications.c, processes.c): each registered  *)
(* process has a ring of pending notifications and a semaphore that counts  *)
(* them.  sm is one thread, so that a command is one action; the processes  *)
(* acquire their semaphores on their own, at any moment in between.         *)
(***************************************************************************)
EXTENDS Integers, Sequences, SequencesExt

CONSTANTS
  Pids,        \* processes
  Section0,    \* those whose pid is below nbSection0Modules
  Ids,         \* notification ids
  Ring,        \* slots of pendingNotifications; maximum count of the semaphore
  MaxSubs,     \* slots of subscribedNotifications
  NProcs,      \* size of processDataPool
  None,        \* content of a slot nothing has been written to
  WaitFirst    \* do processes acquire the semaphore before they receive?

Results == {"none", "ok", "duplicate", "full", "not found", "panic"}

ASSUME SizesAssumption == /\ Ring \in Nat \ {0} /\ MaxSubs \in Nat /\ NProcs \in Nat
                          /\ Section0 \subseteq Pids /\ None \notin Ids
                          /\ Ids \cap Results = {}
                          /\ WaitFirst \in BOOLEAN

VARIABLES
  inUse,    \* processDataInUseList, as the sequence of its pids
  data,     \* the process nodes
  sem,      \* the kernel's count of each notification semaphore
  owed,     \* has the process acquired the semaphore and not received yet?
  result    \* of the last command: a notification, another answer, or "panic"

vars == <<inUse, data, sem, owed, result>>

Blank == [enabled |-> FALSE, rcv |-> 0, pend |-> 0, nb |-> 0,
          ring |-> [k \in 0..Ring-1 |-> None], subs |-> <<>>]

Init ==
  /\ inUse = <<>>
  /\ data = [p \in Pids |-> Blank]
  /\ sem = [p \in Pids |-> 0]
  /\ owed = [p \in Pids |-> FALSE]
  /\ result = "none"

Running == result # "panic"
Registered(p) == p \in ToSet(inUse)
Place(p) == CHOOSE k \in DOMAIN inUse : inUse[k] = p
Enabled(p) == Registered(p) /\ data[p].enabled

Panic == result' = "panic" /\ UNCHANGED <<inUse, data, sem, owed>>
Fails(r) == result' = r /\ UNCHANGED <<inUse, data, sem, owed>>

---------------------------------------------------------------------------
(* The process table                                                        *)

(* doRegisterProcess: a cleared node in front of the list, a new semaphore. *)
(* The pid is a new process, or the same one for the first time.            *)
doRegisterProcess(p, node) ==
  IF Len(inUse) = NProcs THEN Panic
  ELSE /\ inUse' = <<p>> \o inUse
       /\ data' = [data EXCEPT ![p] = node]
       /\ result' = "ok"
       /\ UNCHANGED <<sem, owed>>

RegisterProcess(p) ==
  /\ Running
  /\ IF Registered(p) THEN Fails("duplicate") ELSE doRegisterProcess(p, Blank)

UnregisterProcess(p) ==
  /\ Running
  /\ IF ~Registered(p) THEN Fails("not found")
     ELSE /\ inUse' = RemoveAt(inUse, Place(p))
          /\ data' = [data EXCEPT ![p] = Blank]
          /\ sem' = [sem EXCEPT ![p] = 0] /\ owed' = [owed EXCEPT ![p] = FALSE]
          /\ result' = "ok"

EnableNotification(p) ==
  /\ Running
  /\ IF Registered(p)
     THEN /\ data' = [data EXCEPT ![p].enabled = TRUE] /\ result' = "ok"
          /\ UNCHANGED <<inUse, sem, owed>>
     ELSE IF p \in Section0
     THEN doRegisterProcess(p, [Blank EXCEPT !.enabled = TRUE])
     ELSE Fails("not found")

Subscribe(p, id) ==
  /\ Running
  /\ IF ~Enabled(p) THEN Fails("not found")
     ELSE IF id \in ToSet(data[p].subs) THEN Fails("duplicate")
     ELSE IF Len(data[p].subs) = MaxSubs THEN Fails("full")
     ELSE /\ data' = [data EXCEPT ![p].subs = Append(@, id)] /\ result' = "ok"
          /\ UNCHANGED <<inUse, sem, owed>>

(* The last subscription fills the hole.                                    *)
Without(subs, id) == [k \in 1..Len(subs)-1 |-> IF subs[k] = id THEN Last(subs) ELSE subs[k]]

Unsubscribe(p, id) ==
  /\ Running
  /\ IF ~Enabled(p) \/ id \notin ToSet(data[p].subs) THEN Fails("not found")
     ELSE /\ data' = [data EXCEPT ![p].subs = Without(@, id)] /\ result' = "ok"
          /\ UNCHANGED <<inUse, sem, owed>>

---------------------------------------------------------------------------
(* Publishing                                                               *)

Pending(d) == [k \in 1..d.nb |-> d.ring[(d.rcv + k - 1) % Ring]]

(* doPublishNotification: flag 1 leaves out what is already pending, flag 2 *)
(* drops the notification when the ring is full.                            *)
OnlyOnce(flags) == flags % 2 = 1
DropIfFull(flags) == flags \div 2 = 1
AlreadyThere(p, id, flags) == OnlyOnce(flags) /\ id \in ToSet(Pending(data[p]))
RoomForOneMore(p) == data[p].nb <= Ring   \* mutant: an off-by-one at the full ring
Room(p) == data[p].nb < Ring
Refuses(p, id, flags) == ~AlreadyThere(p, id, flags) /\ ~Room(p) /\ ~DropIfFull(flags)
Takes(p, id, flags) == ~AlreadyThere(p, id, flags) /\ Room(p)

(* mutant: writes at the place of the next notification to receive          *)
PutAtReceived(d, id) ==
  [d EXCEPT !.ring = [@ EXCEPT ![d.rcv] = id], !.pend = (@ + 1) % Ring, !.nb = @ + 1]
(* mutant: does not advance past what it has written                        *)
PutInPlace(d, id) == [d EXCEPT !.ring = [@ EXCEPT ![d.pend] = id], !.nb = @ + 1]
Put(d, id) ==
  [d EXCEPT !.ring = [@ EXCEPT ![d.pend] = id], !.pend = (@ + 1) % Ring, !.nb = @ + 1]

(* mutant: goes on after a full ring, and forgets it                        *)
UntilRefusalForgotten(targets, id, flags) == targets
(* The processes before the first one that refuses                          *)
UntilRefusal(targets, id, flags) ==
  {p \in targets : \A j \in 1..Place(p) :
                     inUse[j] \in targets => ~Refuses(inUse[j], id, flags)}

(* The nodes of targets are visited in the order of the process list.       *)
Publish(targets, id, flags) ==
  LET before == UntilRefusal(targets, id, flags)
      reached == {p \in before : Takes(p, id, flags)}
  IN  /\ Running
      /\ IF \E p \in reached : sem[p] = Ring    \* svcReleaseSemaphore fails
         THEN Panic
         ELSE /\ data' = [p \in Pids |-> IF p \in reached THEN Put(data[p], id) ELSE data[p]]
              /\ sem' = [p \in Pids |-> IF p \in reached THEN sem[p] + 1 ELSE sem[p]]
              /\ result' = IF before = targets THEN "ok" ELSE "full"
              /\ UNCHANGED <<inUse, owed>>

Subscribers(id) == {p \in ToSet(inUse) : data[p].enabled /\ id \in ToSet(data[p].subs)}

PublishToSubscriber(id, flags) == Publish(Subscribers(id), id, flags)
PublishAndGetSubscriber(id) == Publish(Subscribers(id), id, 0)
PublishToAll(id) == Publish({p \in ToSet(inUse) : data[p].enabled}, id, 0)
PublishToProcess(p, id) ==
  IF Enabled(p) THEN Publish({p}, id, 0) ELSE Running /\ Fails("not found")

---------------------------------------------------------------------------
(* Receiving                                                                *)

Acquire(p) ==
  /\ Running /\ Enabled(p) /\ sem[p] > 0 /\ ~owed[p]
  /\ sem' = [sem EXCEPT ![p] = @ - 1] /\ owed' = [owed EXCEPT ![p] = TRUE]
  /\ UNCHANGED <<inUse, data, result>>

ReceiveNotification(p) ==
  /\ Running
  /\ WaitFirst => owed[p]
  /\ IF ~Enabled(p) \/ data[p].nb = 0
     THEN /\ result' = "not found" /\ owed' = [owed EXCEPT ![p] = FALSE]
          /\ UNCHANGED <<inUse, data, sem>>
     ELSE /\ data' = [data EXCEPT ![p].nb = @ - 1, ![p].rcv = (@ + 1) % Ring]
          /\ owed' = [owed EXCEPT ![p] = FALSE]
          /\ result' = data[p].ring[data[p].rcv]
          /\ UNCHANGED <<inUse, sem>>

Next ==
  \/ \E p \in Pids : RegisterProcess(p) \/ UnregisterProcess(p) \/ EnableNotification(p)
                     \/ Acquire(p) \/ ReceiveNotification(p)
  \/ \E p \in Pids, id \in Ids : Subscribe(p, id) \/ Unsubscribe(p, id) \/ PublishToProcess(p, id)
  \/ \E id \in Ids, flags \in 0..3 : PublishToSubscriber(id, flags)
  \/ \E id \in Ids : PublishAndGetSubscriber(id) \/ PublishToAll(id)

Spec == Init /\ [][Next]_vars

---------------------------------------------------------------------------
(* Properties                                                               *)

Node == [enabled : BOOLEAN, rcv : 0..Ring-1, pend : 0..Ring-1, nb : 0..Ring,
         ring : [0..Ring-1 -> Ids \cup {None}], subs : Seq(Ids)]

(* Every variable has its type, no process is in the table twice and none   *)
(* is subscribed to the same notification twice.                            *)
TypeOK ==
  /\ inUse \in Seq(Pids) /\ data \in [Pids -> Node]
  /\ sem \in [Pids -> 0..Ring] /\ owed \in [Pids -> BOOLEAN]
  /\ result \in Results \cup Ids
  /\ IsInjective(inUse) /\ Len(inUse) <= NProcs
  /\ \A p \in Pids : IsInjective(data[p].subs) /\ Len(data[p].subs) <= MaxSubs

(* The ring is a queue: where the next notification goes follows from where *)
(* the next one comes from and how many there are; the semaphore counts     *)
(* those a process has not acquired, so a process that has acquired it      *)
(* receives one, and svcReleaseSemaphore in notifications.c:41 has room.    *)
SemaphoreMatchesRing ==
  \A p \in Pids : /\ data[p].pend = (data[p].rcv + data[p].nb) % Ring
                  /\ sem[p] + (IF owed[p] THEN 1 ELSE 0) = data[p].nb

(* A publication that reports no error has reached every subscriber, or     *)
(* dropped what the publisher allowed to be dropped.                        *)
PublishedToAllSubscribers ==
  [][\A id \in Ids, flags \in 0..3 :
       PublishToSubscriber(id, flags) /\ result' = "ok" =>
         \A p \in Subscribers(id) :
           id \in ToSet(Pending(data'[p])) \/ (DropIfFull(flags) /\ data[p].nb = Ring)]_vars

(* Seen from outside, each process has a bounded first-in first-out queue   *)
(* and ReceiveNotification hands over its head.                             *)
Queues == INSTANCE NotificationQueues
            WITH queue <- [p \in Pids |-> Pending(data[p])], Capacity <- Ring,
                 delivered <- IF result \in Ids THEN result ELSE None
IsQueues == Queues!Spec
=============================================================================
