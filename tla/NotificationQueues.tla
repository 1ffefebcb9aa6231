------------------------- MODULE NotificationQueues ------------------------
(***************************************************************************)
(* What sm's notifications promise a process: a first-in first-out queue of *)
(* at most Capacity notifications.  A publication reaches some of the       *)
(* processes, at most once each; nothing is lost, repeated or overtaken     *)
(* between its arrival in the queue and its reception.                      *)
(***************************************************************************)
EXTENDS Integers, Sequences

CONSTANTS Pids, Ids, Capacity, None

VARIABLES queue,      \* the notifications each process has not received yet
          delivered   \* the notification just handed over, if any

qvars == <<queue, delivered>>

Init == queue = [p \in Pids |-> <<>>] /\ delivered = None

Publish(id, reached) ==
  /\ \A p \in reached : Len(queue[p]) < Capacity
  /\ queue' = [p \in Pids |-> IF p \in reached THEN Append(queue[p], id) ELSE queue[p]]
  /\ delivered' = None

Receive(p) ==
  /\ queue[p] # <<>>
  /\ queue' = [queue EXCEPT ![p] = Tail(@)]
  /\ delivered' = Head(queue[p])

(* A process begins, or ends and takes its notifications with it.           *)
Reset(p) == queue' = [queue EXCEPT ![p] = <<>>] /\ delivered' = None

Next == \/ \E id \in Ids, reached \in SUBSET Pids : Publish(id, reached)
        \/ \E p \in Pids : Receive(p) \/ Reset(p)

Spec == Init /\ [][Next]_qvars
=============================================================================
