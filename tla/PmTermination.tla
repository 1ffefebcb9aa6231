---------------------------- MODULE PmTermination --------------------------
(***************************************************************************)
(* termination.c: a thread that terminates processes arms an event, sends   *)
(* the notification 0x100, waits until the monitor signals that nobody is   *)
(* terminating any more, kills who is left after the timeout and waits      *)
(* again.  TerminateApplication runs on main, the rest on the task runner.  *)
(***************************************************************************)
EXTENDS PmProcesses

CONSTANT LastPids   \* PXI and, if it runs, Rosalina: terminated last, in this order

NoRequest == [op |-> "None"]
Idle == [pc |-> "idle", req |-> NoRequest, at |-> 0, proc |-> NoNode, spared |-> {},
         tell |-> NoPid, pid |-> NoPid, title |-> NoTitle, cur |-> NoNode, array |-> <<>>]

At(t, pc) == ~panicked /\ loc[t].pc = pc
Goes(t, pc) == loc' = [loc EXCEPT ![t].pc = pc]
(* A thread's function returns: main to its commands, the runner to its     *)
(* loop.                                                                    *)
Home(t) == IF t = "main" THEN "idle" ELSE "top"
Returned(t) == [Idle EXCEPT !.pc = Home(t)]
Returns(t) == loc' = [loc EXCEPT ![t] = Returned(t)]

Panic == /\ panicked' = TRUE
         /\ UNCHANGED <<kernelVars, listVars, lock, managerVars, mon, loc, taskVars, served, told>>

NodesOf(status) == {n \in ToSet(processList) : node[n].status = status}
HandlesOf(ns) == {node[n].handle : n \in ns}

---------------------------------------------------------------------------
(* Arming                                                                   *)

Terminations == {"TerminateApplication", "TerminateProcess", "TerminateTitle", "Reboot"}
StartPc(req) ==
  CASE req.op = "Reboot"                                         -> "clear"
    [] req.op = "TerminateApplication"                           -> "clear"
    [] req.op \in {"TerminateProcess", "TerminateTitle"} /\ req.wait  -> "clear"
    [] req.op \in {"TerminateProcess", "TerminateTitle"} /\ ~req.wait -> "notify"
    [] OTHER                                                     -> "check"

(* mutant: leaves a signal of the last termination in the event             *)
ClearedNot == allNotifiedTerminationEvent
Cleared == FALSE

ClearEvent(t) ==
  /\ At(t, "clear") /\ allNotifiedTerminationEvent' = Cleared
  /\ Goes(t, "arm")
  /\ UNCHANGED <<kern, held, newProcessEvent, registered, listVars, lock, managerVars, mon,
                 taskVars, served, told, panicked>>

Arm(t) ==
  /\ At(t, "arm") /\ waitingForTermination' = TRUE
  /\ Goes(t, IF loc[t].req.op # "Reboot" THEN "notify"
             ELSE IF loc[t].at = 0 THEN "caller" ELSE "last")
  /\ UNCHANGED <<kernelVars, listVars, lock, running, preparingForReboot, mon, taskVars, served,
                 told, panicked>>

---------------------------------------------------------------------------
(* Notifying                                                                *)

WithoutDeps(p) == [p EXCEPT !.flags = @ \ {"depsLoaded"}]
(* mutant: the monitor drops the dependencies once more                     *)
TerminatingTwice(nd, n) ==
  IF "depsLoaded" \in nd[n].flags
  THEN DependenciesDropped([nd EXCEPT ![n] = Notified(@)], nd[n].title)
  ELSE [nd EXCEPT ![n] = Notified(@)]
(* terminateProcessImpl, on all nodes                                       *)
Terminating(nd, n) ==
  IF "depsLoaded" \in nd[n].flags
  THEN DependenciesDropped([nd EXCEPT ![n] = Notified(WithoutDeps(@))], nd[n].title)
  ELSE [nd EXCEPT ![n] = Notified(@)]

TerminateApplication(t) ==
  /\ At(t, "notify") /\ loc[t].req.op = "TerminateApplication" /\ Section(t)
  /\ node' = IF running # NoNode THEN Terminating(node, running) ELSE node
  /\ Goes(t, "commit")
  /\ UNCHANGED <<kernelVars, processList, freeList, managerVars, mon, taskVars, served, told,
                 panicked>>

(* TerminateProcessOrTitleAsync: the loop over the list, with the lock held *)
Wanted(req, n) == IF req.op = "TerminateTitle" THEN node[n].title = req.title
                  ELSE node[n].handle = req.pid
LoopBegin(t) ==
  /\ At(t, "notify") /\ loc[t].req.op \in {"TerminateProcess", "TerminateTitle"} /\ Lock(t)
  /\ loc' = [loc EXCEPT ![t].pc = "loop", ![t].at = 0]
  /\ UNCHANGED <<kernelVars, listVars, managerVars, mon, taskVars, served, told, panicked>>

(* mutant: leaves the flag for the monitor, too                             *)
TakenOverTwice(flags) == flags
(* Whoever waits for the end of a process is told by the terminating thread *)
(* and no longer by the monitor.                                            *)
TakenOver(flags) == IF "notify" \in flags THEN (flags \ {"notify"}) \cup {"notifyTerminated"}
                    ELSE flags
Remaining(t) == {k \in DOMAIN processList : k > loc[t].at /\ Wanted(loc[t].req, processList[k])}
LoopNext(t) ==
  /\ At(t, "loop") /\ Remaining(t) # {}
  /\ LET k == CHOOSE j \in Remaining(t) : \A i \in Remaining(t) : j <= i
         n == processList[k]
     IN  /\ node' = Terminating([node EXCEPT ![n].flags = TakenOver(@)], n)
         /\ loc' = [loc EXCEPT ![t].at = IF loc[t].req.op = "TerminateTitle" THEN k
                                         ELSE Len(processList),
                               ![t].tell = IF Has(n, "notify") THEN node[n].handle ELSE @]
  /\ UNCHANGED <<kernelVars, processList, freeList, lock, managerVars, mon, taskVars, served, told,
                 panicked>>

LoopEnd(t) ==
  /\ At(t, "loop") /\ Remaining(t) = {} /\ Unlock
  /\ IF loc[t].req.wait THEN Goes(t, "commit") ELSE Returns(t)
  /\ UNCHANGED <<kernelVars, listVars, managerVars, mon, taskVars, served, told, panicked>>

(* terminateAllProcesses: the caller and its dependencies, then everybody   *)
(* else                                                                     *)
FindCaller(t) ==
  /\ At(t, "caller") /\ Section(t)
  /\ LET n == FindProcessById(loc[t].req.pid) IN
     loc' = [loc EXCEPT ![t].pc = "all", ![t].proc = n,
                        ![t].spared = IF n = NoNode THEN {} ELSE ToSet(Deps[node[n].title])]
  /\ UNCHANGED <<kernelVars, listVars, managerVars, mon, taskVars, served, told, panicked>>

(* mutant: does not count the caller as one more user                       *)
KeptForCallerNot(p) == p
KeptForCaller(p) == Incref(p, 1)
Spared(t, n) == \/ n = loc[t].proc /\ Has(n, "autoloaded")
                \/ node[n].title \in loc[t].spared
NotifyAll(t) ==
  /\ At(t, "all")
  /\ IF \E n \in ToSet(processList) : ~Has(n, "kip") /\ Spared(t, n) /\ Overflows(node[n], 1)
     THEN Panic
     ELSE /\ Section(t) /\ Goes(t, "commit")
          /\ LET app == IF running = NoNode THEN node
                        ELSE [node EXCEPT ![running] = Notified(WithoutDeps(@))]
             IN  node' = [n \in Nodes |->
                   IF ~Listed(n) \/ Has(n, "kip") THEN app[n]
                   ELSE IF Spared(t, n) THEN KeptForCaller(app[n])
                   ELSE Notified(app[n])]
          /\ UNCHANGED <<kernelVars, processList, freeList, managerVars, mon, taskVars, served,
                         told, panicked>>

(* terminateProcessByIdChecked on Rosalina and PXI                          *)
NotifyLast(t) ==
  /\ At(t, "last")
  /\ LET last == {FindProcessById(LastPids[k]) : k \in DOMAIN LastPids} IN
     IF NoNode \in last THEN Panic
     ELSE /\ Section(t) /\ Goes(t, "commit")
          /\ node' = [n \in Nodes |-> IF n \in last THEN Notified(node[n]) ELSE node[n]]
          /\ UNCHANGED <<kernelVars, processList, freeList, managerVars, mon, taskVars, served,
                         told, panicked>>

---------------------------------------------------------------------------
(* commitPendingTerminations                                                *)

(* mutant: does not wait                                                    *)
SomebodyListensNot == FALSE
SomebodyListens == NodesOf("sent") # {}

Commit(t) ==
  /\ At(t, "commit") /\ Section(t)
  /\ kern' = Terminated(kern, HandlesOf(NodesOf("failed")))
  /\ Goes(t, IF SomebodyListens THEN "wait" ELSE "disarm")
  /\ UNCHANGED <<held, newProcessEvent, allNotifiedTerminationEvent, registered, listVars,
                 managerVars, mon, taskVars, served, told, panicked>>

WaitFor(t, pc, blocked) ==
  /\ At(t, pc)
  /\ allNotifiedTerminationEvent' = FALSE
  /\ Goes(t, IF allNotifiedTerminationEvent THEN "disarm" ELSE blocked)
  /\ UNCHANGED <<kern, held, newProcessEvent, registered, listVars, lock, managerVars, mon,
                 taskVars, served, told, panicked>>
WaitUntilTimeout(t) == WaitFor(t, "wait", "blocked")
WaitForever(t)      == WaitFor(t, "waitAgain", "blockedForever")

Timeout(t) ==
  /\ At(t, "blocked") /\ Goes(t, "kill")
  /\ UNCHANGED <<kernelVars, listVars, lock, managerVars, mon, taskVars, served, told, panicked>>

OverdueNot == {}   \* mutant: kills nobody
Overdue == NodesOf("sent")

KillOverdue(t) ==
  /\ At(t, "kill") /\ Section(t)
  /\ kern' = Terminated(kern, HandlesOf(Overdue))
  /\ Goes(t, "waitAgain")
  /\ UNCHANGED <<held, newProcessEvent, allNotifiedTerminationEvent, registered, listVars,
                 managerVars, mon, taskVars, served, told, panicked>>

---------------------------------------------------------------------------
(* The end of a termination.  A reboot goes on with its second round and    *)
(* then tells its caller (0x179), which changes nothing in pm.              *)

Disarm(t) ==
  /\ At(t, "disarm") /\ waitingForTermination' = FALSE
  /\ told' = IF loc[t].tell = NoPid THEN told ELSE [told EXCEPT ![loc[t].tell] = @ + 1]
  /\ loc' = [loc EXCEPT ![t] = IF loc[t].req.op = "Reboot" /\ loc[t].at = 0
                               THEN [@ EXCEPT !.pc = "clear", !.at = 1] ELSE Returned(t)]
  /\ UNCHANGED <<kernelVars, listVars, lock, running, preparingForReboot, mon, taskVars, served,
                 panicked>>

Terminate(t) ==
  \/ ClearEvent(t) \/ Arm(t) \/ TerminateApplication(t) \/ LoopBegin(t) \/ LoopNext(t)
  \/ LoopEnd(t) \/ FindCaller(t) \/ NotifyAll(t) \/ NotifyLast(t) \/ Commit(t)
  \/ WaitUntilTimeout(t) \/ WaitForever(t) \/ Timeout(t) \/ KillOverdue(t) \/ Disarm(t)
=============================================================================
