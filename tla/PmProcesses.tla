----------------------------- MODULE PmProcesses ---------------------------
(***************************************************************************)
(* The processes pm manages: the kernel's processes, pm's list of them      *)
(* (process_data.c, manager.c) under its recursive lock, and the process    *)
(* monitor thread (process_monitor.c) that cleans up after those that exit. *)
(* A section between ProcessList_Lock and ProcessList_Unlock is one action  *)
(* unless it loops over terminations (PmTermination).                       *)
(***************************************************************************)
EXTENDS Integers, Sequences, SequencesExt, FiniteSets, Selections

CONSTANTS
  NNodes,      \* nodes in processDataBuffer
  MaxPid,      \* processes the kernel creates (a bound of the model)
  Titles,      \* title ids
  Deps,        \* the dependencies in the exheader of each title, in order
  Listeners,   \* titles that enable notifications
  Obedient,    \* those of them that exit when they receive notification 0x100
  Leaving,     \* titles whose processes may end although nobody asked them to
  Kips         \* titles of the built-in processes, in the order of their pids

Nodes == 1..NNodes
Pids  == 1..MaxPid
NoNode == 0
NoPid  == 0
NoTitle == "no title"

ASSUME PmAssumption ==
  /\ NNodes \in Nat /\ MaxPid \in Nat
  /\ Deps \in [Titles -> Seq(Titles)] /\ \A x \in Titles : IsInjective(Deps[x])
  /\ Listeners \subseteq Titles /\ Obedient \subseteq Listeners /\ Leaving \subseteq Titles
  /\ Kips \in Seq(Titles) /\ Len(Kips) <= NNodes /\ Len(Kips) <= MaxPid
  /\ NoTitle \notin Titles

VARIABLES
  \* the kernel: processes, the process handles pm has open, two one-shot events
  kern, held, newProcessEvent, allNotifiedTerminationEvent,
  \* sm: the processes pm has registered there
  registered,
  \* g_manager and the nodes its lists are made of
  node, processList, freeList, lock, running, waitingForTermination, preparingForReboot,
  \* the threads: the monitor; main and the task runner, with the runner's slot
  mon, loc, ready, parametersSet, task,
  \* the number of requests main has taken; how often the subscribers of
  \* 0x110 have been told of the end of each process; has pm panicked?
  served, told, panicked

kernelVars  == <<kern, held, newProcessEvent, allNotifiedTerminationEvent, registered>>
listVars    == <<node, processList, freeList>>
managerVars == <<running, waitingForTermination, preparingForReboot>>
taskVars    == <<ready, parametersSet, task>>
vars == <<kernelVars, listVars, lock, managerVars, mon, loc, taskVars, served, told, panicked>>

---------------------------------------------------------------------------
(* The kernel                                                               *)

Unborn == [st |-> "none", title |-> NoTitle]
Dead(pid) == kern[pid].st = "dead"

(* svcTerminateProcess on the handles of a set of processes                 *)
Terminated(k, pids) ==
  [p \in Pids |-> IF p \in pids \cap held /\ k[p].st \in {"loaded", "running"}
                  THEN [k[p] EXCEPT !.st = "dead"] ELSE k[p]]

(* SRVPM_PublishToProcess: a process that has not enabled notifications is  *)
(* not found.                                                               *)
CanBeNotified(pid) ==
  pid \in held \cap registered /\ kern[pid].title \in Listeners /\ kern[pid].st # "loaded"

---------------------------------------------------------------------------
(* The recursive lock of the process list.  The count is of type u32: -1    *)
(* stands for 2^32 - 1.                                                     *)

Nobody == "nobody"
CanLock(t)  == lock.tag \in {Nobody, t}
Locked(l, t) == [tag |-> t, count |-> l.count + 1]
Unlocked(l) == IF l.count = 1 THEN [tag |-> Nobody, count |-> 0] ELSE [l EXCEPT !.count = @ - 1]

Lock(t)    == CanLock(t) /\ lock' = Locked(lock, t)
Unlock     == lock' = Unlocked(lock)
Section(t) == CanLock(t) /\ lock' = Unlocked(Locked(lock, t))

---------------------------------------------------------------------------
(* The process list                                                         *)

BlankProcess == [handle |-> NoPid, title |-> NoTitle, flags |-> {}, status |-> "running",
                 refcount |-> 0]
Process(pid, title, flags) ==
  [BlankProcess EXCEPT !.handle = pid, !.title = title, !.flags = flags, !.refcount = 1]
Has(n, flag) == flag \in node[n].flags
Listed(n) == n \in ToSet(processList)

(* The first listed node of a set, or none                                  *)
FirstListed(ns) ==
  LET ks == {k \in DOMAIN processList : processList[k] \in ns}
  IN  IF ks = {} THEN NoNode ELSE processList[CHOOSE k \in ks : \A j \in ks : k <= j]
FindProcessById(pid)      == FirstListed({n \in Nodes : node[n].handle = pid})
FindProcessByTitleId(ttl) == FirstListed({n \in Nodes : node[n].title = ttl})

(* ProcessList_New: a cleared node at the end of the list, filled in        *)
ProcessList_New(contents) ==
  /\ node' = [node EXCEPT ![Head(freeList)] = contents]
  /\ processList' = Append(processList, Head(freeList))
  /\ freeList' = Tail(freeList)

(* ProcessList_Delete: the node becomes the second one of the free list     *)
(* mutant: forgets to link the rest of the free list                        *)
SecondPlaceLast(q, n) == IF q = <<>> THEN <<n>> ELSE <<Head(q), n>>
SecondPlace(q, n) == IF q = <<>> THEN <<n>> ELSE <<Head(q), n>> \o Tail(q)
Erased(q, n) == RemoveAt(q, CHOOSE k \in DOMAIN q : q[k] = n)
ProcessList_Delete(n) ==
  /\ processList' = Erased(processList, n)
  /\ freeList' = SecondPlace(freeList, n)

(* ProcessData_SendTerminationNotification, as a function on the contents   *)
(* of a node                                                                *)
Notified(p) == [p EXCEPT !.status = IF CanBeNotified(p.handle) THEN "sent" ELSE "failed"]

(* ProcessData_Incref, which panics when a refcount exceeds its u8           *)
Overflows(p, amount) == "autoloaded" \in p.flags /\ p.refcount + amount > 255
Incref(p, amount) ==
  IF "autoloaded" \in p.flags THEN [p EXCEPT !.refcount = @ + amount] ELSE p
Decref(p) ==
  LET r == (p.refcount + 255) % 256   \* a u8
  IN  IF r > 0 THEN [p EXCEPT !.refcount = r] ELSE Notified([p EXCEPT !.refcount = 0])

(* terminateUnusedDependencies, on all nodes                                *)
UsesAsDependency(p, ttl) ==
  p.status = "running" /\ "autoloaded" \in p.flags /\ p.title \in ToSet(Deps[ttl])
DependenciesDropped(nd, ttl) ==
  [n \in Nodes |-> IF Listed(n) /\ UsesAsDependency(nd[n], ttl) THEN Decref(nd[n]) ELSE nd[n]]

---------------------------------------------------------------------------
(* The process monitor                                                      *)

MonitorIs(pc) == ~panicked /\ mon.pc = pc

MonitorScan ==
  /\ MonitorIs("scan") /\ Section("monitor")
  /\ LET live == {k \in DOMAIN processList : node[processList[k]].status # "terminated"}
     IN  mon' = [mon EXCEPT !.pc = "check",
                   !.handles = Chosen([k \in DOMAIN processList |-> node[processList[k]].handle], live),
                   !.terminating = \E k \in live : node[processList[k]].status = "sent"]
  /\ UNCHANGED <<kernelVars, listVars, managerVars, loc, taskVars, served, told, panicked>>

(* mutant: signals without looking at the processes                         *)
NoneTerminatingIgnored == waitingForTermination
NoneTerminating == waitingForTermination /\ ~mon.terminating

MonitorCheck ==
  /\ MonitorIs("check")
  /\ mon' = [mon EXCEPT !.pc = IF NoneTerminating THEN "signal" ELSE "wait"]
  /\ UNCHANGED <<kernelVars, listVars, lock, managerVars, loc, taskVars, served, told, panicked>>

(* A one-shot event wakes one of the threads that wait for it, or stays set *)
(* for the next one.                                                        *)
BlockedOnEvent == {t \in DOMAIN loc : loc[t].pc \in {"blocked", "blockedForever"}}
MonitorSignal ==
  /\ MonitorIs("signal")
  /\ mon' = [mon EXCEPT !.pc = "wait"]
  /\ IF BlockedOnEvent = {}
     THEN allNotifiedTerminationEvent' = TRUE /\ UNCHANGED loc
     ELSE /\ \E t \in BlockedOnEvent : loc' = [loc EXCEPT ![t].pc = "disarm"]
          /\ UNCHANGED allNotifiedTerminationEvent
  /\ UNCHANGED <<kern, held, newProcessEvent, registered, listVars, lock, managerVars, taskVars,
                 served, told, panicked>>

(* svcWaitSynchronizationN fails on a closed handle; the monitor ignores    *)
(* the error.                                                               *)
MonitorWait ==
  /\ MonitorIs("wait")
  /\ mon' = [mon EXCEPT !.pc = IF ToSet(mon.handles) \subseteq held THEN "asleep" ELSE "scan"]
  /\ UNCHANGED <<kernelVars, listVars, lock, managerVars, loc, taskVars, served, told, panicked>>

MonitorWakesForNewProcess ==
  /\ MonitorIs("asleep") /\ newProcessEvent
  /\ newProcessEvent' = FALSE
  /\ mon' = [mon EXCEPT !.pc = "scan"]
  /\ UNCHANGED <<kern, held, allNotifiedTerminationEvent, registered, listVars, lock, managerVars,
                 loc, taskVars, served, told, panicked>>

MonitorWakesForExit ==
  /\ MonitorIs("asleep") /\ ~newProcessEvent
  /\ \E k \in DOMAIN mon.handles :
       /\ Dead(mon.handles[k]) /\ \A j \in 1..k-1 : ~Dead(mon.handles[j])
       /\ mon' = [mon EXCEPT !.pc = "reap", !.exited = mon.handles[k]]
  /\ UNCHANGED <<kernelVars, listVars, lock, managerVars, loc, taskVars, served, told, panicked>>

(* The node of a process whose exit somebody will be told of stays listed   *)
(* until UnregisterProcess.                                                 *)
ExitFlags(flags) == IF "notify" \in flags THEN flags \cup {"notifyTerminated"} ELSE flags

MonitorReap ==
  /\ MonitorIs("reap") /\ Section("monitor")
  /\ LET n == FindProcessById(mon.exited) IN
     IF n = NoNode
     THEN mon' = [mon EXCEPT !.pc = "scan", !.exited = NoPid] /\ UNCHANGED listVars
     ELSE LET p == [node[n] EXCEPT !.status = "terminated", !.flags = ExitFlags(@)] IN
          /\ node' = [node EXCEPT ![n] = p]
          /\ IF "notifyTerminated" \in p.flags
             THEN UNCHANGED <<processList, freeList>>
             ELSE ProcessList_Delete(n)
          /\ mon' = [mon EXCEPT !.backup = p, !.exited = NoPid,
                                !.pc = IF "depsLoaded" \in p.flags THEN "drop" ELSE "unregister"]
  /\ UNCHANGED <<kernelVars, managerVars, loc, taskVars, served, told, panicked>>

(* cleanupProcess: the dependencies, the registrations, the application     *)
MonitorDropDependencies ==
  /\ MonitorIs("drop") /\ Section("monitor")
  /\ node' = DependenciesDropped(node, mon.backup.title)
  /\ mon' = [mon EXCEPT !.pc = "unregister"]
  /\ UNCHANGED <<kernelVars, processList, freeList, managerVars, loc, taskVars, served, told,
                 panicked>>

MonitorUnregister ==
  /\ MonitorIs("unregister")
  /\ registered' = IF "kip" \in mon.backup.flags THEN registered
                   ELSE registered \ {mon.backup.handle}
  /\ mon' = [mon EXCEPT !.pc = "finish"]
  /\ UNCHANGED <<kern, held, newProcessEvent, allNotifiedTerminationEvent, listVars, lock,
                 managerVars, loc, taskVars, served, told, panicked>>

(* mutant: leaves runningApplicationData as it is                           *)
AppSlotKept(n) == FALSE
IsExitedApp(n) == n # NoNode /\ node[n].handle = mon.backup.handle

Closed(p) == IF "notifyTerminated" \in p.flags THEN {} ELSE {p.handle}

MonitorFinish ==
  /\ MonitorIs("finish") /\ Section("monitor")
  /\ running' = IF IsExitedApp(running) THEN NoNode ELSE running
  /\ told' = IF "notify" \in mon.backup.flags
             THEN [told EXCEPT ![mon.backup.handle] = @ + 1] ELSE told
  /\ held' = held \ Closed(mon.backup)
  /\ mon' = [mon EXCEPT !.pc = "scan", !.backup = BlankProcess]
  /\ UNCHANGED <<kern, newProcessEvent, allNotifiedTerminationEvent, registered, listVars,
                 waitingForTermination, preparingForReboot, loc, taskVars, served, panicked>>

Monitor == MonitorScan \/ MonitorCheck \/ MonitorSignal \/ MonitorWait
           \/ MonitorWakesForNewProcess \/ MonitorWakesForExit \/ MonitorReap
           \/ MonitorDropDependencies \/ MonitorUnregister \/ MonitorFinish

(* A process ends, on its own or because it was asked to.                   *)
AskedToEnd(pid) == \E n \in ToSet(processList) : node[n].handle = pid /\ node[n].status = "sent"
Exit(pid) ==
  /\ kern[pid].st = "running"
  /\ kern[pid].title \in Leaving \/ AskedToEnd(pid)
  /\ kern' = [kern EXCEPT ![pid].st = "dead"]
  /\ UNCHANGED <<held, newProcessEvent, allNotifiedTerminationEvent, registered, listVars, lock,
                 managerVars, mon, loc, taskVars, served, told, panicked>>
=============================================================================
