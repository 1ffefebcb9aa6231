------------------------------ MODULE PmManager ----------------------------
(***************************************************************************)
(* pm as a whole: main takes the commands of pm:app and pm:dbg (pmapp.c,    *)
(* pmdbg.c) one at a time and hands some of them to the task runner thread  *)
(* (task_runner.c), which has a slot for one task; the process monitor is   *)
(* the third thread.  A command's answer is not modelled, only its effects. *)
(***************************************************************************)
EXTENDS PmLaunch

CONSTANTS
  Patient,      \* do they wait until pm has carried out the last command?
  Requests,     \* the commands that pm's clients send
  MaxRequests   \* how many of them (a bound of the model)

Request ==
  [op : {"TerminateApplication"}]
  \cup [op : {"TerminateProcess"}, pid : Pids, wait : BOOLEAN]
  \cup [op : {"TerminateTitle"}, title : Titles, wait : BOOLEAN]
  \cup [op : {"Reboot"}, pid : Int]                  \* -1: nobody is spared
  \cup [op : {"UnregisterProcess"}, title : Titles]
  \cup [op : {"LaunchTitle", "LaunchAppDebug"}, title : Titles, app : BOOLEAN, deps : BOOLEAN,
        notify : BOOLEAN]

ASSUME RequestsAssumption ==
  MaxRequests \in Nat /\ Patient \in BOOLEAN /\ Requests \subseteq Request

(* initializeReslimits to autolaunchSysmodules: the built-in processes are  *)
(* in the list and run.                                                     *)
KipPids == DOMAIN Kips
Init ==
  /\ kern = [p \in Pids |-> IF p \in KipPids THEN [st |-> "running", title |-> Kips[p]] ELSE Unborn]
  /\ held = KipPids /\ registered = KipPids
  /\ newProcessEvent = FALSE /\ allNotifiedTerminationEvent = FALSE
  /\ node = [n \in Nodes |-> IF n \in KipPids THEN Process(n, Kips[n], {"kip"}) ELSE BlankProcess]
  /\ processList = [k \in KipPids |-> k]
  /\ freeList = [k \in 1..NNodes - Len(Kips) |-> k + Len(Kips)]
  /\ lock = [tag |-> Nobody, count |-> 0]
  /\ running = NoNode /\ waitingForTermination = FALSE /\ preparingForReboot = FALSE
  /\ mon = [pc |-> "scan", handles |-> <<>>, terminating |-> FALSE, exited |-> NoPid,
            backup |-> BlankProcess]
  /\ loc = [t \in {"main", "runner"} |-> Returned(t)]
  /\ ready = FALSE /\ parametersSet = FALSE /\ task = NoRequest
  /\ served = 0 /\ told = [p \in Pids |-> 0] /\ panicked = FALSE

---------------------------------------------------------------------------
(* main: the command dispatch                                               *)

(* An assumption on the clients, if they are patient                        *)
Settled == /\ loc["runner"].pc \in {"top", "parameters"} /\ ~parametersSet
           /\ NodesOf("sent") \cup NodesOf("failed") = {} /\ mon.backup = BlankProcess
Takes(ops) == /\ ~panicked /\ loc["main"].pc = "idle"
              /\ served < MaxRequests /\ served' = served + 1
              /\ Patient => Settled
              /\ \E r \in Requests : r.op \in ops
Of(ops) == {r \in Requests : r.op \in ops}
MainGoes(r, pc) == loc' = [loc EXCEPT !["main"].pc = pc, !["main"].req = r]

TakeTerminateApplication ==
  /\ Takes({"TerminateApplication"})
  /\ \E r \in Of({"TerminateApplication"}) :
       IF preparingForReboot THEN UNCHANGED loc ELSE MainGoes(r, StartPc(r))
  /\ UNCHANGED <<kernelVars, listVars, lock, managerVars, mon, taskVars, told, panicked>>

(* TerminateProcessOrTitle: a task, or a kill while a reboot is prepared    *)
(* The clients do not ask for a process of whose end they have been told.   *)
StillWanted(r) == \A n \in ToSet(processList) : Wanted(r, n) => told[node[n].handle] = 0
TakeTerminate ==
  /\ Takes({"TerminateProcess", "TerminateTitle"})
  /\ \E r \in Of({"TerminateProcess", "TerminateTitle"}) :
     /\ StillWanted(r)
     /\ IF ~preparingForReboot
       THEN MainGoes(r, "runTask") /\ UNCHANGED <<kern, lock>>
       ELSE IF r.wait
       THEN UNCHANGED <<kern, lock, loc>>
       ELSE /\ Section("main") /\ UNCHANGED loc
            /\ kern' = Terminated(kern, HandlesOf({n \in ToSet(processList) : Wanted(r, n)}))
  /\ UNCHANGED <<held, newProcessEvent, allNotifiedTerminationEvent, registered, listVars,
                 managerVars, mon, taskVars, told, panicked>>

TakePrepareForReboot ==
  /\ Takes({"Reboot"})
  /\ \E r \in Of({"Reboot"}) :
       IF preparingForReboot THEN UNCHANGED <<loc, preparingForReboot>>
       ELSE MainGoes(r, "runTask") /\ preparingForReboot' = TRUE
  /\ UNCHANGED <<kernelVars, listVars, lock, running, waitingForTermination, mon, taskVars, told,
                 panicked>>

(* NS unregisters a title once it has been told of the end of its process   *)
(* (an assumption on pm's clients).                                         *)
Unregistrable(ttl) == \E p \in held : told[p] > 0 /\ kern[p].title = ttl
TakeUnregisterProcess ==
  /\ Takes({"UnregisterProcess"}) /\ Section("main")
  /\ \E r \in Of({"UnregisterProcess"}) :
     /\ Unregistrable(r.title)
     /\ LET n == FindProcessByTitleId(r.title) IN
       IF n = NoNode THEN UNCHANGED <<held, listVars, running>>
       ELSE /\ running' = IF running = n THEN NoNode ELSE running
            /\ held' = held \ {node[n].handle}
            /\ ProcessList_Delete(n) /\ UNCHANGED node
  /\ UNCHANGED <<kern, newProcessEvent, allNotifiedTerminationEvent, registered,
                 waitingForTermination, preparingForReboot, mon, loc, taskVars, told, panicked>>

(* LaunchTitle (and LaunchApp, which only adds flags)                       *)
TakeLaunchTitle ==
  /\ Takes({"LaunchTitle"}) /\ Section("main")
  /\ \E r \in Of({"LaunchTitle"}) :
     /\ LET n == FindProcessByTitleId(r.title) IN
       IF preparingForReboot \/ (running # NoNode /\ r.app)
       THEN UNCHANGED loc
       ELSE IF n # NoNode
       THEN loc' = [loc EXCEPT !["main"].pc = "found", !["main"].proc = n]
       ELSE MainGoes(r, IF r.app THEN "runTask" ELSE StartPc(r))
  /\ UNCHANGED <<kernelVars, listVars, managerVars, mon, taskVars, told, panicked>>

(* The title is running already: it is no longer anybody's dependency.      *)
FoundRunning ==
  /\ At("main", "found")
  /\ node' = [node EXCEPT ![loc["main"].proc].flags = @ \ {"autoloaded"}]
  /\ Returns("main")
  /\ UNCHANGED <<kernelVars, processList, freeList, lock, managerVars, mon, taskVars, served, told,
                 panicked>>

(* LaunchAppDebug launches on main at once, and while a reboot is prepared. *)
TakeLaunchAppDebug ==
  /\ Takes({"LaunchAppDebug"}) /\ Section("main")
  /\ \E r \in Of({"LaunchAppDebug"}) :
       IF running # NoNode THEN UNCHANGED loc ELSE MainGoes(r, StartPc(r))
  /\ UNCHANGED <<kernelVars, listVars, managerVars, mon, taskVars, told, panicked>>

---------------------------------------------------------------------------
(* The task runner                                                          *)

RunTask ==
  /\ At("main", "runTask") /\ ready
  /\ ready' = FALSE /\ task' = loc["main"].req /\ parametersSet' = TRUE
  /\ Returns("main")
  /\ UNCHANGED <<kernelVars, listVars, lock, managerVars, mon, served, told, panicked>>

RunnerReady ==
  /\ At("runner", "top") /\ ready' = TRUE /\ Goes("runner", "parameters")
  /\ UNCHANGED <<kernelVars, listVars, lock, managerVars, mon, parametersSet, task, served, told,
                 panicked>>

RunnerTakesTask ==
  /\ At("runner", "parameters") /\ parametersSet
  /\ parametersSet' = FALSE
  /\ loc' = [loc EXCEPT !["runner"].pc = StartPc(task), !["runner"].req = task]
  /\ UNCHANGED <<kernelVars, listVars, lock, managerVars, mon, ready, task, served, told, panicked>>

---------------------------------------------------------------------------
TakeCommand == TakeTerminateApplication \/ TakeTerminate \/ TakePrepareForReboot
               \/ TakeUnregisterProcess \/ TakeLaunchTitle \/ TakeLaunchAppDebug
Main   == RunTask \/ FoundRunning \/ Terminate("main") \/ Launch("main")
Runner == RunnerReady \/ RunnerTakesTask \/ Terminate("runner") \/ Launch("runner")
Next   == TakeCommand \/ Main \/ Runner \/ Monitor \/ \E p \in Pids : Exit(p)

Spec == Init /\ [][Next]_vars

(* The three threads are scheduled, and a process that enables              *)
(* notifications and obeys them ends after it has been notified.            *)
Obeys(p) == kern[p].title \in Obedient /\ AskedToEnd(p) /\ Exit(p)
Fairness == /\ WF_vars(Main) /\ WF_vars(Runner) /\ WF_vars(Monitor)
            /\ \A p \in Pids : WF_vars(Obeys(p))
FairSpec == Spec /\ Fairness

---------------------------------------------------------------------------
(* Properties                                                               *)

Flags   == {"kip", "app", "notify", "notifyTerminated", "depsLoaded", "autoloaded"}
ProcessData == [handle : Pids \cup {NoPid}, title : Titles \cup {NoTitle}, flags : SUBSET Flags,
                status : {"running", "sent", "failed", "terminated"}, refcount : 0..255]

Places  == {"idle", "top", "parameters", "runTask", "found", "clear", "arm", "notify", "loop",
            "caller", "all", "last", "commit", "wait", "blocked", "kill", "waitAgain",
            "blockedForever", "disarm", "check", "load", "insert", "register", "merge", "mark", "run",
            "markDep", "mergeDep", "abandon"}
Dependency == [title : Titles, proc : Nodes, rem : {0}]
              \cup [title : Titles, proc : {NoNode}, rem : Nat \ {0}]
Thread  == [pc : Places, req : Requests \cup {NoRequest}, at : Nat, proc : Nodes \cup {NoNode},
            spared : SUBSET Titles, tell : Pids \cup {NoPid}, pid : Pids \cup {NoPid},
            title : Titles \cup {NoTitle}, cur : Nodes \cup {NoNode}, array : Seq(Dependency)]
MonitorState ==
  [pc : {"scan", "check", "signal", "wait", "asleep", "reap", "drop", "unregister", "finish"},
   handles : Seq(Pids), terminating : BOOLEAN, exited : Pids \cup {NoPid}, backup : ProcessData]

(* Every variable of the manager has its type.  A refcount stays within its *)
(* u8, and a dependency without a process has somebody who wants it: what   *)
(* is left of remrefcounts is never 0 when 1 is subtracted (launch.c:171).  *)
TypeOK ==
  /\ kern \in [Pids -> [st : {"none", "loaded", "running", "dead"}, title : Titles \cup {NoTitle}]]
  /\ held \subseteq Pids /\ registered \subseteq Pids
  /\ newProcessEvent \in BOOLEAN /\ allNotifiedTerminationEvent \in BOOLEAN
  /\ node \in [Nodes -> ProcessData]
  /\ processList \in Seq(Nodes) /\ freeList \in Seq(Nodes)
  /\ lock \in [tag : {Nobody, "main", "runner", "monitor"}, count : Int]
  /\ running \in Nodes \cup {NoNode}
  /\ waitingForTermination \in BOOLEAN /\ preparingForReboot \in BOOLEAN
  /\ mon \in MonitorState /\ loc \in [{"main", "runner"} -> Thread]
  /\ ready \in BOOLEAN /\ parametersSet \in BOOLEAN /\ task \in Requests \cup {NoRequest}
  /\ served \in 0..MaxRequests /\ told \in [Pids -> Nat] /\ panicked \in BOOLEAN

(* Every node is on one of the two lists, once, and the processes in the    *)
(* list are different ones whose handles are open.                          *)
ListSound ==
  /\ IsInjective(processList \o freeList) /\ ToSet(processList \o freeList) = Nodes
  /\ \A n, m \in ToSet(processList) : node[n].handle = node[m].handle => n = m
  /\ HandlesOf(ToSet(processList)) \subseteq held

(* There is one application at a time.                                      *)
OneApplication ==
  \A n, m \in ToSet(processList) :
    (\A k \in {n, m} : Has(k, "app") /\ kern[node[k].handle].st = "running") => n = m

(* runningApplicationData is an application, in the list or being cleaned   *)
(* up: it never points to a node another process has taken.  This takes an  *)
(* application whose end somebody is told of, or that no two processes are  *)
(* entered while the monitor cleans up after it: by then its node is the    *)
(* second of the free list.                                                 *)
SlotIsApplication ==
  running # NoNode => /\ Has(running, "app")
                      /\ Listed(running) \/ mon.backup.handle = node[running].handle

(* The thread that launches a process writes to its node outside the lock:  *)
(* the node is still listed, and still that of the process.                 *)
WritesToItsProcess ==
  \A t \in DOMAIN loc :
    loc[t].pc \in {"mark", "markDep"} \/ (loc[t].pc = "register" /\ Outer(t) /\ IsApp(t)) =>
    LET n == IF loc[t].pc = "mark" THEN loc[t].proc ELSE loc[t].cur
    IN  Listed(n) /\ node[n].handle = loc[t].pid

(* While nothing is launched and no reboot is prepared, the refcount of a   *)
(* dependency that will be unloaded automatically is the number of          *)
(* processes that still use it.                                             *)
Launching ==
  \E t \in DOMAIN loc : loc[t].pc \in {"check", "load", "insert", "register", "merge", "mark",
                                       "run", "markDep", "mergeDep", "abandon"}
Users(ttl) == {n \in ToSet(processList) : /\ Has(n, "depsLoaded") /\ node[n].status # "terminated"
                                          /\ Wants(node[n].title, ttl)}
AboutToDrop(ttl) == IF mon.pc = "drop" /\ Wants(mon.backup.title, ttl) THEN 1 ELSE 0
RefcountsAreUsers ==
  ~Launching /\ ~preparingForReboot => \A n \in ToSet(processList) :
    Has(n, "autoloaded") /\ node[n].status = "running" =>
      node[n].refcount = Cardinality(Users(node[n].title)) + AboutToDrop(node[n].title)

(* While a reboot is prepared its caller, if it was loaded as a dependency, *)
(* and the modules it depends on are not asked to end, although the         *)
(* processes that used them end one by one.                                 *)
CallerIsSpared ==
  LET r == loc["runner"] IN
  r.req.op = "Reboot" /\ (r.pc \in {"commit", "wait", "blocked", "kill", "waitAgain",
                                   "blockedForever", "disarm"} \/ r.at = 1) =>
    \A n \in ToSet(processList) :
      Has(n, "autoloaded") /\ (n = r.proc \/ node[n].title \in r.spared) =>
        node[n].status \notin {"sent", "failed"}

(* The end of a process is announced at most once.  (terminateAllProcesses  *)
(* also notifies processes that have ended.)                                *)
ToldOnce == ~preparingForReboot => \A p \in Pids : told[p] <= 1

(* No command and no task gets stuck: each thread comes back.               *)
AtHome(t) == loc[t].pc \in {"idle", "top", "parameters"}
ThreadsComeBack == /\ ~AtHome("main") ~> AtHome("main")
                   /\ ~AtHome("runner") ~> AtHome("runner")

(* The slot of an application that has ended becomes free.                  *)
SlotIsDead == running # NoNode /\ Dead(node[running].handle)
SlotIsFreed == SlotIsDead ~> ~SlotIsDead

(* Two processes do not run the same title, the built-in ones aside         *)
(* (termination.c:163).  The node of a process that has ended may stay      *)
(* listed, and a reboot even notifies it once more.                         *)
OneProcessPerTitle ==
  \A n, m \in ToSet(processList) :
    /\ node[n].title = node[m].title
    /\ \A k \in {n, m} : ~Has(k, "kip") /\ ~Dead(node[k].handle)
    => n = m
=============================================================================
