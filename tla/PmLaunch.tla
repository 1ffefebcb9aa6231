------------------------------ MODULE PmLaunch -----------------------------
(***************************************************************************)
(* launch.c: a title is loaded, entered in the process list, registered and *)
(* run; an application first gets the flattened tree of its dependencies,   *)
(* each loaded once and counted in its refcount.  Most of this happens      *)
(* outside the lock of the process list, through pointers to its nodes.     *)
(***************************************************************************)
EXTENDS PmTermination

CONSTANT LoadsFail   \* may LOADER_LoadProcess fail?

IsApp(t)     == loc[t].req.app
(* mutant: loads the dependencies of every title                            *)
WithDepsAlways(t) == TRUE
WithDeps(t)  == loc[t].req.app \/ loc[t].req.deps
(* Is the thread loading the title it was asked for, or a dependency of it? *)
Outer(t)     == loc[t].at = 0

(* What a thread does next: load the next dependency without a process, or  *)
(* go on to run the title.                                                  *)
Missing(l) == {k \in DOMAIN l.array : k > l.at /\ l.array[k].proc = NoNode}
Onward(l) ==
  IF Missing(l) = {} THEN [l EXCEPT !.pc = "run", !.at = 0, !.cur = l.proc]
  ELSE LET k == CHOOSE j \in Missing(l) : \A i \in Missing(l) : j <= i
       IN  [l EXCEPT !.pc = "load", !.at = k, !.title = l.array[k].title]

---------------------------------------------------------------------------
(* launchTitleImplWrapper: the check before a launch                        *)

(* mutant: relies on the check made when the launch was queued              *)
SlotTakenUnchecked(t) == FALSE
SlotTaken(t) == running # NoNode /\ IsApp(t)

CheckLaunch(t) ==
  /\ At(t, "check") /\ Section(t)
  /\ IF SlotTaken(t) THEN Returns(t)
     ELSE loc' = [loc EXCEPT ![t].pc = "load", ![t].title = loc[t].req.title]
  /\ UNCHANGED <<kernelVars, listVars, managerVars, mon, taskVars, served, told, panicked>>

---------------------------------------------------------------------------
(* loadWithoutDependencies                                                  *)

NewPids == {p \in Pids : kern[p].st = "none"}
NextPid == CHOOSE p \in NewPids : \A q \in NewPids : p <= q

Load(t) ==
  /\ At(t, "load") /\ NewPids # {}
  /\ kern' = [kern EXCEPT ![NextPid] = [st |-> "loaded", title |-> loc[t].title]]
  /\ held' = held \cup {NextPid}
  /\ loc' = [loc EXCEPT ![t].pc = "insert", ![t].pid = NextPid]
  /\ UNCHANGED <<newProcessEvent, allNotifiedTerminationEvent, registered, listVars, lock,
                 managerVars, mon, taskVars, served, told, panicked>>

(* LOADER_LoadProcess fails: launchTitleImpl jumps behind its               *)
(* ProcessList_Lock and then unlocks the list.  A dependency that cannot be *)
(* loaded is passed over; only the result of the last one counts.           *)
LoadFails(t) ==
  /\ At(t, "load") /\ LoadsFail /\ Unlock
  /\ IF Outer(t) THEN Returns(t)
     ELSE loc' = [loc EXCEPT ![t] = IF Missing(@) # {} THEN Onward(@)
                                    ELSE [@ EXCEPT !.pc = "abandon"]]
  /\ UNCHANGED <<kernelVars, listVars, managerVars, mon, taskVars, served, told, panicked>>

Insert(t) ==
  /\ At(t, "insert")
  /\ IF freeList = <<>> THEN Panic
     ELSE /\ Section(t)
          /\ ProcessList_New(Process(loc[t].pid, loc[t].title, {}))
          /\ loc' = [loc EXCEPT ![t].pc = "register", ![t].cur = Head(freeList),
                                ![t].proc = IF Outer(t) THEN Head(freeList) ELSE @]
          /\ UNCHANGED <<kernelVars, managerVars, mon, taskVars, served, told, panicked>>

(* The monitor is woken; fs and sm are told of the process.                 *)
Register(t) ==
  /\ At(t, "register")
  /\ newProcessEvent' = TRUE
  /\ registered' = registered \cup {loc[t].pid}
  /\ node' = IF Outer(t) /\ IsApp(t) THEN [node EXCEPT ![loc[t].cur].flags = @ \cup {"app"}]
             ELSE node
  /\ Goes(t, IF Outer(t) /\ WithDeps(t) THEN "merge" ELSE "run")
  /\ UNCHANGED <<kern, held, allNotifiedTerminationEvent, processList, freeList, lock, managerVars,
                 mon, taskVars, served, told, panicked>>

---------------------------------------------------------------------------
(* The dependencies: array holds dependencies, depProcs and remrefcounts    *)

Wants(ttl, d) == d \in ToSet(Deps[ttl])
(* listMergeUniqueDependencies: the new titles of the list go to the end;   *)
(* each one on the list counts once more, in the process or in the array.   *)
NewTitles(array, ttl) ==
  Chosen(Deps[ttl],
         {i \in DOMAIN Deps[ttl] : \A k \in DOMAIN array : array[k].title # Deps[ttl][i]})
(* mutant: does not look for the process of a dependency                    *)
ExtendedUnseen(array, ttl) ==
  LET new == NewTitles(array, ttl)
  IN  array \o [k \in DOMAIN new |-> [title |-> new[k], proc |-> NoNode, rem |-> 0]]
Extended(array, ttl) ==
  LET new == NewTitles(array, ttl)
  IN  array \o [k \in DOMAIN new |->
                  [title |-> new[k], proc |-> FindProcessByTitleId(new[k]), rem |-> 0]]
CountedNot(array, ttl) == array   \* mutant: counts only in the processes there are
Counted(array, ttl) ==
  [k \in DOMAIN array |-> IF array[k].proc = NoNode /\ Wants(ttl, array[k].title)
                          THEN [array[k] EXCEPT !.rem = @ + 1] ELSE array[k]]
Increfed(nd, array, ttl) ==
  [n \in Nodes |-> IF \E k \in DOMAIN array : array[k].proc = n /\ Wants(ttl, array[k].title)
                   THEN Incref(nd[n], 1) ELSE nd[n]]

Merged(t) == Counted(Extended(loc[t].array, loc[t].title), loc[t].title)
(* The array has room for 48 titles.                                        *)
MergePanics(array, ttl) ==
  \/ Len(array) > 48
  \/ \E k \in DOMAIN array : /\ array[k].proc # NoNode /\ Wants(ttl, array[k].title)
                             /\ Overflows(node[array[k].proc], 1)
Merge(t, array, l) ==
  IF MergePanics(array, loc[t].title) THEN Panic
  ELSE /\ Section(t) /\ loc' = [loc EXCEPT ![t] = l]
       /\ node' = Increfed(node, array, loc[t].title)
       /\ UNCHANGED <<kernelVars, processList, freeList, managerVars, mon, taskVars, served, told,
                      panicked>>

MergeOwn(t) ==
  /\ At(t, "merge")
  /\ \E array \in {Merged(t)} :
       Merge(t, array, [loc[t] EXCEPT !.pc = "mark", !.array = array])
MergeDependency(t) ==
  /\ At(t, "mergeDep")
  /\ \E array \in {Merged(t)} : Merge(t, array, Onward([loc[t] EXCEPT !.array = array]))

Mark(t) ==
  /\ At(t, "mark")
  /\ node' = IF loc[t].array # <<>>
             THEN [node EXCEPT ![loc[t].proc].flags = @ \cup {"depsLoaded"}] ELSE node
  /\ loc' = [loc EXCEPT ![t] = Onward(@)]
  /\ UNCHANGED <<kernelVars, processList, freeList, lock, managerVars, mon, taskVars, served, told,
                 panicked>>

---------------------------------------------------------------------------
(* The end of launchTitleImpl, for the title and for each dependency        *)

(* svcRun needs an open handle and a process that has not been terminated.  *)
Runs(pid) == pid \in held /\ kern[pid].st = "loaded"

RunSucceeds(t) ==
  /\ At(t, "run") /\ Runs(node[loc[t].cur].handle) /\ Section(t)
  /\ LET n == loc[t].cur IN
     /\ kern' = [kern EXCEPT ![node[n].handle].st = "running"]
     /\ running' = IF Outer(t) /\ IsApp(t) THEN n ELSE running
     /\ node' = IF Outer(t) /\ loc[t].req.notify
                THEN [node EXCEPT ![n].flags = @ \cup {"notify"}] ELSE node
  /\ IF Outer(t) THEN Returns(t) ELSE Goes(t, "markDep")
  /\ UNCHANGED <<held, newProcessEvent, allNotifiedTerminationEvent, registered, processList,
                 freeList, waitingForTermination, preparingForReboot, mon, taskVars, served, told,
                 panicked>>

RunFails(t) ==
  /\ At(t, "run") /\ ~Runs(node[loc[t].cur].handle) /\ Section(t)
  /\ kern' = Terminated(kern, {node[loc[t].cur].handle})
  /\ IF Outer(t) THEN Returns(t) ELSE Goes(t, "abandon")
  /\ UNCHANGED <<held, newProcessEvent, allNotifiedTerminationEvent, registered, listVars,
                 managerVars, mon, taskVars, served, told, panicked>>

(* The launch of an application whose dependencies failed: again an unlock  *)
(* without a lock                                                           *)
Abandon(t) ==
  /\ At(t, "abandon") /\ Unlock
  /\ kern' = Terminated(kern, {node[loc[t].proc].handle})
  /\ Returns(t)
  /\ UNCHANGED <<held, newProcessEvent, allNotifiedTerminationEvent, registered, listVars,
                 managerVars, mon, taskVars, served, told, panicked>>

MarkDependency(t) ==
  /\ At(t, "markDep")
  /\ LET n == loc[t].cur
         k == loc[t].at
         dependency == [node[n] EXCEPT !.flags = @ \cup {"autoloaded", "depsLoaded"}]
         amount == loc[t].array[k].rem - 1
     IN  IF Overflows(dependency, amount) THEN Panic
         ELSE /\ node' = [node EXCEPT ![n] = Incref(dependency, amount)]
              /\ loc' = [loc EXCEPT ![t].pc = "mergeDep",
                                    ![t].array[k] = [@ EXCEPT !.proc = n, !.rem = 0]]
              /\ UNCHANGED <<kernelVars, processList, freeList, lock, managerVars, mon, taskVars,
                             served, told, panicked>>

Launch(t) ==
  \/ CheckLaunch(t) \/ Load(t) \/ LoadFails(t) \/ Insert(t) \/ Register(t) \/ MergeOwn(t)
  \/ Mark(t) \/ RunSucceeds(t) \/ RunFails(t) \/ Abandon(t)
  \/ MarkDependency(t) \/ MergeDependency(t)
=============================================================================
