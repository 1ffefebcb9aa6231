---------------------------- MODULE PmLaunchProofs -------------------------
(***************************************************************************)
(* The launches of pm for every number of nodes, processes and titles, with *)
(* the requests under which they are safe: what a thread writes to a node   *)
(* without the lock of the list goes to the process it has loaded, one      *)
(* application runs at a time, the slot holds it, and no title runs twice;  *)
(* and the end of a process, which two threads may announce, is told once.  *)
(***************************************************************************)
EXTENDS PmProofs

---------------------------------------------------------------------------
(* Who works on what                                                        *)

LaunchOps == {"LaunchTitle", "LaunchAppDebug"}
EndOps    == {"TerminateProcess", "TerminateTitle"}
Ending    == {"clear", "arm", "notify", "loop", "caller", "all", "last", "commit", "wait", "blocked",
              "kill", "waitAgain", "blockedForever", "disarm"}
Starting(t)  == loc[t].pc \in LaunchPlaces
Launches(t) == loc[t].pc \in LaunchPlaces \cup {"check"}

(* The clients wait until pm has carried out a command, or they only end    *)
(* and launch: nobody unregisters, reboots, debugs or has a module launched *)
(* with its dependencies while pm works.  Otherwise the runner may end what *)
(* main still launches, and main marks a node that has been freed.          *)
Orderly == Patient \/ \A r \in Requests : \/ r.op \in EndOps \cup {"TerminateApplication"}
                                          \/ r.op = "LaunchTitle" /\ (r.app \/ ~r.deps)

(* main waits for the runner to take one task before it hands over another, *)
(* patient clients do not let the two work at once, and the others let main *)
(* only launch a module and end the application.                            *)
HandOverOK ==
  /\ ready => loc["runner"].pc = "parameters" /\ ~parametersSet
  /\ parametersSet => loc["runner"].pc = "parameters"
ReqOK == \A t \in Threads : Launches(t) => loc[t].req \in Requests /\ loc[t].req.op \in LaunchOps
HandedOK ==
  /\ parametersSet => task.op # "UnregisterProcess"
  /\ loc["main"].pc = "runTask" => loc["main"].req.op # "UnregisterProcess"
RunnerRests == loc["runner"].pc \in {"top", "parameters"}
Single == Patient /\ loc["main"].pc # "idle" => RunnerRests /\ ~parametersSet
ForRunner(r) == r.op \in EndOps \/ (r.op = "LaunchTitle" /\ r.app)
MainRole(l) ==
  /\ l.pc = "runTask" => ForRunner(l.req)
  /\ l.pc \in LaunchPlaces \cup {"check"} =>
       /\ l.req.op = "LaunchTitle" /\ ~l.req.app /\ ~l.req.deps
       /\ l.at = 0 /\ l.pc \in {"check", "load", "insert", "register", "run"}
  /\ l.pc \in Ending => l.req.op = "TerminateApplication" /\ l.pc \notin {"loop", "caller", "all", "last"}
RunnerRole(l) ==
  /\ l.pc \in LaunchPlaces \cup {"check"} => l.req.app
  /\ l.pc \in Ending => l.req.op \in EndOps /\ l.pc \notin {"caller", "all", "last"}
Roles == ~Patient =>
  /\ ~preparingForReboot /\ (parametersSet => ForRunner(task))
  /\ MainRole(loc["main"]) /\ RunnerRole(loc["runner"])
Orders == HandOverOK /\ ReqOK /\ HandedOK /\ Single /\ Roles

---------------------------------------------------------------------------
(* How a thread's place changes                                             *)

Others(t) == \A u \in Threads : u # t => loc'[u] = loc[u]
SameTask(l, m) == m.req = l.req /\ m.proc = l.proc /\ m.array = l.array /\ m.tell = l.tell

LEMMA OnwardFacts ==
  ASSUME NEW l \in Thread
  PROVE  /\ SameTask(l, Onward(l)) /\ Onward(l).pid = l.pid
         /\ \/ Onward(l).pc = "run" /\ Onward(l).at = 0 /\ Onward(l).cur = l.proc /\ Onward(l).title = l.title
            \/ /\ Onward(l).pc = "load" /\ Onward(l).at \in DOMAIN l.array /\ Onward(l).at # 0
               /\ Onward(l).at \in Missing(l) /\ Onward(l).title = l.array[Onward(l).at].title
<1>1. CASE Missing(l) = {}
  <2> DEFINE m == [l EXCEPT !.pc = "run", !.at = 0, !.cur = l.proc]
  <2>1. Onward(l) = m
    BY <1>1 DEF Onward
  <2>2. SameTask(l, m) /\ m.pc = "run" /\ m.at = 0 /\ m.cur = l.proc /\ m.title = l.title /\ m.pid = l.pid
    BY DEF Thread, SameTask
  <2> QED BY <2>1, <2>2
<1>2. CASE Missing(l) # {}
  <2> DEFINE k == CHOOSE j \in Missing(l) : \A i \in Missing(l) : j <= i
             m == [l EXCEPT !.pc = "load", !.at = k, !.title = l.array[k].title]
  <2>1. Onward(l) = m
    BY <1>2 DEF Onward
  <2>2. l.array \in Seq(Dependency) /\ l.at \in Nat
    BY DEF Thread
  <2>3. k \in Missing(l)
    <3>1. Missing(l) \subseteq Nat
      BY <2>2 DEF Missing
    <3> QED BY <3>1, <1>2, LeastElement
  <2> HIDE DEF k
  <2>4. k \in DOMAIN l.array /\ k # 0
    BY <2>2, <2>3 DEF Missing
  <2>5. /\ SameTask(l, m) /\ m.pc = "load" /\ m.at = k /\ m.title = l.array[k].title /\ m.pid = l.pid
    BY DEF Thread, SameTask
  <2> QED BY <2>1, <2>3, <2>4, <2>5
<1> QED BY <1>1, <1>2

LEMMA ReturnedFacts ==
  ASSUME NEW t
  PROVE  /\ Returned(t).pc = Home(t) /\ Returned(t).req = NoRequest /\ Returned(t).at = 0
         /\ Returned(t).array = <<>> /\ Returned(t).tell = NoPid /\ Returned(t).proc = NoNode
<1> DEFINE h == Home(t)
<1>1. Returned(t) = [Idle EXCEPT !.pc = h]
  BY DEF Returned
<1> HIDE DEF h
<1>2. /\ [Idle EXCEPT !.pc = h].pc = h /\ [Idle EXCEPT !.pc = h].req = NoRequest
      /\ [Idle EXCEPT !.pc = h].at = 0 /\ [Idle EXCEPT !.pc = h].array = <<>>
      /\ [Idle EXCEPT !.pc = h].tell = NoPid /\ [Idle EXCEPT !.pc = h].proc = NoNode
  BY DEF Idle
<1> QED BY <1>1, <1>2 DEF h

LEMMA OneLoc ==
  ASSUME LocsOK, NEW t \in Threads, NEW l, loc' = [loc EXCEPT ![t] = l]
  PROVE  loc'[t] = l /\ Others(t)
BY DEF LocsOK, Others

LEMMA GoesFacts ==
  ASSUME LocsOK, NEW t \in Threads, NEW pc, Goes(t, pc)
  PROVE  /\ loc'[t] = [loc[t] EXCEPT !.pc = pc] /\ Others(t)
         /\ loc'[t].pc = pc /\ SameTask(loc[t], loc'[t]) /\ loc'[t].at = loc[t].at
         /\ loc'[t].title = loc[t].title /\ loc'[t].pid = loc[t].pid /\ loc'[t].cur = loc[t].cur
<1>1. loc[t] \in Thread /\ loc' = [loc EXCEPT ![t] = [loc[t] EXCEPT !.pc = pc]]
  BY DEF Goes, LocsOK
<1>2. loc'[t] = [loc[t] EXCEPT !.pc = pc] /\ Others(t)
  BY <1>1, OneLoc
<1>3. \A l \in Thread : LET m == [l EXCEPT !.pc = pc]
      IN  m.pc = pc /\ SameTask(l, m) /\ m.at = l.at /\ m.title = l.title /\ m.pid = l.pid /\ m.cur = l.cur
  BY DEF Thread, SameTask
<1> QED BY <1>1, <1>2, <1>3

LEMMA ReturnsFacts ==
  ASSUME LocsOK, NEW t \in Threads, Returns(t)
  PROVE  loc'[t] = Returned(t) /\ Others(t) /\ loc'[t].pc = Home(t) /\ loc'[t].at = 0
         /\ loc'[t].array = <<>> /\ loc'[t].tell = NoPid
BY OneLoc, ReturnedFacts DEF Returns

(* What each step of a launch does to the thread that takes it              *)
LEMMA CheckLoc ==
  ASSUME LocsOK, NEW t \in Threads, CheckLaunch(t)
  PROVE  /\ Others(t) /\ loc[t].pc = "check" /\ loc[t].at = 0
         /\ \/ loc'[t] = Returned(t)
            \/ /\ loc'[t].pc = "load" /\ SameTask(loc[t], loc'[t]) /\ loc'[t].at = 0
               /\ loc'[t].title = loc[t].req.title /\ ~SlotTaken(t)
<1> DEFINE l == [loc[t] EXCEPT !.pc = "load", !.title = loc[t].req.title]
<1>0. loc[t] \in Thread /\ loc[t].pc = "check" /\ loc[t].at = 0
  BY DEF LocsOK, CheckLaunch, At, PlaceOK
<1>1. Returns(t) \/ (loc' = [loc EXCEPT ![t] = l] /\ ~SlotTaken(t))
  BY DEF CheckLaunch, LocsOK
<1>2. l.pc = "load" /\ SameTask(loc[t], l) /\ l.at = loc[t].at /\ l.title = loc[t].req.title
  BY <1>0 DEF Thread, SameTask
<1> HIDE DEF l
<1> QED BY <1>0, <1>1, <1>2, OneLoc, ReturnsFacts

LEMMA LoadLoc ==
  ASSUME LocsOK, NEW t \in Threads, Load(t)
  PROVE  /\ Others(t) /\ loc[t].pc = "load" /\ loc'[t].pc = "insert" /\ SameTask(loc[t], loc'[t])
         /\ loc'[t].at = loc[t].at /\ loc'[t].title = loc[t].title /\ loc'[t].pid = NextPid
<1> DEFINE l == [loc[t] EXCEPT !.pc = "insert", !.pid = NextPid]
<1>0. loc[t] \in Thread /\ loc[t].pc = "load"
  BY DEF LocsOK, Load, At
<1>1. loc' = [loc EXCEPT ![t] = l]
  BY DEF Load, LocsOK
<1>2. /\ l.pc = "insert" /\ SameTask(loc[t], l) /\ l.at = loc[t].at /\ l.title = loc[t].title
      /\ l.pid = NextPid
  BY <1>0 DEF Thread, SameTask
<1> HIDE DEF l
<1> QED BY <1>0, <1>1, <1>2, OneLoc

LEMMA LoadFailsLoc ==
  ASSUME LocsOK, NEW t \in Threads, LoadFails(t)
  PROVE  /\ Others(t) /\ loc[t].pc = "load"
         /\ \/ loc'[t] = Returned(t)
            \/ loc[t].at # 0 /\ loc'[t] = Onward(loc[t])
            \/ /\ loc[t].at # 0 /\ loc'[t].pc = "abandon" /\ SameTask(loc[t], loc'[t])
               /\ loc'[t].at = loc[t].at /\ loc'[t].title = loc[t].title
<1> DEFINE l == [loc[t] EXCEPT !.pc = "abandon"]
<1>0. loc[t] \in Thread /\ loc[t].pc = "load"
  BY DEF LocsOK, LoadFails, At
<1>1. \/ Returns(t)
      \/ loc[t].at # 0 /\ (loc' = [loc EXCEPT ![t] = Onward(loc[t])] \/ loc' = [loc EXCEPT ![t] = l])
  BY DEF LoadFails, LocsOK, Outer
<1>2. l.pc = "abandon" /\ SameTask(loc[t], l) /\ l.at = loc[t].at /\ l.title = loc[t].title
  BY <1>0 DEF Thread, SameTask
<1> HIDE DEF l
<1> QED BY <1>0, <1>1, <1>2, OneLoc, ReturnsFacts

LEMMA InsertLoc ==
  ASSUME LocsOK, NEW t \in Threads, Enters(t)
  PROVE  /\ Others(t) /\ loc[t].pc = "insert" /\ loc'[t].pc = "register"
         /\ loc'[t].cur = Head(freeList) /\ loc'[t].at = loc[t].at /\ loc'[t].title = loc[t].title
         /\ loc'[t].pid = loc[t].pid /\ loc'[t].array = loc[t].array /\ loc'[t].req = loc[t].req
         /\ loc'[t].tell = loc[t].tell
         /\ loc'[t].proc = IF loc[t].at = 0 THEN Head(freeList) ELSE loc[t].proc
<1> DEFINE p == IF Outer(t) THEN Head(freeList) ELSE loc[t].proc
           l == [loc[t] EXCEPT !.pc = "register", !.cur = Head(freeList), !.proc = p]
<1>0. loc[t] \in Thread /\ loc[t].pc = "insert" /\ Insert(t) /\ freeList # <<>>
  BY DEF LocsOK, Enters, Insert, At
<1>1. loc' = [loc EXCEPT ![t] = l]
  <2>1. loc' = [loc EXCEPT ![t].pc = "register", ![t].cur = Head(freeList), ![t].proc = p]
    BY <1>0, Zenon DEF Insert
  <2> HIDE DEF p
  <2> QED BY <2>1 DEF LocsOK
<1> HIDE DEF p
<1>2. /\ l.pc = "register" /\ l.cur = Head(freeList) /\ l.at = loc[t].at /\ l.title = loc[t].title
      /\ l.pid = loc[t].pid /\ l.array = loc[t].array /\ l.req = loc[t].req /\ l.tell = loc[t].tell
      /\ l.proc = p
  BY <1>0 DEF Thread
<1> HIDE DEF l
<1>3. p = IF loc[t].at = 0 THEN Head(freeList) ELSE loc[t].proc
  BY DEF p, Outer
<1> QED BY <1>0, <1>1, <1>2, <1>3, OneLoc

LEMMA RegisterLoc ==
  ASSUME LocsOK, NEW t \in Threads, Register(t)
  PROVE  /\ Others(t) /\ loc[t].pc = "register" /\ SameTask(loc[t], loc'[t])
         /\ loc'[t].pc = IF loc[t].at = 0 /\ WithDeps(t) THEN "merge" ELSE "run"
         /\ loc'[t].at = loc[t].at /\ loc'[t].title = loc[t].title /\ loc'[t].pid = loc[t].pid
         /\ loc'[t].cur = loc[t].cur
<1> DEFINE pc == IF loc[t].at = 0 /\ WithDeps(t) THEN "merge" ELSE "run"
<1>1. Goes(t, pc) /\ loc[t].pc = "register"
  BY DEF Register, At, Outer
<1> HIDE DEF pc
<1>2. Others(t) /\ SameTask(loc[t], loc'[t]) /\ loc'[t].pc = pc /\ loc'[t].at = loc[t].at
      /\ loc'[t].title = loc[t].title /\ loc'[t].pid = loc[t].pid /\ loc'[t].cur = loc[t].cur
  BY <1>1, GoesFacts
<1> QED BY <1>1, <1>2 DEF pc

LEMMA MergeOwnLoc ==
  ASSUME LocsOK, NEW t \in Threads, MergeOwn(t), ~Panic
  PROVE  /\ Others(t) /\ loc[t].pc = "merge" /\ loc'[t].pc = "mark" /\ loc'[t].array = Merged(t)
         /\ loc'[t].at = loc[t].at /\ loc'[t].title = loc[t].title /\ loc'[t].pid = loc[t].pid
         /\ loc'[t].req = loc[t].req /\ loc'[t].proc = loc[t].proc /\ loc'[t].tell = loc[t].tell
<1> DEFINE a == Merged(t)
<1> HIDE DEF a
<1> DEFINE l == [loc[t] EXCEPT !.pc = "mark", !.array = a]
<1>0. loc[t] \in Thread /\ loc[t].pc = "merge"
  BY DEF LocsOK, MergeOwn, At
<1>1. loc' = [loc EXCEPT ![t] = l]
  BY Zenon DEF MergeOwn, Merge, Panic, a
<1>2. /\ l.pc = "mark" /\ l.array = a /\ l.at = loc[t].at /\ l.title = loc[t].title /\ l.pid = loc[t].pid
      /\ l.req = loc[t].req /\ l.proc = loc[t].proc /\ l.tell = loc[t].tell
  BY <1>0 DEF Thread
<1> HIDE DEF l
<1> QED BY <1>0, <1>1, <1>2, OneLoc DEF a

LEMMA MergeDepLoc ==
  ASSUME LocsOK, NEW t \in Threads, MergeDependency(t), ~Panic
  PROVE  /\ Others(t) /\ loc[t].pc = "mergeDep"
         /\ loc'[t] = Onward([loc[t] EXCEPT !.array = Merged(t)])
<1>1. loc' = [loc EXCEPT ![t] = Onward([loc[t] EXCEPT !.array = Merged(t)])]
  BY Zenon DEF MergeDependency, Merge, Panic
<1> DEFINE l == Onward([loc[t] EXCEPT !.array = Merged(t)])
<1> HIDE DEF l
<1>2. loc'[t] = l /\ Others(t)
  BY <1>1, OneLoc DEF l
<1> QED BY <1>2 DEF MergeDependency, At, l

LEMMA MarkLoc ==
  ASSUME LocsOK, NEW t \in Threads, Mark(t)
  PROVE  Others(t) /\ loc[t].pc = "mark" /\ loc'[t] = Onward(loc[t])
BY OneLoc DEF Mark, At, LocsOK

LEMMA RunLoc ==
  ASSUME LocsOK, NEW t \in Threads, RunSucceeds(t) \/ RunFails(t)
  PROVE  /\ Others(t) /\ loc[t].pc = "run"
         /\ loc[t].at = 0 => loc'[t] = Returned(t)
         /\ loc[t].at # 0 => /\ loc'[t].pc = IF RunSucceeds(t) THEN "markDep" ELSE "abandon"
                             /\ SameTask(loc[t], loc'[t]) /\ loc'[t].at = loc[t].at
                             /\ loc'[t].title = loc[t].title /\ loc'[t].pid = loc[t].pid
                             /\ loc'[t].cur = loc[t].cur
<1>1. loc[t].pc = "run"
  BY DEF RunSucceeds, RunFails, At
<1>2. CASE loc[t].at = 0
  <2>1. Returns(t)
    BY <1>2 DEF RunSucceeds, RunFails, Outer
  <2> QED BY <2>1, <1>1, <1>2, ReturnsFacts
<1>3. CASE loc[t].at # 0
  <2> DEFINE pc == IF RunSucceeds(t) THEN "markDep" ELSE "abandon"
  <2>1. Goes(t, pc)
    BY <1>3 DEF RunSucceeds, RunFails, Outer
  <2>2. loc'[t].pc = pc
    BY <2>1, GoesFacts
  <2> HIDE DEF pc
  <2>3. Others(t) /\ SameTask(loc[t], loc'[t]) /\ loc'[t].at = loc[t].at
        /\ loc'[t].title = loc[t].title /\ loc'[t].pid = loc[t].pid /\ loc'[t].cur = loc[t].cur
    BY <2>1, GoesFacts
  <2> QED BY <1>1, <1>3, <2>2, <2>3 DEF pc
<1> QED BY <1>2, <1>3

LEMMA MarkDepLoc ==
  ASSUME LocsOK, NEW t \in Threads, MarkDependency(t), ~Panic
  PROVE  /\ Others(t) /\ loc[t].pc = "markDep" /\ loc'[t].pc = "mergeDep"
         /\ loc'[t].req = loc[t].req /\ loc'[t].proc = loc[t].proc /\ loc'[t].tell = loc[t].tell
         /\ loc'[t].at = loc[t].at /\ loc'[t].title = loc[t].title
         /\ loc'[t].array = [loc[t].array EXCEPT ![loc[t].at] = [@ EXCEPT !.proc = loc[t].cur, !.rem = 0]]
<1> DEFINE a == [loc[t].array EXCEPT ![loc[t].at] = [@ EXCEPT !.proc = loc[t].cur, !.rem = 0]]
           l == [loc[t] EXCEPT !.pc = "mergeDep", !.array = a]
<1>0. loc[t] \in Thread /\ loc[t].pc = "markDep"
  BY DEF LocsOK, MarkDependency, At
<1>1. loc' = [loc EXCEPT ![t].pc = "mergeDep",
                         ![t].array[loc[t].at] = [@ EXCEPT !.proc = loc[t].cur, !.rem = 0]]
  BY DEF MarkDependency
<1>2. loc' = [loc EXCEPT ![t] = l]
  BY <1>1 DEF LocsOK
<1> HIDE DEF a
<1>3. /\ l.pc = "mergeDep" /\ l.array = a /\ l.req = loc[t].req /\ l.proc = loc[t].proc
      /\ l.tell = loc[t].tell /\ l.at = loc[t].at /\ l.title = loc[t].title
  BY <1>0 DEF Thread
<1> HIDE DEF l
<1> QED BY <1>0, <1>2, <1>3, OneLoc DEF a

LEMMA AbandonLoc ==
  ASSUME LocsOK, NEW t \in Threads, Abandon(t)
  PROVE  Others(t) /\ loc[t].pc = "abandon" /\ loc'[t] = Returned(t)
BY ReturnsFacts DEF Abandon, At

(* A launch goes on to another of its steps or returns.                     *)
LEMMA LaunchLoc ==
  ASSUME LocsOK, NEW t \in Threads, Launch(t)
  PROVE  /\ Others(t) /\ Launches(t)
         /\ \/ loc'[t] = Returned(t) \/ loc'[t] = loc[t]
            \/ loc'[t].req = loc[t].req /\ loc'[t].tell = loc[t].tell /\ loc'[t].pc \in LaunchPlaces
<1>0. loc[t] \in Thread
  BY DEF LocsOK
<1> USE DEF Launches, LaunchPlaces
<1>1. CASE CheckLaunch(t)
  BY <1>1, CheckLoc DEF SameTask
<1>2. CASE Load(t)
  BY <1>2, LoadLoc DEF SameTask
<1>3. CASE LoadFails(t)
  BY <1>3, <1>0, LoadFailsLoc, OnwardFacts DEF SameTask
<1>4. CASE Insert(t)
  <2>1. CASE freeList = <<>>
    BY <1>4, <2>1 DEF Insert, Panic, Others, At
  <2>2. CASE freeList # <<>>
    BY <1>4, <2>2, InsertLoc DEF Enters
  <2> QED BY <2>1, <2>2
<1>5. CASE Register(t)
  BY <1>5, RegisterLoc DEF SameTask
<1>6. CASE MergeOwn(t) /\ ~Panic
  BY <1>6, MergeOwnLoc
<1>7. CASE MergeDependency(t) /\ ~Panic
  <2> DEFINE d == [loc[t] EXCEPT !.array = Merged(t)]
  <2>1. loc[t].title \in Titles /\ loc[t].pc = "mergeDep"
    BY <1>7 DEF LocsOK, PlaceOK, MergeDependency, At
  <2>4. d.req = loc[t].req /\ d.tell = loc[t].tell
    BY <1>0 DEF Thread
  <2>2. Others(t) /\ loc'[t] = Onward(d)
    BY <1>7, MergeDepLoc
  <2>3. Onward(d).pc \in LaunchPlaces /\ SameTask(d, Onward(d))
    <3>1. Onward(d) = IF Missing(d) = {} THEN [d EXCEPT !.pc = "run", !.at = 0, !.cur = d.proc]
                      ELSE LET k == CHOOSE j \in Missing(d) : \A i \in Missing(d) : j <= i
                           IN  [d EXCEPT !.pc = "load", !.at = k, !.title = d.array[k].title]
      BY DEF Onward
    <3>2. d = [pc |-> loc[t].pc, req |-> loc[t].req, at |-> loc[t].at, proc |-> loc[t].proc,
               spared |-> loc[t].spared, tell |-> loc[t].tell, pid |-> loc[t].pid,
               title |-> loc[t].title, cur |-> loc[t].cur, array |-> Merged(t)]
      BY <1>0 DEF Thread
    <3> HIDE DEF d
    <3>3. \E s : d = [pc |-> loc[t].pc, req |-> loc[t].req, at |-> loc[t].at, proc |-> loc[t].proc,
               spared |-> loc[t].spared, tell |-> loc[t].tell, pid |-> loc[t].pid,
               title |-> loc[t].title, cur |-> loc[t].cur, array |-> s]
      BY <3>2
    <3> QED BY <3>1, <3>3 DEF SameTask
  <2> HIDE DEF d
  <2> QED BY <2>1, <2>2, <2>3, <2>4 DEF SameTask
<1>8. CASE Mark(t)
  BY <1>8, <1>0, MarkLoc, OnwardFacts DEF SameTask
<1>9. CASE RunSucceeds(t) \/ RunFails(t)
  BY <1>9, RunLoc DEF SameTask
<1>10. CASE Abandon(t)
  BY <1>10, AbandonLoc
<1>11. CASE MarkDependency(t) /\ ~Panic
  BY <1>11, MarkDepLoc
<1>12. CASE (MergeOwn(t) \/ MergeDependency(t) \/ MarkDependency(t)) /\ Panic
  BY <1>12 DEF Panic, Others, MergeOwn, MergeDependency, MarkDependency, At
<1> QED BY <1>1, <1>2, <1>3, <1>4, <1>5, <1>6, <1>7, <1>8, <1>9, <1>10, <1>11, <1>12 DEF Launch

(* A termination goes on to another of its steps or returns; only a reboot  *)
(* looks for its caller, only the terminations of some processes loop.      *)
LEMMA EndLoc ==
  ASSUME LocsOK, NEW t \in Threads, Terminate(t)
  PROVE  /\ Others(t) /\ loc[t].pc \in Ending
         /\ \/ loc'[t] = Returned(t) \/ loc'[t] = loc[t]
            \/ /\ loc'[t].req = loc[t].req /\ loc'[t].pc \in Ending /\ loc'[t].array = loc[t].array
               /\ loc'[t].pc \in {"caller", "all", "last"} =>
                    loc[t].req.op = "Reboot" \/ loc[t].pc \in {"caller", "all", "last"}
               /\ loc'[t].pc = "loop" => loc[t].req.op \in EndOps \/ loc[t].pc = "loop"
<1>0. loc[t] \in Thread
  BY DEF LocsOK
<1> USE DEF Ending
<1>1. ASSUME NEW pc, Goes(t, pc)
      PROVE  /\ Others(t) /\ loc'[t].req = loc[t].req /\ loc'[t].pc = pc
             /\ loc'[t].array = loc[t].array
  BY <1>1, GoesFacts DEF SameTask
<1>2. CASE ClearEvent(t)
  BY <1>2, <1>1 DEF ClearEvent, At
<1>3. CASE Arm(t)
  <2>1. loc[t].pc = "arm" /\ \/ Goes(t, "notify")
                             \/ loc[t].req.op = "Reboot" /\ (Goes(t, "caller") \/ Goes(t, "last"))
    BY <1>3 DEF Arm, At
  <2> QED BY <2>1, <1>1
<1>4. CASE TerminateApplication(t)
  BY <1>4, <1>1 DEF TerminateApplication, At
<1>5. CASE LoopBegin(t)
  <2> DEFINE l == [loc[t] EXCEPT !.pc = "loop", !.at = 0]
  <2>1. loc' = [loc EXCEPT ![t] = l] /\ loc[t].pc = "notify" /\ loc[t].req.op \in EndOps
    BY <1>5 DEF LoopBegin, At, LocsOK, EndOps
  <2>2. l.pc = "loop" /\ l.req = loc[t].req /\ l.array = loc[t].array
    BY <1>0 DEF Thread
  <2> HIDE DEF l
  <2> QED BY <2>1, <2>2, OneLoc
<1>6. CASE LoopNext(t)
  <2>1. PICK a, b : loc' = [loc EXCEPT ![t].at = a, ![t].tell = b]
    BY <1>6, Zenon DEF LoopNext
  <2> DEFINE l == [loc[t] EXCEPT !.at = a, !.tell = b]
  <2>2. loc' = [loc EXCEPT ![t] = l] /\ loc[t].pc = "loop"
    BY <2>1, <1>6 DEF LoopNext, At, LocsOK
  <2>3. l.pc = "loop" /\ l.req = loc[t].req /\ l.array = loc[t].array
    BY <1>0, <2>2 DEF Thread
  <2> HIDE DEF l
  <2> QED BY <2>2, <2>3, OneLoc
<1>7. CASE LoopEnd(t)
  <2>1. loc[t].pc = "loop" /\ (Goes(t, "commit") \/ Returns(t))
    BY <1>7 DEF LoopEnd, At
  <2> QED BY <2>1, <1>1, ReturnsFacts
<1>8. CASE FindCaller(t)
  <2>1. PICK n, s : loc' = [loc EXCEPT ![t].pc = "all", ![t].proc = n, ![t].spared = s]
    BY <1>8, Zenon DEF FindCaller
  <2> DEFINE l == [loc[t] EXCEPT !.pc = "all", !.proc = n, !.spared = s]
  <2>2. loc' = [loc EXCEPT ![t] = l] /\ loc[t].pc = "caller"
    BY <2>1, <1>8 DEF FindCaller, At, LocsOK
  <2>3. l.pc = "all" /\ l.req = loc[t].req /\ l.array = loc[t].array
    BY <1>0, <2>2 DEF Thread
  <2> HIDE DEF l
  <2> QED BY <2>2, <2>3, OneLoc
<1>9. CASE NotifyAll(t) \/ NotifyLast(t)
  <2>1. loc[t].pc \in {"all", "last"} /\ (UNCHANGED loc \/ Goes(t, "commit"))
    BY <1>9 DEF NotifyAll, NotifyLast, At, Panic
  <2> QED BY <2>1, <1>1 DEF Others
<1>10. CASE Commit(t)
  <2>1. loc[t].pc = "commit" /\ (Goes(t, "wait") \/ Goes(t, "disarm"))
    BY <1>10 DEF Commit, At
  <2> QED BY <2>1, <1>1
<1>11. CASE WaitUntilTimeout(t) \/ WaitForever(t)
  <2>1. /\ loc[t].pc \in {"wait", "waitAgain"}
        /\ Goes(t, "disarm") \/ Goes(t, "blocked") \/ Goes(t, "blockedForever")
    BY <1>11 DEF WaitUntilTimeout, WaitForever, WaitFor, At
  <2> QED BY <2>1, <1>1
<1>12. CASE Timeout(t) \/ KillOverdue(t)
  BY <1>12, <1>1 DEF Timeout, KillOverdue, At
<1>13. CASE Disarm(t)
  <2> DEFINE l == [loc[t] EXCEPT !.pc = "clear", !.at = 1]
  <2>1. loc[t].pc = "disarm" /\ (Returns(t) \/ loc' = [loc EXCEPT ![t] = l])
    BY <1>13 DEF Disarm, At, LocsOK, Returns
  <2>2. l.pc = "clear" /\ l.req = loc[t].req /\ l.array = loc[t].array
    BY <1>0 DEF Thread
  <2> HIDE DEF l
  <2> QED BY <2>1, <2>2, OneLoc, ReturnsFacts
<1> QED BY <1>2, <1>3, <1>4, <1>5, <1>6, <1>7, <1>8, <1>9, <1>10, <1>11, <1>12, <1>13 DEF Terminate

(* What main does with a command                                            *)
Begun(l, r) ==
  \/ r.op = "TerminateApplication" /\ l.pc = "clear"
  \/ r.op \in EndOps \cup {"Reboot"} /\ l.pc = "runTask"
  \/ r.op = "LaunchTitle" /\ r.app /\ l.pc = "runTask"
  \/ r.op = "LaunchTitle" /\ ~r.app /\ l.pc = "check"
  \/ r.op = "LaunchAppDebug" /\ l.pc = "check"

LEMMA MainGoesFacts ==
  ASSUME LocsOK, NEW r, NEW pc, MainGoes(r, pc)
  PROVE  /\ Others("main") /\ loc'["main"].pc = pc /\ loc'["main"].req = r
         /\ loc'["main"].at = loc["main"].at /\ loc'["main"].array = loc["main"].array
         /\ loc'["main"].tell = loc["main"].tell
<1> DEFINE l == [loc["main"] EXCEPT !.pc = pc, !.req = r]
<1>0. loc["main"] \in Thread /\ "main" \in Threads
  BY DEF LocsOK, Threads
<1>1. loc' = [loc EXCEPT !["main"] = l]
  BY DEF MainGoes, LocsOK, Threads
<1>2. l.pc = pc /\ l.req = r /\ l.at = loc["main"].at /\ l.array = loc["main"].array /\ l.tell = loc["main"].tell
  BY <1>0 DEF Thread
<1> HIDE DEF l
<1> QED BY <1>0, <1>1, <1>2, OneLoc

LEMMA TakeLoc ==
  ASSUME LocsOK, TakeCommand
  PROVE  /\ loc["main"].pc = "idle" /\ Others("main") /\ UNCHANGED taskVars
         /\ Patient => Settled
         /\ loc'["main"].tell = loc["main"].tell /\ loc'["main"].array = loc["main"].array
         /\ \/ loc' = loc
            \/ loc'["main"].pc = "found"
            \/ \E r \in Requests : /\ loc'["main"].req = r /\ loc'["main"].at = 0 /\ Begun(loc'["main"], r)
         /\ ~TakePrepareForReboot => UNCHANGED preparingForReboot
<1>0. loc["main"] \in Thread /\ "main" \in Threads /\ PlaceOK(loc["main"])
  BY DEF LocsOK, Threads
<1>1. loc["main"].pc = "idle" /\ (Patient => Settled) /\ UNCHANGED taskVars
  BY DEF TakeCommand, TakeTerminateApplication, TakeTerminate, TakePrepareForReboot,
         TakeUnregisterProcess, TakeLaunchTitle, TakeLaunchAppDebug, Takes
<1>2. loc["main"].at = 0
  BY <1>0, <1>1 DEF PlaceOK
<1>3. ~TakePrepareForReboot => UNCHANGED preparingForReboot
  BY DEF TakeCommand, TakeTerminateApplication, TakeTerminate, TakePrepareForReboot,
         TakeUnregisterProcess, TakeLaunchTitle, TakeLaunchAppDebug, managerVars
<1>4. ASSUME loc' = loc
      PROVE  Others("main") /\ loc'["main"].tell = loc["main"].tell /\ loc'["main"].array = loc["main"].array
  BY <1>4 DEF Others
<1>5. ASSUME NEW r \in Requests, NEW pc, MainGoes(r, pc)
      PROVE  /\ Others("main") /\ loc'["main"].pc = pc /\ loc'["main"].req = r /\ loc'["main"].at = 0
             /\ loc'["main"].tell = loc["main"].tell /\ loc'["main"].array = loc["main"].array
  BY <1>2, <1>5, MainGoesFacts
<1>6. CASE TakeTerminateApplication
  <2>1. PICK r \in Of({"TerminateApplication"}) : loc' = loc \/ MainGoes(r, StartPc(r))
    BY <1>6 DEF TakeTerminateApplication
  <2>2. r \in Requests /\ r.op = "TerminateApplication" /\ StartPc(r) = "clear"
    BY <2>1 DEF Of, StartPc
  <2> QED BY <2>1, <2>2, <1>1, <1>3, <1>4, <1>5 DEF Begun
<1>7. CASE TakeTerminate
  <2>1. PICK r \in Of({"TerminateProcess", "TerminateTitle"}) : loc' = loc \/ MainGoes(r, "runTask")
    BY <1>7, Zenon DEF TakeTerminate
  <2>2. r \in Requests /\ r.op \in EndOps
    BY <2>1 DEF Of, EndOps
  <2> QED BY <2>1, <2>2, <1>1, <1>3, <1>4, <1>5 DEF Begun
<1>8. CASE TakePrepareForReboot
  <2>1. PICK r \in Of({"Reboot"}) : loc' = loc \/ MainGoes(r, "runTask")
    BY <1>8 DEF TakePrepareForReboot
  <2>2. r \in Requests /\ r.op = "Reboot"
    BY <2>1 DEF Of
  <2> QED BY <2>1, <2>2, <1>1, <1>3, <1>4, <1>5 DEF Begun
<1>9. CASE TakeUnregisterProcess
  BY <1>9, <1>1, <1>3, <1>4 DEF TakeUnregisterProcess
<1>10. CASE TakeLaunchTitle
  <2>1. PICK r \in Of({"LaunchTitle"}) :
          \/ loc' = loc
          \/ \E n : loc' = [loc EXCEPT !["main"].pc = "found", !["main"].proc = n]
          \/ MainGoes(r, IF r.app THEN "runTask" ELSE StartPc(r))
    BY <1>10, Zenon DEF TakeLaunchTitle
  <2>2. r \in Requests /\ r.op = "LaunchTitle" /\ StartPc(r) = "check" /\ r.app \in BOOLEAN
    BY <2>1, RequestsAssumption DEF Of, StartPc, Request
  <2>3. ASSUME NEW n, loc' = [loc EXCEPT !["main"].pc = "found", !["main"].proc = n]
        PROVE  /\ Others("main") /\ loc'["main"].pc = "found"
               /\ loc'["main"].tell = loc["main"].tell /\ loc'["main"].array = loc["main"].array
    <3> DEFINE l == [loc["main"] EXCEPT !.pc = "found", !.proc = n]
    <3>1. loc' = [loc EXCEPT !["main"] = l]
      BY <2>3 DEF LocsOK, Threads
    <3>2. l.pc = "found" /\ l.tell = loc["main"].tell /\ l.array = loc["main"].array
      BY <1>0 DEF Thread
    <3> HIDE DEF l
    <3> QED BY <1>0, <3>1, <3>2, OneLoc
  <2>4. CASE MainGoes(r, IF r.app THEN "runTask" ELSE StartPc(r))
    <3>1. CASE r.app
      <4>1. MainGoes(r, "runTask")
        BY <2>4, <3>1
      <4> QED BY <4>1, <3>1, <2>2, <1>1, <1>3, <1>5 DEF Begun
    <3>2. CASE ~r.app
      <4>1. MainGoes(r, "check")
        BY <2>2, <2>4, <3>2
      <4> QED BY <4>1, <3>2, <2>2, <1>1, <1>3, <1>5 DEF Begun
    <3> QED BY <3>1, <3>2
  <2> QED BY <2>1, <2>3, <2>4, <1>1, <1>3, <1>4
<1>11. CASE TakeLaunchAppDebug
  <2>1. PICK r \in Of({"LaunchAppDebug"}) : loc' = loc \/ MainGoes(r, StartPc(r))
    BY <1>11 DEF TakeLaunchAppDebug
  <2>2. r \in Requests /\ r.op = "LaunchAppDebug" /\ StartPc(r) = "check"
    BY <2>1 DEF Of, StartPc
  <2> QED BY <2>1, <2>2, <1>1, <1>3, <1>4, <1>5 DEF Begun
<1> QED BY <1>6, <1>7, <1>8, <1>9, <1>10, <1>11 DEF TakeCommand

LEMMA RoleFacts ==
  /\ LaunchPlaces \cap Ending = {} /\ "check" \notin LaunchPlaces \cup Ending
  /\ \A x \in {"idle", "top", "parameters", "runTask", "found"} : x \notin LaunchPlaces \cup Ending \cup {"check"}
  /\ \A t : Home(t) \in {"idle", "top"} /\ Home("main") = "idle" /\ Home("runner") = "top"
BY DEF LaunchPlaces, Ending, Home

(* A title launched on main without its dependencies                        *)
LEMMA SimpleLaunch ==
  ASSUME LocsOK, Launch("main"), MainRole(loc["main"])
  PROVE  MainRole(loc'["main"])
<1> DEFINE l == loc["main"]
           m == loc'["main"]
<1>0. "main" \in Threads /\ l.pc \in LaunchPlaces \cup {"check"}
  BY LaunchLoc DEF Threads, Launches
<1>1. /\ l.req.op = "LaunchTitle" /\ ~l.req.app /\ ~l.req.deps /\ l.at = 0
      /\ l.pc \in {"check", "load", "insert", "register", "run"}
  BY <1>0 DEF MainRole
<1>2. Returned("main").pc = "idle" /\ MainRole(Returned("main"))
  BY ReturnedFacts, RoleFacts DEF MainRole
<1>3. ASSUME m.req = l.req, m.at = 0, m.pc \in {"check", "load", "insert", "register", "run"}
      PROVE  MainRole(m)
  BY <1>1, <1>3 DEF MainRole, Ending
<1>4. CASE CheckLaunch("main")
  BY <1>0, <1>1, <1>2, <1>3, <1>4, CheckLoc DEF SameTask
<1>5. CASE Load("main")
  BY <1>0, <1>1, <1>3, <1>5, LoadLoc DEF SameTask
<1>6. CASE LoadFails("main")
  BY <1>0, <1>1, <1>2, <1>6, LoadFailsLoc
<1>7. CASE Insert("main")
  <2>1. CASE freeList = <<>>
    BY <1>7, <2>1 DEF Insert, Panic
  <2>2. CASE freeList # <<>>
    BY <1>0, <1>1, <1>3, <1>7, <2>2, InsertLoc DEF Enters
  <2> QED BY <2>1, <2>2
<1>8. CASE Register("main")
  BY <1>0, <1>1, <1>3, <1>8, RegisterLoc DEF SameTask, WithDeps
<1>9. CASE RunSucceeds("main") \/ RunFails("main")
  BY <1>0, <1>1, <1>2, <1>9, RunLoc
<1>10. CASE MergeOwn("main") \/ MergeDependency("main") \/ Mark("main") \/ Abandon("main") \/ MarkDependency("main")
  BY <1>1, <1>10 DEF MergeOwn, MergeDependency, Mark, Abandon, MarkDependency, At
<1> QED BY <1>4, <1>5, <1>6, <1>7, <1>8, <1>9, <1>10 DEF Launch

LEMMA TasksRest ==
  ASSUME (\E t \in Threads : Terminate(t) \/ Launch(t)) \/ Monitor \/ (\E p \in Pids : Exit(p)) \/ FoundRunning
  PROVE  UNCHANGED <<ready, parametersSet, task, preparingForReboot>>
<1>1. CASE \E t \in Threads : Terminate(t)
  BY <1>1 DEF Terminate, ClearEvent, Arm, TerminateApplication, LoopBegin, LoopNext, LoopEnd,
     FindCaller, NotifyAll, NotifyLast, Commit, WaitUntilTimeout, WaitForever, WaitFor, Timeout,
     KillOverdue, Disarm, Panic, taskVars, managerVars
<1>2. CASE \E t \in Threads : Launch(t)
  BY <1>2 DEF Launch, CheckLaunch, Load, LoadFails, Insert, Register, MergeOwn, MergeDependency,
     Merge, Mark, RunSucceeds, RunFails, Abandon, MarkDependency, Panic, taskVars, managerVars
<1>3. CASE Monitor
  BY <1>3 DEF Monitor, MonitorScan, MonitorCheck, MonitorSignal, MonitorWait,
     MonitorWakesForNewProcess, MonitorWakesForExit, MonitorReap, MonitorDropDependencies,
     MonitorUnregister, MonitorFinish, taskVars, managerVars
<1>4. CASE FoundRunning \/ \E p \in Pids : Exit(p)
  BY <1>4 DEF FoundRunning, Exit, taskVars, managerVars
<1> QED BY <1>1, <1>2, <1>3, <1>4

(* The monitor wakes a thread that waits for the end of a termination.      *)
LEMMA MonitorLoc ==
  ASSUME LocsOK, Monitor
  PROVE  \A t \in Threads : \/ loc'[t] = loc[t]
                            \/ /\ loc[t].pc \in Ending /\ loc'[t].pc = "disarm" /\ loc'[t].req = loc[t].req
                               /\ loc'[t].tell = loc[t].tell /\ loc'[t].at = loc[t].at
                               /\ loc'[t].array = loc[t].array
<1>1. CASE MonitorSignal
  <2>1. CASE UNCHANGED loc
    BY <2>1
  <2>2. CASE ~UNCHANGED loc
    <3>1. PICK t \in BlockedOnEvent : loc' = [loc EXCEPT ![t].pc = "disarm"]
      BY <1>1, <2>2 DEF MonitorSignal
    <3>2. t \in Threads /\ Goes(t, "disarm") /\ loc[t].pc \in Ending
      BY <3>1 DEF BlockedOnEvent, Goes, LocsOK, Ending
    <3>3. /\ Others(t) /\ loc'[t].pc = "disarm" /\ loc'[t].req = loc[t].req /\ loc'[t].tell = loc[t].tell
          /\ loc'[t].at = loc[t].at /\ loc'[t].array = loc[t].array
      BY <3>2, GoesFacts DEF SameTask
    <3> QED BY <3>2, <3>3 DEF Others
  <2> QED BY <2>1, <2>2
<1>2. CASE ~MonitorSignal
  <2>1. UNCHANGED loc
    BY <1>2 DEF Monitor, MonitorScan, MonitorCheck, MonitorWait,
       MonitorWakesForNewProcess, MonitorWakesForExit, MonitorReap, MonitorDropDependencies,
       MonitorUnregister, MonitorFinish
  <2> QED BY <2>1
<1> QED BY <1>1, <1>2

(* A thread that keeps its role, or has none                                *)
LEMMA OrdersKept ==
  ASSUME LocsOK, Orders, UNCHANGED <<ready, parametersSet, task, preparingForReboot>>,
         NEW t \in Threads, Others(t), loc[t].pc \notin {"idle", "top", "parameters"}, loc'[t].pc # "runTask",
         Launches(t)' => loc'[t].req \in Requests /\ loc'[t].req.op \in LaunchOps,
         ~Patient /\ t = "main" => MainRole(loc'[t]), ~Patient /\ t = "runner" => RunnerRole(loc'[t])
  PROVE  Orders'
<1>0. "main" \in Threads /\ "runner" \in Threads /\ (t = "main" \/ t = "runner")
  BY DEF Threads
<1>1. CASE t = "main"
  <2>1. loc'["runner"] = loc["runner"]
    BY <1>0, <1>1 DEF Others
  <2>2. HandOverOK' /\ Roles' /\ Single' /\ HandedOK'
    BY <2>1, <1>1 DEF Orders, HandOverOK, Roles, Single, RunnerRests, HandedOK
  <2>3. ReqOK'
    BY <2>1, <1>1 DEF Orders, ReqOK, Launches, Threads
  <2> QED BY <2>2, <2>3 DEF Orders
<1>2. CASE t = "runner"
  <2>1. loc'["main"] = loc["main"]
    BY <1>0, <1>2 DEF Others
  <2>2. HandOverOK' /\ Roles' /\ Single' /\ HandedOK'
    BY <2>1, <1>2 DEF Orders, HandOverOK, Roles, Single, RunnerRests, HandedOK
  <2>3. ReqOK'
    BY <2>1, <1>2 DEF Orders, ReqOK, Launches, Threads
  <2> QED BY <2>2, <2>3 DEF Orders
<1> QED BY <1>0, <1>1, <1>2

LEMMA OrdersStep ==
  ASSUME Orderly, IInv, Orders, [Next]_vars
  PROVE  Orders'
<1>0. LocsOK /\ "main" \in Threads /\ "runner" \in Threads
  BY DEF IInv, TypeOK, ControlOK, LocsOK, Threads
<1>1. ASSUME NEW t \in Threads
      PROVE  /\ loc[t].pc \in {"idle", "top", "parameters"} =>
                   loc[t].pc \notin Ending \cup LaunchPlaces \cup {"check"}
             /\ t = "main" \/ t = "runner"
             /\ MainRole(Returned("main")) /\ RunnerRole(Returned("runner"))
             /\ Returned(t).pc \notin LaunchPlaces \cup {"check"}
  BY RoleFacts, ReturnedFacts DEF Threads, MainRole, RunnerRole
<1>2. ASSUME NEW t \in Threads, Terminate(t) PROVE Orders'
  <2>1. Others(t) /\ loc[t].pc \in Ending /\ UNCHANGED <<ready, parametersSet, task, preparingForReboot>>
    BY <1>0, <1>2, EndLoc, TasksRest
  <2>2. loc[t].pc \notin {"idle", "top", "parameters"} /\ loc'[t].pc # "runTask"
    BY <1>0, <1>1, <1>2, <2>1, EndLoc, RoleFacts, ReturnedFacts
  <2>3. Launches(t)' => loc'[t].req \in Requests /\ loc'[t].req.op \in LaunchOps
    BY <1>0, <1>1, <1>2, EndLoc, RoleFacts DEF Orders, ReqOK, Launches
  <2>4. ~Patient /\ t = "main" => MainRole(loc'[t])
    <3> SUFFICES ASSUME ~Patient, t = "main" PROVE MainRole(loc'[t])
      OBVIOUS
    <3>1. MainRole(loc[t]) /\ loc[t].req.op = "TerminateApplication" /\ loc[t].pc \notin {"loop", "caller", "all", "last"}
      BY <2>1 DEF Orders, Roles, MainRole
    <3>2. \/ loc'[t] = Returned(t) \/ loc'[t] = loc[t]
          \/ loc'[t].req = loc[t].req /\ loc'[t].pc \in Ending /\ loc'[t].pc \notin {"loop", "caller", "all", "last"}
      BY <1>0, <1>2, <3>1, EndLoc DEF EndOps
    <3> QED BY <3>1, <3>2, <1>1, RoleFacts DEF MainRole
  <2>5. ~Patient /\ t = "runner" => RunnerRole(loc'[t])
    <3> SUFFICES ASSUME ~Patient, t = "runner" PROVE RunnerRole(loc'[t])
      OBVIOUS
    <3>1. RunnerRole(loc[t]) /\ loc[t].req.op \in EndOps /\ loc[t].pc \notin {"caller", "all", "last"}
      BY <2>1 DEF Orders, Roles, RunnerRole
    <3>2. \/ loc'[t] = Returned(t) \/ loc'[t] = loc[t]
          \/ loc'[t].req = loc[t].req /\ loc'[t].pc \in Ending /\ loc'[t].pc \notin {"caller", "all", "last"}
      BY <1>0, <1>2, <3>1, EndLoc DEF EndOps
    <3> QED BY <3>1, <3>2, <1>1, RoleFacts DEF RunnerRole
  <2> QED BY <1>0, <2>1, <2>2, <2>3, <2>4, <2>5, OrdersKept
<1>3. ASSUME NEW t \in Threads, Launch(t) PROVE Orders'
  <2>1. Others(t) /\ Launches(t) /\ UNCHANGED <<ready, parametersSet, task, preparingForReboot>>
    BY <1>0, <1>3, LaunchLoc, TasksRest
  <2>2. loc[t].pc \notin {"idle", "top", "parameters"} /\ loc'[t].pc # "runTask"
    BY <1>0, <1>1, <1>3, <2>1, LaunchLoc, RoleFacts, ReturnedFacts DEF Launches
  <2>3. Launches(t)' => loc'[t].req \in Requests /\ loc'[t].req.op \in LaunchOps
    <3>1. \/ loc'[t] = Returned(t) \/ loc'[t] = loc[t] \/ loc'[t].req = loc[t].req
      BY <1>0, <1>3, LaunchLoc
    <3> QED BY <3>1, <2>1, <1>1 DEF Orders, ReqOK, Launches
  <2>4. ~Patient /\ t = "main" => MainRole(loc'[t])
    BY <1>0, <1>3, SimpleLaunch DEF Orders, Roles
  <2>5. ~Patient /\ t = "runner" => RunnerRole(loc'[t])
    <3> SUFFICES ASSUME ~Patient, t = "runner" PROVE RunnerRole(loc'[t])
      OBVIOUS
    <3>1. RunnerRole(loc[t]) /\ loc[t].req.app
      BY <2>1 DEF Orders, Roles, RunnerRole, Launches
    <3>2. \/ loc'[t] = Returned(t) \/ loc'[t] = loc[t]
          \/ loc'[t].req = loc[t].req /\ loc'[t].pc \in LaunchPlaces
      BY <1>0, <1>3, LaunchLoc
    <3> QED BY <3>1, <3>2, <1>1, RoleFacts DEF RunnerRole
  <2> QED BY <1>0, <2>1, <2>2, <2>3, <2>4, <2>5, OrdersKept
<1>4. CASE Monitor
  <2>1. UNCHANGED <<ready, parametersSet, task, preparingForReboot>>
    BY <1>4, TasksRest
  <2>2. \A t \in Threads : \/ loc'[t] = loc[t]
                           \/ loc[t].pc \in Ending /\ loc'[t].pc = "disarm" /\ loc'[t].req = loc[t].req
    BY <1>0, <1>4, MonitorLoc
  <2>3. "disarm" \in Ending /\ "disarm" \notin LaunchPlaces \cup {"check", "loop", "caller", "all", "last", "runTask"}
    BY DEF Ending, LaunchPlaces
  <2>4. ReqOK'
    BY <2>2, <2>3 DEF Orders, ReqOK, Launches
  <2>5. HandOverOK' /\ Single' /\ HandedOK'
    BY <1>0, <1>1, <2>1, <2>2 DEF Orders, HandOverOK, Single, RunnerRests, HandedOK
  <2>6. Roles'
    <3>1. ~Patient => MainRole(loc'["main"]) /\ RunnerRole(loc'["runner"])
      BY <1>0, <2>2, <2>3 DEF Orders, Roles, MainRole, RunnerRole
    <3> QED BY <2>1, <3>1 DEF Orders, Roles
  <2> QED BY <2>4, <2>5, <2>6 DEF Orders
<1>5. CASE UNCHANGED loc /\ UNCHANGED <<ready, parametersSet, task, preparingForReboot>>
  BY <1>5 DEF Orders, HandOverOK, ReqOK, Single, Roles, RunnerRests, Launches, HandedOK
<1>6. CASE TakeCommand
  <2>1. /\ loc["main"].pc = "idle" /\ loc'["runner"] = loc["runner"] /\ UNCHANGED <<ready, parametersSet, task>>
        /\ Patient => RunnerRests /\ ~parametersSet
    BY <1>0, <1>6, TakeLoc DEF Others, taskVars, Settled, RunnerRests
  <2>2. \/ loc'["main"] = loc["main"]
        \/ loc'["main"].pc = "found"
        \/ \E r \in Requests : /\ loc'["main"].req = r /\ loc'["main"].at = 0 /\ Begun(loc'["main"], r)
    BY <1>0, <1>6, TakeLoc
  <2>3. ReqOK'
    <3>1. \A r \in Requests : Begun(loc'["main"], r) /\ loc'["main"].req = r /\ Launches("main")' => r.op \in LaunchOps
      BY RoleFacts DEF Begun, Launches, LaunchOps, LaunchPlaces
    <3>2. \A t \in Threads : t = "main" \/ t = "runner"
      BY DEF Threads
    <3> QED BY <1>0, <1>1, <2>1, <2>2, <3>1, <3>2, RoleFacts DEF Orders, ReqOK, Launches
  <2>4. HandOverOK' /\ Single' /\ HandedOK'
    BY <2>1, <2>2 DEF Orders, HandOverOK, Single, RunnerRests, HandedOK, Begun, EndOps
  <2>5. Roles'
    <3> SUFFICES ASSUME ~Patient PROVE Roles'
      BY DEF Roles
    <3>1. \A r \in Requests : r.op \in EndOps \cup {"TerminateApplication"} \/ (r.op = "LaunchTitle" /\ (r.app \/ ~r.deps))
      BY DEF Orderly
    <3>2. ~TakePrepareForReboot
      BY <3>1 DEF TakePrepareForReboot, Takes, EndOps
    <3>3. UNCHANGED preparingForReboot
      BY <1>0, <1>6, <3>2, TakeLoc
    <3>4. MainRole(loc'["main"])
      <4>1. CASE loc'["main"] = loc["main"] \/ loc'["main"].pc = "found"
        BY <4>1, <2>1, RoleFacts DEF MainRole
      <4>2. ASSUME NEW r \in Requests, loc'["main"].req = r, loc'["main"].at = 0, Begun(loc'["main"], r)
            PROVE  MainRole(loc'["main"])
        BY <4>2, <3>1, RoleFacts DEF MainRole, Begun, ForRunner, EndOps, Ending, LaunchPlaces
      <4> QED BY <4>1, <4>2, <2>2
    <3> QED BY <3>3, <3>4, <2>1 DEF Orders, Roles
  <2> QED BY <2>3, <2>4, <2>5 DEF Orders
<1>7. CASE RunTask
  <2>1. /\ loc["main"].pc = "runTask" /\ ready /\ ~ready' /\ task' = loc["main"].req /\ parametersSet'
        /\ Returns("main") /\ UNCHANGED preparingForReboot /\ ready' = FALSE
    BY <1>7 DEF RunTask, At, managerVars
  <2>2. loc'["main"] = Returned("main") /\ loc'["runner"] = loc["runner"] /\ loc'["main"].pc = "idle"
    BY <1>0, <2>1, ReturnsFacts, RoleFacts DEF Others
  <2>3. HandOverOK' /\ Single' /\ HandedOK'
    BY <2>1, <2>2 DEF Orders, HandOverOK, Single, HandedOK
  <2>4. Roles'
    BY <1>0, <1>1, <2>1, <2>2 DEF Orders, Roles, MainRole
  <2>5. ReqOK'
    BY <1>0, <1>1, <2>2 DEF Orders, ReqOK, Launches, Threads
  <2> QED BY <2>3, <2>4, <2>5 DEF Orders
<1>8. CASE FoundRunning
  <2>1. /\ loc["main"].pc = "found" /\ Returns("main") /\ UNCHANGED <<ready, parametersSet, task, preparingForReboot>>
    BY <1>8, TasksRest DEF FoundRunning, At
  <2>2. loc'["main"] = Returned("main") /\ Others("main")
    BY <1>0, <2>1, ReturnsFacts
  <2> QED BY <1>0, <1>1, <2>1, <2>2, ReturnedFacts, RoleFacts, OrdersKept DEF Launches
<1>9. CASE RunnerReady
  <2>1. /\ loc["runner"].pc = "top" /\ ready' = TRUE /\ Goes("runner", "parameters")
        /\ UNCHANGED <<parametersSet, task, preparingForReboot>>
    BY <1>9 DEF RunnerReady, At, managerVars
  <2>2. loc'["runner"].pc = "parameters" /\ loc'["main"] = loc["main"]
    BY <1>0, <2>1, GoesFacts DEF Others
  <2>3. HandOverOK' /\ Single' /\ HandedOK'
    BY <2>1, <2>2 DEF Orders, HandOverOK, Single, RunnerRests, HandedOK
  <2>4. Roles'
    BY <2>1, <2>2, RoleFacts DEF Orders, Roles, RunnerRole
  <2>5. ReqOK'
    BY <1>0, <2>2, RoleFacts DEF Orders, ReqOK, Launches, Threads
  <2> QED BY <2>3, <2>4, <2>5 DEF Orders
<1>10. CASE RunnerTakesTask
  <2> DEFINE pc == StartPc(task)
             l == [loc["runner"] EXCEPT !.pc = pc, !.req = task]
  <2>1. /\ loc["runner"].pc = "parameters" /\ parametersSet /\ parametersSet' = FALSE
        /\ loc' = [loc EXCEPT !["runner"] = l] /\ UNCHANGED <<ready, task, preparingForReboot>>
    BY <1>0, <1>10 DEF RunnerTakesTask, At, managerVars, LocsOK
  <2>2. task \in Requests
    BY <2>1 DEF IInv, ControlOK
  <2>3. pc \in {"clear", "notify", "check"}
    BY <2>2, StartPcTyped
  <2> HIDE DEF pc
  <2>4. l.pc = pc /\ l.req = task
    BY <1>0 DEF LocsOK, Thread
  <2> HIDE DEF l
  <2>5. loc'["runner"] = l /\ loc'["main"] = loc["main"]
    BY <1>0, <2>1, OneLoc DEF Others
  <2>6. pc = "check" => task.op \in LaunchOps
    <3>1. task \in Request /\ task.op # "UnregisterProcess"
      BY <2>1, <2>2, RequestsAssumption DEF Orders, HandedOK
    <3>2. task.op \in {"TerminateProcess", "TerminateTitle"} => task.wait \in BOOLEAN
      BY <3>1 DEF Request
    <3> QED BY <3>1, <3>2 DEF pc, StartPc, Request, LaunchOps
  <2>7. pc # "check" => task.op \notin LaunchOps
    BY DEF pc, StartPc, LaunchOps
  <2>8. HandOverOK' /\ Single' /\ HandedOK'
    BY <2>1, <2>5 DEF Orders, HandOverOK, Single, RunnerRests, HandedOK
  <2>9. ReqOK'
    <3>1. Launches("runner")' => pc = "check"
      BY <2>3, <2>4, <2>5 DEF Launches, LaunchPlaces
    <3> QED BY <1>0, <2>2, <2>4, <2>5, <2>6, <3>1 DEF Orders, ReqOK, Launches, Threads
  <2>10. Roles'
    <3> SUFFICES ASSUME ~Patient PROVE Roles'
      BY DEF Roles
    <3>1. ForRunner(task)
      BY <2>1 DEF Orders, Roles
    <3>2. RunnerRole(l)
      BY <2>3, <2>4, <2>6, <2>7, <3>1 DEF RunnerRole, ForRunner, EndOps, LaunchOps, Ending, LaunchPlaces
    <3> QED BY <2>1, <2>5, <3>2 DEF Orders, Roles
  <2> QED BY <2>8, <2>9, <2>10 DEF Orders
<1>11. CASE (\E p \in Pids : Exit(p)) \/ UNCHANGED vars
  <2>1. UNCHANGED loc /\ UNCHANGED <<ready, parametersSet, task, preparingForReboot>>
    BY <1>11 DEF Exit, vars, taskVars, managerVars
  <2> QED BY <2>1, <1>5
<1> QED BY <1>0, <1>2, <1>3, <1>4, <1>6, <1>7, <1>8, <1>9, <1>10, <1>11 DEF Next, Main, Runner

---------------------------------------------------------------------------
(* What the operations on nodes never change: whose node it is, whether it  *)
(* is an application or built in, and that somebody is told of its end      *)

SameTags(f, g) ==
  /\ "app" \in g <=> "app" \in f
  /\ "kip" \in g <=> "kip" \in f
  /\ "notify" \in f \/ "notifyTerminated" \in f => "notify" \in g \/ "notifyTerminated" \in g
Tagged(p, q) == q.handle = p.handle /\ SameTags(p.flags, q.flags)
(* A process that runs and was not loaded as a dependency goes on.          *)
Unasked(p) == p.status = "running" /\ "autoloaded" \notin p.flags
Gentle(p, q) == Tagged(p, q) /\ (Unasked(p) => Unasked(q))

LEMMA FieldFacts ==
  ASSUME NEW p \in ProcessData, NEW f, NEW s, NEW r
  PROVE  /\ [p EXCEPT !.flags = f].flags = f /\ [p EXCEPT !.flags = f].handle = p.handle
         /\ [p EXCEPT !.flags = f].status = p.status /\ [p EXCEPT !.flags = f].title = p.title
         /\ [p EXCEPT !.flags = f].refcount = p.refcount
         /\ [p EXCEPT !.status = s].flags = p.flags /\ [p EXCEPT !.status = s].handle = p.handle
         /\ [p EXCEPT !.status = s].status = s
         /\ [p EXCEPT !.refcount = r].flags = p.flags /\ [p EXCEPT !.refcount = r].handle = p.handle
         /\ [p EXCEPT !.refcount = r].status = p.status
BY DEF ProcessData

LEMMA TaggedTwice ==
  ASSUME NEW p, NEW q, NEW r, Tagged(p, q), Tagged(q, r)
  PROVE  Tagged(p, r)
BY DEF Tagged, SameTags

LEMMA TaggedNotified ==
  ASSUME NEW p \in ProcessData
  PROVE  Tagged(p, p) /\ Tagged(p, Notified(p)) /\ Notified(p).flags = p.flags
<1> DEFINE s == IF CanBeNotified(p.handle) THEN "sent" ELSE "failed"
<1>1. Notified(p) = [p EXCEPT !.status = s]
  BY DEF Notified
<1> HIDE DEF s
<1> QED BY <1>1, FieldFacts DEF Tagged, SameTags

LEMMA GentleIncref ==
  ASSUME NEW p \in ProcessData, NEW a
  PROVE  Gentle(p, p) /\ Gentle(p, Incref(p, a)) /\ Incref(p, a).flags = p.flags
<1>1. Incref(p, a) = p \/ Incref(p, a) = [p EXCEPT !.refcount = p.refcount + a]
  BY DEF Incref
<1> DEFINE q == [p EXCEPT !.refcount = p.refcount + a]
<1>2. q.flags = p.flags /\ q.handle = p.handle /\ q.status = p.status
  BY FieldFacts
<1>3. Incref(p, a) = p \/ Incref(p, a) = q
  BY <1>1
<1> HIDE DEF q
<1> QED BY <1>2, <1>3 DEF Gentle, Tagged, SameTags, Unasked

LEMMA TaggedDecref ==
  ASSUME NEW p \in ProcessData
  PROVE  Tagged(p, Decref(p))
<1> DEFINE r == (p.refcount + 255) % 256
<1>1. Decref(p) = IF r > 0 THEN [p EXCEPT !.refcount = r] ELSE Notified([p EXCEPT !.refcount = 0])
  BY DEF Decref
<1>2. [p EXCEPT !.refcount = 0] \in ProcessData
  <2>1. 0 \in 0..255
    OBVIOUS
  <2> QED BY <2>1 DEF ProcessData
<1> HIDE DEF r
<1>3. Tagged(p, [p EXCEPT !.refcount = r]) /\ Tagged(p, [p EXCEPT !.refcount = 0])
  BY FieldFacts DEF Tagged, SameTags
<1>4. Tagged([p EXCEPT !.refcount = 0], Notified([p EXCEPT !.refcount = 0]))
  BY <1>2, TaggedNotified
<1> QED BY <1>1, <1>3, <1>4, TaggedTwice

LEMMA GentleDrop ==
  ASSUME NEW nd \in [Nodes -> ProcessData], NEW ttl, NEW n \in Nodes
  PROVE  Gentle(nd[n], DependenciesDropped(nd, ttl)[n])
<1>1. DependenciesDropped(nd, ttl)[n] =
        IF Listed(n) /\ UsesAsDependency(nd[n], ttl) THEN Decref(nd[n]) ELSE nd[n]
  BY DEF DependenciesDropped
<1>2. UsesAsDependency(nd[n], ttl) => ~Unasked(nd[n])
  BY DEF UsesAsDependency, Unasked
<1> QED BY <1>1, <1>2, TaggedDecref, GentleIncref DEF Gentle

LEMMA TaggedTerminating ==
  ASSUME NEW nd \in [Nodes -> ProcessData], NEW m, NEW n \in Nodes
  PROVE  Tagged(nd[n], Terminating(nd, m)[n])
<1> DEFINE q == WithoutDeps(nd[m])
           md == [nd EXCEPT ![m] = Notified(q)]
<1>1. m \in Nodes => nd[m] \in ProcessData /\ Tagged(nd[m], Notified(nd[m])) /\ Tagged(nd[m], Notified(q))
  <2> SUFFICES ASSUME m \in Nodes PROVE nd[m] \in ProcessData /\ Tagged(nd[m], Notified(nd[m])) /\ Tagged(nd[m], Notified(q))
    OBVIOUS
  <2>1. nd[m] \in ProcessData
    OBVIOUS
  <2>2. q \in ProcessData
    <3>1. nd[m].flags \ {"depsLoaded"} \in SUBSET Flags
      BY <2>1 DEF ProcessData
    <3> QED BY <2>1, <3>1 DEF WithoutDeps, ProcessData
  <2>3. Tagged(nd[m], q)
    BY <2>1, FieldFacts DEF WithoutDeps, Tagged, SameTags
  <2> HIDE DEF q
  <2> QED BY <2>1, <2>2, <2>3, TaggedNotified, TaggedTwice
<1>2. md \in [Nodes -> ProcessData]
  <2>1. m \in Nodes => Notified(q) \in ProcessData
    <3> SUFFICES ASSUME m \in Nodes PROVE Notified(q) \in ProcessData
      OBVIOUS
    <3>1. nd[m] \in ProcessData /\ nd[m].flags \ {"depsLoaded"} \in SUBSET Flags
      BY DEF ProcessData
    <3>2. q \in ProcessData
      BY <3>1 DEF WithoutDeps, ProcessData
    <3> HIDE DEF q
    <3> QED BY <3>2, NotifiedKept DEF SameProcess
  <2> HIDE DEF q
  <2> QED BY <2>1
<1>3. Tagged(nd[n], md[n])
  <2> HIDE DEF q
  <2> QED BY <1>1, TaggedNotified
<1>4. Tagged(nd[n], [nd EXCEPT ![m] = Notified(nd[m])][n])
  BY <1>1, TaggedNotified
<1>5. CASE "depsLoaded" \in nd[m].flags
  <2>1. Terminating(nd, m) = DependenciesDropped(md, nd[m].title)
    BY <1>5 DEF Terminating
  <2> HIDE DEF md
  <2>2. Tagged(md[n], DependenciesDropped(md, nd[m].title)[n])
    BY <1>2, GentleDrop DEF Gentle
  <2> QED BY <2>1, <2>2, <1>3, TaggedTwice
<1>6. CASE "depsLoaded" \notin nd[m].flags
  BY <1>6, <1>4 DEF Terminating
<1> QED BY <1>5, <1>6

(* A node whose flags alone are written                                     *)
LEMMA FlagsWritten ==
  ASSUME NEW nd \in [Nodes -> ProcessData], NEW m, NEW f, NEW n \in Nodes
  PROVE  LET q == [nd EXCEPT ![m].flags = f][n]
         IN  /\ q.handle = nd[n].handle /\ q.status = nd[n].status
             /\ q.flags = IF n = m THEN f ELSE nd[n].flags
<1>1. CASE n = m
  <2>1. [nd EXCEPT ![m].flags = f][n] = [nd[n] EXCEPT !.flags = f]
    BY <1>1
  <2> QED BY <1>1, <2>1, FieldFacts
<1>2. CASE n # m
  BY <1>2
<1> QED BY <1>1, <1>2

LEMMA MergeNodes ==
  ASSUME TypeOK, NEW t \in Threads, MergeOwn(t) \/ MergeDependency(t), NEW n \in Nodes
  PROVE  Gentle(node[n], node'[n])
<1> DEFINE array == Merged(t)
           ttl == loc[t].title
<1>0. node[n] \in ProcessData
  BY DEF TypeOK
<1>1. Panic \/ node' = Increfed(node, array, ttl)
  BY Zenon DEF MergeOwn, MergeDependency, Merge
<1> HIDE DEF array, ttl
<1>2. CASE Panic
  BY <1>0, <1>2, GentleIncref DEF Panic, listVars
<1>3. CASE node' = Increfed(node, array, ttl)
  <2>1. node'[n] = node[n] \/ node'[n] = Incref(node[n], 1)
    BY <1>3 DEF Increfed
  <2> QED BY <1>0, <2>1, GentleIncref
<1> QED BY <1>1, <1>2, <1>3

(* What a launch does to a node: a new one is written, an application's     *)
(* first node becomes an application, a dependency's becomes a dependency.  *)
LEMMA LaunchNodes ==
  ASSUME TypeOK, NEW t \in Threads, Launch(t), NEW n \in Nodes
  PROVE  \/ Gentle(node[n], node'[n])
         \/ Enters(t) /\ n = Head(freeList)
         \/ Register(t) /\ loc[t].at = 0 /\ IsApp(t) /\ n = loc[t].cur
         \/ MarkDependency(t) /\ n = loc[t].cur
<1>0. node[n] \in ProcessData /\ Gentle(node[n], node[n]) /\ node \in [Nodes -> ProcessData]
  BY GentleIncref DEF TypeOK
<1>1. CASE CheckLaunch(t) \/ Load(t) \/ LoadFails(t) \/ RunFails(t) \/ Abandon(t) \/ Panic
  BY <1>0, <1>1 DEF CheckLaunch, Load, LoadFails, RunFails, Abandon, Panic, listVars
<1>2. CASE Insert(t) /\ ~Panic
  <2>1. Enters(t) /\ node' = [node EXCEPT ![Head(freeList)] = Process(loc[t].pid, loc[t].title, {})]
    BY <1>2 DEF Insert, Enters, ProcessList_New
  <2> QED BY <2>1, <1>0
<1>3. CASE Register(t)
  BY <1>0, <1>3 DEF Register, Outer
<1>4. CASE MergeOwn(t) \/ MergeDependency(t)
  BY <1>4, MergeNodes
<1>5. CASE Mark(t)
  <2> DEFINE m == loc[t].proc
             f == node[m].flags \cup {"depsLoaded"}
  <2>1. node' = node \/ node' = [node EXCEPT ![m].flags = f]
    BY <1>5 DEF Mark
  <2>2. n = m => SameTags(node[n].flags, f) /\ ("autoloaded" \in f => "autoloaded" \in node[n].flags)
    BY DEF SameTags
  <2> HIDE DEF f, m
  <2>3. Gentle(node[n], [node EXCEPT ![m].flags = f][n])
    <3>1. SameTags(node[n].flags, node[n].flags)
      BY DEF SameTags
    <3> QED BY <1>0, <2>2, <3>1, FlagsWritten DEF Gentle, Tagged, Unasked
  <2> QED BY <2>1, <2>3, <1>0
<1>6. CASE RunSucceeds(t)
  <2> DEFINE m == loc[t].cur
             f == node[m].flags \cup {"notify"}
  <2>1. node' = node \/ node' = [node EXCEPT ![m].flags = f]
    BY <1>6 DEF RunSucceeds
  <2>2. n = m => SameTags(node[n].flags, f) /\ ("autoloaded" \in f => "autoloaded" \in node[n].flags)
    BY DEF SameTags
  <2> HIDE DEF f, m
  <2>3. Gentle(node[n], [node EXCEPT ![m].flags = f][n])
    <3>1. SameTags(node[n].flags, node[n].flags)
      BY DEF SameTags
    <3> QED BY <1>0, <2>2, <3>1, FlagsWritten DEF Gentle, Tagged, Unasked
  <2> QED BY <2>1, <2>3, <1>0
<1>7. CASE MarkDependency(t) /\ ~Panic
  <2>1. PICK p : node' = [node EXCEPT ![loc[t].cur] = p]
    BY <1>7, Zenon DEF MarkDependency, Panic
  <2> QED BY <2>1, <1>0, <1>7
<1> QED BY <1>1, <1>2, <1>3, <1>4, <1>5, <1>6, <1>7 DEF Launch

LEMMA MarkDependencyNodes ==
  ASSUME TypeOK, NEW t \in Threads, MarkDependency(t), NEW n \in Nodes
  PROVE  Tagged(node[n], node'[n])
<1> DEFINE m == loc[t].cur
           f == node[m].flags \cup {"autoloaded", "depsLoaded"}
           d == [node[m] EXCEPT !.flags = f]
           a == loc[t].array[loc[t].at].rem - 1
<1>0. node[n] \in ProcessData /\ node \in [Nodes -> ProcessData]
  BY DEF TypeOK
<1>1. Panic \/ node' = [node EXCEPT ![m] = Incref(d, a)]
  BY DEF MarkDependency
<1>2. CASE Panic
  BY <1>0, <1>2, TaggedNotified DEF Panic, listVars
<1>3. CASE node' = [node EXCEPT ![m] = Incref(d, a)] /\ n = m
  <2>1. node'[n] = Incref(d, a) /\ d = [node[n] EXCEPT !.flags = f] /\ f = node[n].flags \cup {"autoloaded", "depsLoaded"}
    BY <1>0, <1>3
  <2> HIDE DEF d
  <2>2. d.flags = f /\ d.handle = node[n].handle
    BY <1>0, <2>1, FieldFacts
  <2>3. Tagged(node[n], d)
    BY <2>1, <2>2 DEF Tagged, SameTags
  <2>4. d \in ProcessData
    <3>1. node[n].flags \cup {"autoloaded", "depsLoaded"} \in SUBSET Flags
      BY <1>0 DEF ProcessData, Flags
    <3> QED BY <1>0, <2>1, <3>1 DEF ProcessData
  <2>5. Tagged(d, Incref(d, a))
    BY <2>4, GentleIncref DEF Gentle
  <2> QED BY <2>1, <2>3, <2>5, TaggedTwice
<1>4. CASE node' = [node EXCEPT ![m] = Incref(d, a)] /\ n # m
  <2>1. node'[n] = node[n]
    BY <1>0, <1>4
  <2> QED BY <2>1, <1>0, TaggedNotified
<1> QED BY <1>1, <1>2, <1>3, <1>4

LEMMA TerminationNodes ==
  ASSUME TypeOK, NEW t \in Threads, Terminate(t), NEW n \in Nodes
  PROVE  Tagged(node[n], node'[n])
<1>0. node[n] \in ProcessData /\ Tagged(node[n], node[n]) /\ node \in [Nodes -> ProcessData]
  BY TaggedNotified DEF TypeOK
<1>1. CASE UNCHANGED node
  BY <1>0, <1>1
<1>2. CASE TerminateApplication(t)
  <2>1. node' = node \/ node' = Terminating(node, running)
    BY <1>2 DEF TerminateApplication
  <2> QED BY <2>1, <1>0, TaggedTerminating
<1>3. CASE LoopNext(t)
  <2> DEFINE k == CHOOSE j \in Remaining(t) : \A i \in Remaining(t) : j <= i
             m == processList[k]
             f == TakenOver(node[m].flags)
             md == [node EXCEPT ![m].flags = f]
  <2>1. node' = Terminating(md, m)
    BY <1>3 DEF LoopNext
  <2> HIDE DEF m
  <2>2. n = m => SameTags(node[n].flags, f)
    BY DEF SameTags, TakenOver
  <2>3. md \in [Nodes -> ProcessData]
    <3>1. m \in Nodes => f \in SUBSET Flags
      BY <1>0 DEF TakenOver, Flags, ProcessData
    <3> HIDE DEF f
    <3>2. md = [node EXCEPT ![m] = [node[m] EXCEPT !.flags = f]]
      OBVIOUS
    <3>3. m \in Nodes => [node[m] EXCEPT !.flags = f] \in ProcessData
      BY <1>0, <3>1 DEF ProcessData
    <3> QED BY <1>0, <3>2, <3>3
  <2> HIDE DEF f
  <2>4. Tagged(node[n], md[n])
    <3>1. SameTags(node[n].flags, node[n].flags)
      BY DEF SameTags
    <3> QED BY <1>0, <2>2, <3>1, FlagsWritten DEF Tagged
  <2> HIDE DEF md
  <2>5. Tagged(md[n], Terminating(md, m)[n])
    BY <2>3, TaggedTerminating
  <2> QED BY <2>1, <2>4, <2>5, TaggedTwice
<1>4. CASE NotifyAll(t) /\ ~Panic
  <2> DEFINE p == WithoutDeps(node[running])
             app == IF running = NoNode THEN node ELSE [node EXCEPT ![running] = Notified(p)]
  <2>1. node'[n] \in {app[n], KeptForCaller(app[n]), Notified(app[n])}
    <3>1. node' = [m \in Nodes |->
                     IF ~Listed(m) \/ Has(m, "kip") THEN app[m]
                     ELSE IF Spared(t, m) THEN KeptForCaller(app[m])
                     ELSE Notified(app[m])]
      BY <1>4 DEF NotifyAll
    <3> HIDE DEF app
    <3> QED BY <3>1
  <2>2. running \in Nodes => p \in ProcessData /\ Tagged(node[running], Notified(p)) /\ Notified(p) \in ProcessData
    <3> SUFFICES ASSUME running \in Nodes
                 PROVE  p \in ProcessData /\ Tagged(node[running], Notified(p)) /\ Notified(p) \in ProcessData
      OBVIOUS
    <3>1. node[running] \in ProcessData /\ node[running].flags \ {"depsLoaded"} \in SUBSET Flags
      BY <1>0 DEF ProcessData
    <3>2. p \in ProcessData
      BY <3>1 DEF WithoutDeps, ProcessData
    <3>3. Tagged(node[running], p)
      BY <3>1, FieldFacts DEF WithoutDeps, Tagged, SameTags
    <3> HIDE DEF p
    <3> QED BY <3>2, <3>3, TaggedNotified, TaggedTwice, NotifiedKept DEF SameProcess
  <2> HIDE DEF p
  <2>3. app[n] \in ProcessData /\ Tagged(node[n], app[n])
    BY <1>0, <2>2
  <2> HIDE DEF app
  <2>4. Tagged(app[n], KeptForCaller(app[n])) /\ Tagged(app[n], Notified(app[n]))
    BY <2>3, TaggedNotified, GentleIncref DEF KeptForCaller, Gentle
  <2> QED BY <2>1, <2>3, <2>4, TaggedTwice
<1>5. CASE NotifyLast(t) /\ ~Panic
  <2>1. node'[n] = node[n] \/ node'[n] = Notified(node[n])
    <3>1. PICK ns : node' = [m \in Nodes |-> IF m \in ns THEN Notified(node[m]) ELSE node[m]]
      BY <1>5 DEF NotifyLast
    <3> QED BY <3>1
  <2> QED BY <2>1, <1>0, TaggedNotified
<1>6. CASE ~(TerminateApplication(t) \/ LoopNext(t) \/ NotifyAll(t) \/ NotifyLast(t))
  <2>1. UNCHANGED node
    BY <1>6 DEF Terminate, ClearEvent, Arm, LoopBegin, LoopEnd, FindCaller, Commit, WaitUntilTimeout,
                WaitForever, WaitFor, Timeout, KillOverdue, Disarm, listVars
  <2> QED BY <2>1, <1>1
<1>7. CASE Panic
  BY <1>1, <1>7 DEF Panic, listVars
<1> QED BY <1>2, <1>3, <1>4, <1>5, <1>6, <1>7

(* The process that has ended is the one that is found in the list.         *)
LEMMA FoundExited ==
  ASSUME TypeOK, ListSound, FindProcessById(mon.exited) # NoNode
  PROVE  LET n == FindProcessById(mon.exited)
         IN  n \in ToSet(processList) /\ n \in Nodes /\ node[n].handle = mon.exited
<1> DEFINE ns == {m \in Nodes : node[m].handle = mon.exited}
           n == FindProcessById(mon.exited)
<1>1. n = FirstListed(ns) /\ ns \in SUBSET Nodes
  BY DEF FindProcessById
<1> HIDE DEF n
<1>2. n \in ns /\ Listed(n)
  <2> HIDE DEF ns
  <2> QED BY <1>1, ListsApart, FirstListedProperties DEF n
<1> QED BY <1>2 DEF n, Listed

LEMMA ReapFacts ==
  ASSUME IInv, MonitorReap, FindProcessById(mon.exited) # NoNode
  PROVE  LET n == FindProcessById(mon.exited)
         IN  /\ n \in ToSet(processList) /\ n \in Nodes /\ node[n].handle = mon.exited
             /\ node' = [node EXCEPT ![n] = mon'.backup] /\ Tagged(node[n], mon'.backup)
             /\ mon'.pc \in {"drop", "unregister"}
             /\ "notify" \in node[n].flags \/ "notifyTerminated" \in node[n].flags =>
                  "notifyTerminated" \in mon'.backup.flags
             /\ \/ "notifyTerminated" \in mon'.backup.flags /\ UNCHANGED processList
                \/ "notifyTerminated" \notin mon'.backup.flags /\ ToSet(processList') = ToSet(processList) \ {n}
<1> DEFINE n == FindProcessById(mon.exited)
           f == ExitFlags(node[n].flags)
           p == [node[n] EXCEPT !.status = "terminated", !.flags = f]
           pc == IF "depsLoaded" \in p.flags THEN "drop" ELSE "unregister"
<1>0. mon \in MonitorState /\ node \in [Nodes -> ProcessData] /\ TypeOK /\ ListSound
  BY DEF IInv, TypeOK
<1>1. n \in ToSet(processList) /\ n \in Nodes /\ node[n].handle = mon.exited
  BY <1>0, FoundExited
<1>2. /\ node' = [node EXCEPT ![n] = p]
      /\ IF "notifyTerminated" \in p.flags THEN UNCHANGED <<processList, freeList>>
                                           ELSE ProcessList_Delete(n)
      /\ mon' = [mon EXCEPT !.backup = p, !.exited = NoPid, !.pc = pc]
  BY Zenon DEF MonitorReap
<1>3. pc \in {"drop", "unregister"}
  OBVIOUS
<1> HIDE DEF pc
<1> HIDE DEF n
<1>4. p.flags = f /\ p.handle = node[n].handle
  BY <1>0, <1>1 DEF ProcessData
<1>5. /\ SameTags(node[n].flags, f)
      /\ "notify" \in node[n].flags \/ "notifyTerminated" \in node[n].flags => "notifyTerminated" \in f
  BY DEF SameTags, ExitFlags
<1> HIDE DEF f, p
<1>6. mon'.backup = p /\ mon'.pc = pc
  BY <1>0, <1>2 DEF MonitorState
<1>7. \/ "notifyTerminated" \in p.flags /\ UNCHANGED processList
      \/ "notifyTerminated" \notin p.flags /\ ToSet(processList') = ToSet(processList) \ {n}
  BY <1>0, <1>1, <1>2, DeletedLists
<1> QED BY <1>1, <1>2, <1>3, <1>4, <1>5, <1>6, <1>7 DEF n, Tagged

LEMMA MonitorNodes ==
  ASSUME IInv, Monitor, NEW n \in Nodes
  PROVE  /\ Tagged(node[n], node'[n])
         /\ \/ Gentle(node[n], node'[n])
            \/ MonitorReap /\ FindProcessById(mon.exited) # NoNode /\ n = FindProcessById(mon.exited)
<1>0. node[n] \in ProcessData /\ Gentle(node[n], node[n]) /\ node \in [Nodes -> ProcessData]
  BY GentleIncref DEF IInv, TypeOK
<1>1. CASE MonitorReap
  <2>1. CASE FindProcessById(mon.exited) = NoNode
    <3>1. UNCHANGED node
      BY <1>1, <2>1 DEF MonitorReap, listVars
    <3> QED BY <3>1, <1>0 DEF Gentle
  <2>2. CASE FindProcessById(mon.exited) # NoNode
    <3> DEFINE m == FindProcessById(mon.exited)
               p == mon'.backup
    <3>1. m \in Nodes /\ node' = [node EXCEPT ![m] = p] /\ Tagged(node[m], p)
      BY <1>1, <2>2, ReapFacts
    <3> HIDE DEF m, p
    <3>2. IF n = m THEN node'[n] = p ELSE node'[n] = node[n]
      BY <3>1, <1>0
    <3> QED BY <3>1, <3>2, <1>0, <1>1, <2>2 DEF Gentle, m
  <2> QED BY <2>1, <2>2
<1>2. CASE MonitorDropDependencies
  <2>1. node' = DependenciesDropped(node, mon.backup.title)
    BY <1>2 DEF MonitorDropDependencies
  <2> QED BY <2>1, <1>0, GentleDrop DEF Gentle
<1>3. CASE ~MonitorReap /\ ~MonitorDropDependencies
  <2>1. UNCHANGED node
    BY <1>3 DEF Monitor, MonitorScan, MonitorCheck, MonitorSignal, MonitorWait, listVars,
       MonitorWakesForNewProcess, MonitorWakesForExit, MonitorUnregister, MonitorFinish
  <2> QED BY <2>1, <1>0 DEF Gentle
<1> QED BY <1>1, <1>2, <1>3

LEMMA CommandNodes ==
  ASSUME TypeOK, NEW n \in Nodes,
         TakeCommand \/ RunTask \/ FoundRunning \/ RunnerReady \/ RunnerTakesTask
           \/ (\E p \in Pids : Exit(p)) \/ UNCHANGED vars
  PROVE  Gentle(node[n], node'[n])
<1>0. node[n] \in ProcessData /\ Gentle(node[n], node[n]) /\ node \in [Nodes -> ProcessData]
  BY GentleIncref DEF TypeOK
<1>1. CASE ~FoundRunning
  <2>1. UNCHANGED node
    BY <1>1 DEF TakeCommand, TakeTerminateApplication, TakeTerminate, TakePrepareForReboot,
       TakeUnregisterProcess, TakeLaunchTitle, TakeLaunchAppDebug, RunTask, RunnerReady,
       RunnerTakesTask, Exit, vars, listVars
  <2> QED BY <2>1, <1>0
<1>2. CASE FoundRunning
  <2> DEFINE m == loc["main"].proc
             f == node[m].flags \ {"autoloaded"}
  <2>1. node' = [node EXCEPT ![m].flags = f]
    BY <1>2 DEF FoundRunning
  <2>2. n = m => SameTags(node[n].flags, f) /\ "autoloaded" \notin f
    BY DEF SameTags
  <2>3. SameTags(node[n].flags, node[n].flags)
    BY DEF SameTags
  <2> HIDE DEF f, m
  <2> QED BY <2>1, <2>2, <2>3, <1>0, FlagsWritten DEF Gentle, Tagged, Unasked
<1> QED BY <1>1, <1>2

(* A node stays that of its process, with its tags, unless a process is     *)
(* entered there or an application's node becomes one.                      *)
LEMMA NodesTagged ==
  ASSUME IInv, [Next]_vars, NEW n \in Nodes
  PROVE  \/ Tagged(node[n], node'[n])
         \/ \E t \in Threads : Enters(t) /\ n = Head(freeList)
         \/ \E t \in Threads : Register(t) /\ loc[t].at = 0 /\ IsApp(t) /\ n = loc[t].cur
<1>0. TypeOK /\ "main" \in Threads /\ "runner" \in Threads
  BY DEF IInv, Threads
<1>1. CASE TakeCommand \/ RunTask \/ FoundRunning \/ RunnerReady \/ RunnerTakesTask
           \/ (\E p \in Pids : Exit(p)) \/ UNCHANGED vars
  BY <1>0, <1>1, CommandNodes DEF Gentle
<1>2. CASE \E t \in Threads : Terminate(t)
  BY <1>0, <1>2, TerminationNodes
<1>3. CASE \E t \in Threads : Launch(t)
  BY <1>0, <1>3, LaunchNodes, MarkDependencyNodes DEF Gentle
<1>4. CASE Monitor
  BY <1>4, MonitorNodes
<1> QED BY <1>0, <1>1, <1>2, <1>3, <1>4 DEF Next, Main, Runner

LEMMA ListStep ==
  ASSUME IInv, [Next]_vars
  PROVE  \/ UNCHANGED processList
         \/ \E t \in Threads : /\ Enters(t) /\ Head(freeList) \in Nodes \ ToSet(processList)
                               /\ ToSet(processList') = ToSet(processList) \cup {Head(freeList)}
         \/ MonitorReap /\ FindProcessById(mon.exited) # NoNode
         \/ TakeUnregisterProcess
<1>0. TypeOK /\ ControlOK /\ ListSound
  BY DEF IInv
<1>1. \/ \E t \in Threads : Enters(t) \/ Load(t)
      \/ MonitorReap \/ MonitorFinish \/ TakeUnregisterProcess \/ Quiet
  BY <1>0, StepKinds
<1>2. CASE \E t \in Threads : Enters(t)
  BY <1>0, <1>2, EnteredLists
<1>3. CASE (\E t \in Threads : Load(t)) \/ MonitorFinish \/ Quiet
  BY <1>3 DEF Load, MonitorFinish, Quiet, listVars
<1>4. CASE MonitorReap
  BY <1>4 DEF MonitorReap, listVars
<1> QED BY <1>1, <1>2, <1>3, <1>4

---------------------------------------------------------------------------
(* What happens to a process, and through whom                              *)

Died(p) == kern[p].st \in {"loaded", "running"} /\ kern'[p] = [st |-> "dead", title |-> kern[p].title]

LEMMA TerminatedFacts ==
  ASSUME TypeOK, NEW pids, kern' = Terminated(kern, pids), NEW p \in Pids
  PROVE  kern'[p] = kern[p] \/ (p \in pids \cap held /\ Died(p))
<1>1. kern'[p] = IF p \in pids \cap held /\ kern[p].st \in {"loaded", "running"}
                 THEN [kern[p] EXCEPT !.st = "dead"] ELSE kern[p]
  BY DEF Terminated
<1>2. kern[p] \in [st : {"none", "loaded", "running", "dead"}, title : Titles \cup {NoTitle}]
  BY DEF TypeOK
<1> QED BY <1>1, <1>2 DEF Died

LEMMA LaunchKern ==
  ASSUME TypeOK, NEW t \in Threads, Launch(t), NEW p \in Pids
  PROVE  \/ kern'[p] = kern[p]
         \/ Died(p) /\ \/ RunFails(t) /\ p = node[loc[t].cur].handle
                       \/ Abandon(t) /\ p = node[loc[t].proc].handle
         \/ /\ RunSucceeds(t) /\ p = node[loc[t].cur].handle /\ kern[p].st = "loaded"
            /\ kern'[p] = [st |-> "running", title |-> kern[p].title]
         \/ /\ Load(t) /\ p = NextPid /\ kern[p].st = "none"
            /\ kern'[p] = [st |-> "loaded", title |-> loc[t].title]
<1>0. TypeOK
  OBVIOUS
<1>1. kern \in KernType /\ kern[p] \in [st : {"none", "loaded", "running", "dead"}, title : Titles \cup {NoTitle}]
  BY <1>0 DEF TypeOK, KernType
<1>2. ASSUME NEW q, NEW s, kern' = [kern EXCEPT ![q].st = s]
      PROVE  kern'[p] = IF p = q THEN [st |-> s, title |-> kern[p].title] ELSE kern[p]
  <2>1. CASE p = q
    <3>1. kern'[p] = [kern[p] EXCEPT !.st = s]
      BY <1>1, <1>2, <2>1 DEF KernType
    <3> QED BY <1>1, <2>1, <3>1
  <2>2. CASE p # q
    BY <1>1, <1>2, <2>2 DEF KernType
  <2> QED BY <2>1, <2>2
<1>3. CASE Load(t)
  <2>1. NextPid \in Pids /\ kern[NextPid].st = "none"
    BY <1>3, NextPidOK DEF Load
  <2>2. kern' = [kern EXCEPT ![NextPid] = [st |-> "loaded", title |-> loc[t].title]]
    BY <1>3 DEF Load
  <2> QED BY <2>1, <2>2, <1>3, <1>1 DEF KernType
<1>4. CASE RunSucceeds(t)
  <2> DEFINE q == node[loc[t].cur].handle
  <2>1. kern' = [kern EXCEPT ![q].st = "running"] /\ kern[q].st = "loaded"
    BY <1>4 DEF RunSucceeds, Runs
  <2> HIDE DEF q
  <2> QED BY <2>1, <1>4, <1>2 DEF q
<1>5. CASE RunFails(t)
  <2> DEFINE q == node[loc[t].cur].handle
  <2>1. kern' = Terminated(kern, {q})
    BY <1>5 DEF RunFails
  <2> HIDE DEF q
  <2>2. kern'[p] = kern[p] \/ (p = q /\ Died(p))
    BY <2>1, <1>0, TerminatedFacts
  <2> QED BY <2>2, <1>5 DEF q
<1>6. CASE Abandon(t)
  <2> DEFINE q == node[loc[t].proc].handle
  <2>1. kern' = Terminated(kern, {q})
    BY <1>6 DEF Abandon
  <2> HIDE DEF q
  <2>2. kern'[p] = kern[p] \/ (p = q /\ Died(p))
    BY <2>1, <1>0, TerminatedFacts
  <2> QED BY <2>2, <1>6 DEF q
<1>7. CASE ~(Load(t) \/ RunSucceeds(t) \/ RunFails(t) \/ Abandon(t))
  BY <1>2, <1>7 DEF Launch, CheckLaunch, LoadFails, Insert, Register, MergeOwn, MergeDependency,
     Merge, Mark, MarkDependency, Panic, kernelVars
<1> QED BY <1>3, <1>4, <1>5, <1>6, <1>7

LEMMA KernCases ==
  ASSUME IInv, [Next]_vars, NEW p \in Pids
  PROVE  \/ kern'[p] = kern[p]
         \/ Died(p) /\ Exit(p)
         \/ Died(p) /\ \E t \in Threads : /\ Commit(t) \/ KillOverdue(t)
                                          /\ p \in HandlesOf(NodesOf("failed") \cup NodesOf("sent"))
         \/ Died(p) /\ TakeTerminate /\ preparingForReboot /\ p \in HandlesOf(ToSet(processList))
         \/ Died(p) /\ \E t \in Threads : \/ RunFails(t) /\ p = node[loc[t].cur].handle
                                          \/ Abandon(t) /\ p = node[loc[t].proc].handle
         \/ \E t \in Threads : /\ RunSucceeds(t) /\ p = node[loc[t].cur].handle /\ kern[p].st = "loaded"
                               /\ kern'[p] = [st |-> "running", title |-> kern[p].title]
         \/ \E t \in Threads : /\ Load(t) /\ p = NextPid /\ kern[p].st = "none"
                               /\ kern'[p] = [st |-> "loaded", title |-> loc[t].title]
<1>0. TypeOK /\ "main" \in Threads /\ "runner" \in Threads
  BY DEF IInv, Threads
<1>1. kern \in KernType /\ kern[p] \in [st : {"none", "loaded", "running", "dead"}, title : Titles \cup {NoTitle}]
  BY <1>0 DEF TypeOK, KernType
<1>2. ASSUME NEW q, NEW s, kern' = [kern EXCEPT ![q].st = s]
      PROVE  kern'[p] = IF p = q THEN [st |-> s, title |-> kern[p].title] ELSE kern[p]
  <2>1. CASE p = q
    <3>1. kern'[p] = [kern[p] EXCEPT !.st = s]
      BY <1>1, <1>2, <2>1 DEF KernType
    <3> QED BY <1>1, <2>1, <3>1
  <2>2. CASE p # q
    BY <1>1, <1>2, <2>2 DEF KernType
  <2> QED BY <2>1, <2>2
<1>3. CASE TakeCommand
  <2>1. CASE UNCHANGED kern
    BY <2>1
  <2>2. CASE ~UNCHANGED kern
    <3>1. TakeTerminate
      BY <1>3, <2>2 DEF TakeCommand, TakeTerminateApplication, TakePrepareForReboot,
         TakeUnregisterProcess, TakeLaunchTitle, TakeLaunchAppDebug, kernelVars
    <3>2. preparingForReboot /\ \E pids : pids \subseteq HandlesOf(ToSet(processList)) /\ kern' = Terminated(kern, pids)
      <4>1. \A r : HandlesOf({n \in ToSet(processList) : Wanted(r, n)}) \subseteq HandlesOf(ToSet(processList))
        BY DEF HandlesOf
      <4> QED BY <4>1, <3>1, <2>2 DEF TakeTerminate
    <3> QED BY <3>1, <3>2, <1>0, TerminatedFacts
  <2> QED BY <2>1, <2>2
<1>4. CASE RunTask \/ FoundRunning \/ RunnerReady \/ RunnerTakesTask \/ UNCHANGED vars
  BY <1>4 DEF RunTask, FoundRunning, RunnerReady, RunnerTakesTask, kernelVars, vars
<1>5. CASE \E t \in Threads : Terminate(t)
  <2>1. PICK t \in Threads : Terminate(t)
    BY <1>5
  <2>2. CASE Commit(t) \/ KillOverdue(t)
    <3>1. kern' = Terminated(kern, HandlesOf(NodesOf("failed"))) \/ kern' = Terminated(kern, HandlesOf(NodesOf("sent")))
      BY <2>2 DEF Commit, KillOverdue, Overdue
    <3>2. HandlesOf(NodesOf("failed")) \cup HandlesOf(NodesOf("sent")) = HandlesOf(NodesOf("failed") \cup NodesOf("sent"))
      BY DEF HandlesOf
    <3> QED BY <3>1, <3>2, <2>2, <1>0, TerminatedFacts
  <2>3. CASE ~(Commit(t) \/ KillOverdue(t))
    BY <2>1, <2>3 DEF Terminate, ClearEvent, Arm, TerminateApplication, LoopBegin, LoopNext, LoopEnd,
       FindCaller, NotifyAll, NotifyLast, WaitUntilTimeout, WaitForever, WaitFor, Timeout,
       Disarm, Panic, kernelVars
  <2> QED BY <2>2, <2>3
<1>6. CASE \E t \in Threads : Launch(t)
  BY <1>0, <1>6, LaunchKern
<1>7. CASE Monitor
  BY <1>7 DEF Monitor, MonitorScan, MonitorCheck, MonitorSignal, MonitorWait,
     MonitorWakesForNewProcess, MonitorWakesForExit, MonitorReap, MonitorDropDependencies,
     MonitorUnregister, MonitorFinish, kernelVars
<1>8. CASE \E q \in Pids : Exit(q)
  <2>1. PICK q \in Pids : Exit(q)
    BY <1>8
  <2>2. kern' = [kern EXCEPT ![q].st = "dead"] /\ kern[q].st = "running"
    BY <2>1 DEF Exit
  <2>3. kern'[p] = IF p = q THEN [st |-> "dead", title |-> kern[p].title] ELSE kern[p]
    BY <2>2, <1>2
  <2> QED BY <2>1, <2>2, <2>3 DEF Died
<1> QED BY <1>0, <1>3, <1>4, <1>5, <1>6, <1>7, <1>8 DEF Next, Main, Runner

(* A process keeps its title, and goes from loaded to running to dead.      *)
LEMMA KernGoesOn ==
  ASSUME IInv, [Next]_vars, NEW p \in Pids, kern[p].st # "none"
  PROVE  /\ kern'[p].title = kern[p].title /\ kern'[p].st # "none"
         /\ Dead(p) => Dead(p)'
         /\ kern[p].st # "loaded" => kern'[p].st # "loaded"
<1>1. \/ kern'[p] = kern[p] \/ Died(p)
      \/ kern[p].st = "loaded" /\ kern'[p] = [st |-> "running", title |-> kern[p].title]
  BY KernCases
<1> QED BY <1>1 DEF Dead, Died

---------------------------------------------------------------------------
(* The nodes a thread that launches has in its hands                        *)

(* While this thread launches, nobody ends what it launches.                *)
Careful(t) == Patient \/ t = "runner" \/ Launches("runner") \/ parametersSet

(* A process nobody has asked to end and that does not end by itself, and   *)
(* its node                                                                 *)
Alive(k) == k.st = "loaded" \/ (k.st = "running" /\ k.title \notin Leaving)
Firm(n) == n \in Nodes /\ Listed(n) /\ Unasked(node[n]) /\ Alive(kern[node[n].handle])

(* Has the thread the node of the title it was asked for, or of the         *)
(* dependency it works on, and what does it know of it?                     *)
OuterIn(t) == Starting(t) /\ ~(loc[t].at = 0 /\ loc[t].pc \in {"load", "insert"})
CurIn(t)   == loc[t].at # 0 /\ loc[t].pc \in {"register", "run", "markDep"}
OuterOK(l) ==
  /\ Firm(l.proc) /\ kern[node[l.proc].handle].st = "loaded"
  /\ l.pc \in {"merge", "mark"} \/ (l.at = 0 /\ l.pc = "register") => node[l.proc].handle = l.pid
  /\ l.at = 0 /\ l.pc \in {"register", "run"} => l.cur = l.proc
  /\ "app" \in node[l.proc].flags => l.req.app
  /\ l.req.app /\ (l.pc # "register" \/ l.at # 0) => "app" \in node[l.proc].flags
CurOK(l) ==
  /\ Firm(l.cur) /\ l.cur # l.proc /\ node[l.cur].handle = l.pid /\ kern[l.pid].title = l.title
  /\ l.pc \in {"register", "run"} => kern[l.pid].st = "loaded"
  /\ "app" \notin node[l.cur].flags
CareOf(t) == Careful(t) => (OuterIn(t) => OuterOK(loc[t])) /\ (CurIn(t) => CurOK(loc[t]))
Apart == OuterIn("main") /\ OuterIn("runner") =>
           /\ loc["main"].proc # loc["runner"].proc
           /\ CurIn("runner") => loc["main"].proc # loc["runner"].cur

(* Dependencies in the array, processes to be entered, processes that have  *)
(* exited, and the slot while an application is launched                    *)
Plain(l) ==
  /\ \A k \in DOMAIN l.array : l.array[k].title \notin Leaving
  /\ l.pc \in LaunchPlaces /\ l.at # 0 => l.title \notin Leaving
PlainOK == \A t \in Threads : Plain(loc[t])
LoadedOf(t) == Entering(t) => kern[loc[t].pid].st = "loaded" /\ kern[loc[t].pid].title = loc[t].title
LoadedOK == \A t \in Threads : LoadedOf(t)
ExitedOK ==
  /\ mon.pc = "reap" => mon.exited \in Pids /\ Dead(mon.exited)
  /\ mon.pc \in {"drop", "unregister", "finish"} => mon.backup.handle \in Pids /\ Dead(mon.backup.handle)
SlotFree == \A t \in Threads : Starting(t) /\ IsApp(t) => running = NoNode

Care == (\A t \in Threads : CareOf(t)) /\ Apart /\ PlainOK /\ LoadedOK /\ ExitedOK /\ SlotFree

(* The system modules that are dependencies do not end by themselves.       *)
DepsStay == \A x \in Titles : ToSet(Deps[x]) \cap Leaving = {}

---------------------------------------------------------------------------
(* What the monitor cleans up after has ended.                              *)
LEMMA ExitedStep ==
  ASSUME IInv, ExitedOK, [Next]_vars
  PROVE  ExitedOK'
<1>0. TypeOK /\ ListSound /\ mon \in MonitorState
  BY DEF IInv, TypeOK
<1>1. \A p \in Pids : Dead(p) => Dead(p)'
  <2> SUFFICES ASSUME NEW p \in Pids, Dead(p) PROVE Dead(p)'
    OBVIOUS
  <2> QED BY KernGoesOn DEF Dead
<1>2. CASE UNCHANGED <<mon>>
  BY <1>1, <1>2 DEF ExitedOK
<1>3. CASE MonitorScan \/ MonitorCheck \/ MonitorSignal \/ MonitorWait \/ MonitorWakesForNewProcess
  <2>1. mon'.pc \in {"scan", "check", "signal", "wait", "asleep"}
    BY <1>0, <1>3 DEF MonitorScan, MonitorCheck, MonitorSignal, MonitorWait,
       MonitorWakesForNewProcess, MonitorState
  <2> QED BY <2>1 DEF ExitedOK
<1>4. CASE MonitorWakesForExit
  <2>1. PICK k \in DOMAIN mon.handles :
          Dead(mon.handles[k]) /\ mon' = [mon EXCEPT !.pc = "reap", !.exited = mon.handles[k]]
    BY <1>4 DEF MonitorWakesForExit
  <2>2. mon.handles[k] \in Pids /\ mon'.pc = "reap" /\ mon'.exited = mon.handles[k]
    BY <1>0, <2>1 DEF MonitorState
  <2>3. Dead(mon.handles[k])'
    BY <1>1, <2>1, <2>2 DEF Dead
  <2> QED BY <2>2, <1>1, <2>1 DEF ExitedOK, Dead
<1>5. CASE MonitorReap
  <2>1. CASE FindProcessById(mon.exited) = NoNode
    <3>1. mon' = [mon EXCEPT !.pc = "scan", !.exited = NoPid]
      BY <1>5, <2>1 DEF MonitorReap
    <3>2. mon'.pc = "scan"
      BY <1>0, <3>1 DEF MonitorState
    <3> QED BY <3>2 DEF ExitedOK
  <2>2. CASE FindProcessById(mon.exited) # NoNode
    <3>1. mon'.backup.handle = mon.exited /\ mon'.pc \in {"drop", "unregister"}
      BY <1>5, <2>2, ReapFacts DEF Tagged
    <3>2. mon.pc = "reap"
      BY <1>5 DEF MonitorReap, MonitorIs
    <3> QED BY <3>1, <3>2, <1>1 DEF ExitedOK, Dead
  <2> QED BY <2>1, <2>2
<1>6. CASE MonitorDropDependencies \/ MonitorUnregister
  <2>1. /\ mon.pc \in {"drop", "unregister"} /\ mon'.pc \in {"unregister", "finish"}
        /\ mon'.backup = mon.backup
    BY <1>0, <1>6 DEF MonitorDropDependencies, MonitorUnregister, MonitorIs, MonitorState
  <2> QED BY <2>1, <1>1 DEF ExitedOK, Dead
<1>7. CASE MonitorFinish
  <2>1. mon'.pc = "scan"
    BY <1>0, <1>7 DEF MonitorFinish, MonitorState
  <2> QED BY <2>1 DEF ExitedOK
<1>8. CASE ~Monitor
  <2>1. UNCHANGED mon
    BY <1>8 DEF Next, Main, Runner, TakeCommand, TakeTerminateApplication, TakeTerminate,
       TakePrepareForReboot, TakeUnregisterProcess, TakeLaunchTitle, TakeLaunchAppDebug, RunTask,
       FoundRunning, RunnerReady, RunnerTakesTask, Exit, vars, Terminate, ClearEvent, Arm,
       TerminateApplication, LoopBegin, LoopNext, LoopEnd, FindCaller, NotifyAll, NotifyLast, Commit,
       WaitUntilTimeout, WaitForever, WaitFor, Timeout, KillOverdue, Disarm, Panic, Launch,
       CheckLaunch, Load, LoadFails, Insert, Register, MergeOwn, MergeDependency, Merge, Mark,
       RunSucceeds, RunFails, Abandon, MarkDependency
  <2> QED BY <2>1, <1>2
<1> QED BY <1>3, <1>4, <1>5, <1>6, <1>7, <1>8 DEF Monitor

---------------------------------------------------------------------------
(* Who works while a careful thread launches                                *)
LEMMA Workers ==
  ASSUME IInv, Orders, NEW t \in Threads, Careful(t), Starting(t)
  PROVE  /\ \A u \in Threads : loc[u].pc \in Ending =>
              /\ ~Patient /\ u = "main" /\ t = "runner" /\ IsApp(t)
              /\ loc[u].pc \notin {"loop", "caller", "all", "last"}
         /\ \A u \in Threads : Launches(u) /\ u # t => ~Patient
         /\ ~Patient => ~preparingForReboot /\ \A u \in Threads : Careful(u)
         /\ Patient => ~TakeCommand
<1>0. LocsOK /\ "main" \in Threads /\ "runner" \in Threads /\ \A u \in Threads : u = "main" \/ u = "runner"
  BY DEF IInv, TypeOK, ControlOK, LocsOK, Threads
<1>1. /\ loc[t].pc \in LaunchPlaces /\ Launches(t)
      /\ loc[t].pc \notin Ending \cup {"idle", "top", "parameters", "check"}
  BY RoleFacts DEF Starting, Launches
<1>2. CASE Patient
  <2>1. t = "main" => RunnerRests /\ loc["runner"].pc \notin Ending \cup LaunchPlaces \cup {"check"}
    BY <1>1, <1>2, RoleFacts DEF Orders, Single, RunnerRests
  <2>2. t = "runner" => loc["main"].pc = "idle" /\ ~RunnerRests
    BY <1>1, <1>2 DEF Orders, Single, RunnerRests
  <2>3. "idle" \notin Ending \cup LaunchPlaces \cup {"check"}
    BY RoleFacts
  <2>4. TakeCommand => loc["main"].pc = "idle" /\ Settled
    BY <1>0, <1>2, TakeLoc
  <2>5. ~TakeCommand
    BY <2>1, <2>2, <2>4, <1>0, <1>1 DEF Settled, RunnerRests
  <2>6. \A u \in Threads : loc[u].pc \notin Ending /\ (u # t => ~Launches(u))
    BY <1>0, <1>1, <2>1, <2>2, <2>3 DEF Launches
  <2> QED BY <1>2, <2>5, <2>6
<1>3. CASE ~Patient
  <2>1. ~preparingForReboot /\ MainRole(loc["main"]) /\ RunnerRole(loc["runner"])
    BY <1>3 DEF Orders, Roles
  <2>2. \A u \in Threads : Careful(u)
    BY <1>0, <1>1, <1>3 DEF Careful
  <2>3. ASSUME NEW u \in Threads, loc[u].pc \in Ending
        PROVE  u = "main" /\ t = "runner" /\ IsApp(t) /\ loc[u].pc \notin {"loop", "caller", "all", "last"}
    <3>1. u # t
      BY <1>1, <2>3
    <3>2. CASE t = "main"
      <4>1. u = "runner" /\ (Launches("runner") \/ parametersSet)
        BY <1>0, <1>3, <3>1, <3>2 DEF Careful
      <4>2. loc["runner"].pc \notin LaunchPlaces \cup {"check"} \cup {"parameters"}
        BY <2>3, <4>1, RoleFacts
      <4>3. parametersSet => loc["runner"].pc = "parameters"
        BY DEF Orders, HandOverOK
      <4> QED BY <4>1, <4>2, <4>3 DEF Launches
    <3>3. CASE t = "runner"
      <4>1. u = "main" /\ loc[u].pc \notin {"loop", "caller", "all", "last"}
        BY <1>0, <2>1, <2>3, <3>1, <3>3 DEF MainRole
      <4>2. IsApp(t)
        BY <1>1, <2>1, <3>3 DEF RunnerRole, IsApp
      <4> QED BY <4>1, <4>2, <3>3
    <3> QED BY <1>0, <3>2, <3>3
  <2> QED BY <1>3, <2>1, <2>2, <2>3
<1> QED BY <1>2, <1>3

---------------------------------------------------------------------------
(* A firm node stays firm                                                   *)

Undisturbed(n) ==
  /\ Listed(n)' /\ Gentle(node[n], node'[n])
  /\ kern'[node[n].handle] = kern[node[n].handle]

LEMMA UndisturbedFirm ==
  ASSUME NEW n, Firm(n), Undisturbed(n)
  PROVE  /\ Firm(n)' /\ node'[n].handle = node[n].handle
         /\ "app" \in node'[n].flags <=> "app" \in node[n].flags
         /\ kern'[node'[n].handle] = kern[node[n].handle]
BY DEF Firm, Undisturbed, Gentle, Tagged, SameTags, Unasked

LEMMA FirmFacts ==
  ASSUME IInv, NEW n, Firm(n)
  PROVE  /\ n \in Nodes /\ n \in ToSet(processList) /\ node[n].handle \in Pids \cap held
         /\ kern[node[n].handle].st \in {"loaded", "running"}
         /\ \A m \in ToSet(processList) : node[m].handle = node[n].handle => m = n
         /\ node[n].handle \notin HandlesOf(NodesOf("failed") \cup NodesOf("sent"))
<1>0. TypeOK /\ ListSound
  BY DEF IInv
<1>1. n \in ToSet(processList) /\ n \in Nodes /\ node[n].status = "running"
  BY DEF Firm, Listed, Unasked
<1>2. node[n].handle \in Pids \cap held
  BY <1>0, <1>1, ListedHandles
<1>3. \A m \in ToSet(processList) : node[m].handle = node[n].handle => m = n
  BY <1>0, <1>1 DEF ListSound
<1>4. \A m \in NodesOf("failed") \cup NodesOf("sent") : m \in ToSet(processList) /\ node[m].status # "running"
  BY DEF NodesOf
<1>5. node[n].handle \notin HandlesOf(NodesOf("failed") \cup NodesOf("sent"))
  BY <1>1, <1>3, <1>4 DEF HandlesOf
<1>6. kern[node[n].handle].st \in {"loaded", "running"}
  BY DEF Firm, Alive
<1> QED BY <1>1, <1>2, <1>3, <1>5, <1>6

LEMMA CalmStep ==
  ASSUME Orderly, IInv, Orders, ExitedOK, SlotFree, [Next]_vars,
         NEW t \in Threads, Careful(t), Starting(t), NEW n, Firm(n),
         \A u \in Threads : ~Launch(u)
  PROVE  Undisturbed(n)
<1> DEFINE p == node[n].handle
<1>0. TypeOK /\ LocsOK /\ "main" \in Threads /\ "runner" \in Threads
  BY DEF IInv, TypeOK, ControlOK, LocsOK, Threads
<1>1. /\ n \in Nodes /\ n \in ToSet(processList) /\ p \in Pids /\ kern[p].st \in {"loaded", "running"}
      /\ \A m \in ToSet(processList) : node[m].handle = p => m = n
      /\ p \notin HandlesOf(NodesOf("failed") \cup NodesOf("sent"))
      /\ node[n].status = "running" /\ Alive(kern[p]) /\ Unasked(node[n])
  BY FirmFacts DEF Firm, Unasked
<1>2. TakeCommand =>
        /\ ~Patient /\ ~preparingForReboot
        /\ \A r \in Requests : r.op \in EndOps \cup {"TerminateApplication"} \/ r.op = "LaunchTitle"
  BY Workers DEF Orderly
<1>3. Listed(n)'
  <2>1. ~TakeUnregisterProcess
    BY <1>2 DEF TakeCommand, TakeUnregisterProcess, Takes, EndOps
  <2>2. CASE UNCHANGED processList
    BY <2>2, <1>1 DEF Listed
  <2>3. CASE MonitorReap /\ FindProcessById(mon.exited) # NoNode
    <3> DEFINE m == FindProcessById(mon.exited)
    <3>1. node[m].handle = mon.exited /\ (UNCHANGED processList \/ ToSet(processList') = ToSet(processList) \ {m})
      BY <2>3, ReapFacts
    <3>2. mon.pc = "reap"
      BY <2>3 DEF MonitorReap, MonitorIs
    <3>3. m # n
      BY <3>1, <3>2, <1>1 DEF ExitedOK, Dead
    <3> QED BY <3>1, <3>3, <1>1 DEF Listed
  <2>4. \A u \in Threads : ~Enters(u)
    BY DEF Launch, Enters
  <2> QED BY <2>1, <2>2, <2>3, <2>4, ListStep
<1>4. Gentle(node[n], node'[n])
  <2>1. CASE TakeCommand \/ RunTask \/ FoundRunning \/ RunnerReady \/ RunnerTakesTask
             \/ (\E q \in Pids : Exit(q)) \/ UNCHANGED vars
    BY <1>0, <1>1, <2>1, CommandNodes
  <2>2. CASE \E u \in Threads : Terminate(u)
    <3>1. PICK u \in Threads : Terminate(u)
      BY <2>2
    <3>2. loc[u].pc \in Ending
      BY <1>0, <3>1, EndLoc
    <3>3. IsApp(t) /\ loc[u].pc \notin {"loop", "caller", "all", "last"}
      BY <3>2, Workers
    <3>4. running = NoNode
      BY <3>3 DEF SlotFree
    <3>5. UNCHANGED node
      BY <3>1, <3>3, <3>4 DEF Terminate, ClearEvent, Arm, TerminateApplication, LoopBegin, LoopNext,
         LoopEnd, FindCaller, NotifyAll, NotifyLast, Commit, WaitUntilTimeout, WaitForever, WaitFor,
         Timeout, KillOverdue, Disarm, At, listVars
    <3> QED BY <3>5, <1>0, <1>1, GentleIncref DEF TypeOK
  <2>3. CASE Monitor
    <3>1. ~(MonitorReap /\ FindProcessById(mon.exited) # NoNode /\ n = FindProcessById(mon.exited))
      <4> SUFFICES ASSUME MonitorReap, FindProcessById(mon.exited) # NoNode, n = FindProcessById(mon.exited)
                   PROVE  FALSE
        OBVIOUS
      <4>1. node[n].handle = mon.exited
        BY ReapFacts
      <4>2. mon.pc = "reap"
        BY DEF MonitorReap, MonitorIs
      <4> QED BY <4>1, <4>2, <1>1 DEF ExitedOK, Dead
    <3> QED BY <3>1, <2>3, <1>1, MonitorNodes
  <2> QED BY <2>1, <2>2, <2>3, <1>0 DEF Next, Main, Runner
<1>5. kern'[p] = kern[p]
  <2>1. ~Exit(p)
    <3> SUFFICES ASSUME Exit(p) PROVE FALSE
      OBVIOUS
    <3>1. kern[p].st = "running" /\ (kern[p].title \in Leaving \/ AskedToEnd(p))
      BY DEF Exit
    <3>2. AskedToEnd(p)
      BY <1>1, <3>1 DEF Alive
    <3> QED BY <3>2, <1>1 DEF AskedToEnd
  <2>2. ~(TakeTerminate /\ preparingForReboot)
    BY <1>2 DEF TakeCommand
  <2>3. \A u \in Threads : ~RunFails(u) /\ ~RunSucceeds(u) /\ ~Abandon(u) /\ ~Load(u)
    BY DEF Launch
  <2> HIDE DEF p
  <2> QED BY <2>1, <2>2, <2>3, <1>1, KernCases
<1> QED BY <1>3, <1>4, <1>5 DEF Undisturbed

(* What the threads have in their hands is not this node.                   *)
Away(u, n) ==
  /\ loc[u].pc = "run" => Firm(loc[u].cur) /\ loc[u].cur # n
  /\ loc[u].pc = "abandon" => Firm(loc[u].proc) /\ loc[u].proc # n
  /\ loc[u].pc = "markDep" => loc[u].cur # n
  /\ loc[u].pc = "register" /\ loc[u].at = 0 /\ IsApp(u) => loc[u].cur # n

LEMMA LaunchCalm ==
  ASSUME IInv, NEW v \in Threads, Launch(v), NEW n, Firm(n), Away(v, n)
  PROVE  Undisturbed(n)
<1> DEFINE p == node[n].handle
<1>0. TypeOK /\ LocsOK /\ ListSound /\ "main" \in Threads /\ "runner" \in Threads
  BY DEF IInv, TypeOK, ControlOK, LocsOK, Threads
<1>1. /\ n \in Nodes /\ n \in ToSet(processList) /\ p \in Pids /\ kern[p].st \in {"loaded", "running"}
      /\ \A m \in ToSet(processList) : node[m].handle = p => m = n
      /\ p \notin HandlesOf(NodesOf("failed") \cup NodesOf("sent"))
  BY FirmFacts
<1>2. \A m : Firm(m) /\ m # n => node[m].handle # p
  BY <1>1 DEF Firm, Listed
<1>3. ~Enters(v) \/ Head(freeList) # n
  BY <1>0, <1>1, EnteredLists
<1>4. Gentle(node[n], node'[n])
  <2>1. ~(Register(v) /\ loc[v].at = 0 /\ IsApp(v) /\ n = loc[v].cur)
    BY DEF Register, At, Away
  <2>2. ~(MarkDependency(v) /\ n = loc[v].cur)
    BY DEF MarkDependency, At, Away
  <2> QED BY <2>1, <2>2, <1>0, <1>1, <1>3, LaunchNodes
<1>5. Listed(n)'
  <2>1. UNCHANGED processList \/ Enters(v)
    BY DEF Launch, CheckLaunch, Load, LoadFails, Insert, Enters, Register, MergeOwn,
       MergeDependency, Merge, Mark, RunSucceeds, RunFails, Abandon, MarkDependency, Panic, listVars
  <2>2. Enters(v) => ToSet(processList') = ToSet(processList) \cup {Head(freeList)}
    BY <1>0, EnteredLists
  <2> QED BY <2>1, <2>2, <1>1 DEF Listed
<1>6. kern'[p] = kern[p]
  <2> HIDE DEF p
  <2>1. /\ RunFails(v) \/ RunSucceeds(v) => p # node[loc[v].cur].handle
        /\ Abandon(v) => p # node[loc[v].proc].handle
    BY <1>2 DEF RunFails, RunSucceeds, Abandon, At, Away
  <2> QED BY <2>1, <1>0, <1>1, LaunchKern
<1> QED BY <1>4, <1>5, <1>6 DEF Undisturbed

(* What another thread has in its hands is never what this one has.         *)
LEMMA OthersAway ==
  ASSUME IInv, Orders, Care, NEW t \in Threads, Careful(t), Starting(t), NEW u \in Threads, u # t
  PROVE  /\ OuterIn(t) => Away(u, loc[t].proc)
         /\ CurIn(t) => Away(u, loc[t].cur)
<1>0. /\ LocsOK /\ "main" \in Threads /\ "runner" \in Threads
      /\ (t = "main" /\ u = "runner") \/ (t = "runner" /\ u = "main")
  BY DEF IInv, TypeOK, ControlOK, LocsOK, Threads
<1>1. CASE loc[u].pc \notin {"run", "abandon", "markDep", "register"}
  BY <1>1 DEF Away
<1>2. CASE loc[u].pc \in {"run", "abandon", "markDep", "register"}
  <2>1. Launches(u) /\ Starting(u) /\ OuterIn(u)
    BY <1>2 DEF Launches, Starting, OuterIn, LaunchPlaces
  <2>2. ~Patient /\ Careful(u)
    BY <2>1, Workers
  <2>3. OuterOK(loc[t]) \/ ~OuterIn(t)
    BY DEF Care, CareOf
  <2>4. OuterOK(loc[u]) /\ (CurIn(u) => CurOK(loc[u])) /\ PlaceOK(loc[u])
    BY <1>0, <2>1, <2>2 DEF Care, CareOf, LocsOK
  <2>5. /\ MainRole(loc["main"])
        /\ loc["main"].pc \in LaunchPlaces /\ loc["main"].at = 0 /\ ~IsApp("main")
        /\ loc["main"].pc \in {"load", "insert", "register", "run"}
    <3>1. MainRole(loc["main"]) /\ Launches("main") /\ Starting("main")
      BY <1>0, <2>1, <2>2 DEF Orders, Roles, Launches, Starting
    <3>2. loc["main"].pc # "check"
      BY <3>1 DEF Starting, LaunchPlaces
    <3> QED BY <3>1, <3>2 DEF MainRole, IsApp, Launches, Starting
  <2>6. CASE t = "main"
    <3>1. u = "runner" /\ ~CurIn(t)
      BY <1>0, <2>5, <2>6 DEF CurIn
    <3>2. CASE OuterIn(t)
      <4>1. /\ loc[t].proc # loc[u].proc /\ (CurIn(u) => loc[t].proc # loc[u].cur)
        BY <2>1, <2>6, <3>1, <3>2 DEF Care, Apart
      <4>2. CASE CurIn(u)
        BY <2>4, <3>1, <4>1, <4>2 DEF Away, CurOK, CurIn
      <4>3. CASE ~CurIn(u)
        <5>1. loc[u].at = 0 \/ loc[u].pc = "abandon"
          BY <1>2, <4>3 DEF CurIn
        <5>2. loc[u].pc # "markDep"
          BY <2>4, <5>1 DEF PlaceOK
        <5>3. loc[u].at = 0 /\ loc[u].pc \in {"register", "run"} => loc[u].cur = loc[u].proc
          BY <2>4 DEF OuterOK
        <5> QED BY <2>4, <3>1, <4>1, <5>1, <5>2, <5>3 DEF Away, OuterOK
      <4> QED BY <4>2, <4>3
    <3> QED BY <3>1, <3>2
  <2>7. CASE t = "runner"
    <3>1. u = "main" /\ loc[u].pc \in {"register", "run"} /\ loc[u].at = 0
      BY <1>0, <1>2, <2>5, <2>7
    <3>2. loc[u].cur = loc[u].proc /\ Firm(loc[u].proc) /\ ~IsApp(u)
      BY <2>4, <2>5, <3>1 DEF OuterOK
    <3>3. OuterIn(t) => loc[u].proc # loc[t].proc
      BY <2>1, <2>7, <3>1 DEF Care, Apart
    <3>4. CurIn(t) => OuterIn(t) /\ loc[u].proc # loc[t].cur
      <4>1. CurIn(t) => OuterIn(t)
        BY DEF CurIn, OuterIn, Starting, LaunchPlaces
      <4> QED BY <4>1, <2>1, <2>7, <3>1 DEF Care, Apart
    <3> QED BY <3>1, <3>2, <3>3, <3>4 DEF Away
  <2> QED BY <1>0, <2>6, <2>7
<1> QED BY <1>1, <1>2

(* So what a careful thread has in its hands stays as it is while others    *)
(* work.                                                                    *)
LEMMA OthersCalm ==
  ASSUME Orderly, IInv, Orders, Care, [Next]_vars, NEW t \in Threads, Careful(t), Starting(t), ~Launch(t)
  PROVE  /\ OuterIn(t) => Undisturbed(loc[t].proc)
         /\ CurIn(t) => Undisturbed(loc[t].cur)
<1>1. /\ OuterIn(t) => Firm(loc[t].proc)
      /\ CurIn(t) => Firm(loc[t].cur)
  BY DEF Care, CareOf, OuterOK, CurOK
<1>2. CASE \A u \in Threads : ~Launch(u)
  BY <1>1, <1>2, CalmStep DEF Care
<1>3. CASE \E u \in Threads : Launch(u)
  <2>1. PICK u \in Threads : Launch(u)
    BY <1>3
  <2>2. u # t
    BY <2>1
  <2>3. (OuterIn(t) => Away(u, loc[t].proc)) /\ (CurIn(t) => Away(u, loc[t].cur))
    BY <2>2, OthersAway
  <2> QED BY <1>1, <2>1, <2>3, LaunchCalm
<1> QED BY <1>2, <1>3

---------------------------------------------------------------------------
(* A launch takes care of its nodes                                         *)

LEMMA OuterKept ==
  ASSUME NEW t, OuterOK(loc[t]), Undisturbed(loc[t].proc),
         loc'[t].proc = loc[t].proc, loc'[t].req = loc[t].req,
         loc'[t].pc \in {"merge", "mark"} \/ (loc'[t].at = 0 /\ loc'[t].pc = "register") =>
           node[loc[t].proc].handle = loc'[t].pid,
         loc'[t].at = 0 /\ loc'[t].pc \in {"register", "run"} => loc'[t].cur = loc[t].proc,
         loc[t].req.app /\ (loc'[t].pc # "register" \/ loc'[t].at # 0) => "app" \in node[loc[t].proc].flags
  PROVE  OuterOK(loc[t])'
<1>1. Firm(loc[t].proc)
  BY DEF OuterOK
<1> DEFINE n == loc[t].proc
<1>2. /\ Firm(n)' /\ node'[n].handle = node[n].handle
      /\ "app" \in node'[n].flags <=> "app" \in node[n].flags
      /\ kern'[node'[n].handle] = kern[node[n].handle]
  BY <1>1, UndisturbedFirm
<1>3. Firm(loc[t].proc)'
  BY <1>2 DEF Firm, Listed
<1> QED BY <1>2, <1>3 DEF OuterOK

LEMMA OwnAway ==
  ASSUME IInv, Care, NEW t \in Threads, Careful(t), OuterIn(t),
         loc[t].pc \notin {"abandon"}, loc[t].at # 0 \/ loc[t].pc \notin {"register", "run"},
         Launch(t)
  PROVE  Firm(loc[t].proc) /\ OuterOK(loc[t]) /\ Undisturbed(loc[t].proc)
<1>1. OuterOK(loc[t]) /\ Firm(loc[t].proc) /\ (CurIn(t) => CurOK(loc[t])) /\ PlaceOK(loc[t])
  BY DEF Care, CareOf, OuterOK, IInv, ControlOK
<1>2. loc[t].pc \in {"run", "markDep"} => CurIn(t)
  BY <1>1 DEF CurIn, PlaceOK
<1>3. Away(t, loc[t].proc)
  BY <1>1, <1>2 DEF Away, CurOK
<1> QED BY <1>1, <1>3, LaunchCalm

LEMMA EntersCare ==
  ASSUME IInv, Care, NEW t \in Threads, Enters(t), Careful(t) \/ loc[t].at = 0
  PROVE  OuterOK(loc[t])' /\ (CurIn(t)' => CurOK(loc[t])')
<1> DEFINE h == Head(freeList)
           e == Process(loc[t].pid, loc[t].title, {})
           q == loc[t].pid
<1>0. /\ LocsOK /\ TypeOK /\ ListSound /\ loc[t] \in Thread /\ node \in [Nodes -> ProcessData]
      /\ loc[t].pc = "insert" /\ q \in Pids
  BY DEF IInv, TypeOK, ControlOK, LocsOK, PlaceOK, Threads, Enters, Insert, At
<1>1. /\ loc'[t].pc = "register" /\ loc'[t].cur = h /\ loc'[t].at = loc[t].at
      /\ loc'[t].title = loc[t].title /\ loc'[t].pid = q /\ loc'[t].req = loc[t].req
      /\ loc'[t].proc = IF loc[t].at = 0 THEN h ELSE loc[t].proc
  BY <1>0, InsertLoc
<1>2. h \in Nodes \ ToSet(processList) /\ ToSet(processList') = ToSet(processList) \cup {h}
  BY <1>0, EnteredLists
<1>3. node' = [node EXCEPT ![h] = e] /\ kern' = kern
  BY DEF Enters, Insert, ProcessList_New, kernelVars
<1>4. e.handle = q /\ e.status = "running" /\ e.flags = {}
  BY DEF Process, BlankProcess
<1>5. kern[q].st = "loaded" /\ kern[q].title = loc[t].title
  BY <1>0 DEF Care, LoadedOK, LoadedOf, Entering
<1> HIDE DEF h, e, q
<1>6. node'[h] = e
  BY <1>0, <1>2, <1>3
<1>7. /\ h \in Nodes /\ h \in ToSet(processList') /\ Unasked(node'[h]) /\ node'[h].handle = q
      /\ kern'[q].st = "loaded" /\ kern'[q].title = loc[t].title /\ "app" \notin node'[h].flags
  BY <1>2, <1>3, <1>4, <1>5, <1>6 DEF Unasked
<1>8. loc'[t].cur = h => Firm(loc[t].cur)'
  BY <1>7 DEF Firm, Listed, Alive
<1>9. CASE loc[t].at = 0
  <2>1. Firm(loc[t].proc)'
    BY <1>1, <1>7, <1>9 DEF Firm, Listed, Alive
  <2>2. ~CurIn(t)'
    BY <1>1, <1>9 DEF CurIn
  <2> QED BY <2>1, <2>2, <1>1, <1>7, <1>9 DEF OuterOK
<1>10. CASE loc[t].at # 0
  <2>1. Careful(t) /\ OuterIn(t) /\ Launch(t)
    BY <1>0, <1>10 DEF OuterIn, Starting, LaunchPlaces, Enters, Launch
  <2>2. Firm(loc[t].proc) /\ OuterOK(loc[t]) /\ Undisturbed(loc[t].proc)
    BY <2>1, <1>0, <1>10, OwnAway
  <2>3. OuterOK(loc[t])'
    <3>1. loc[t].req.app => "app" \in node[loc[t].proc].flags
      BY <2>2, <1>10 DEF OuterOK
    <3> QED BY <2>2, <3>1, <1>1, <1>10, OuterKept
  <2>4. h # loc[t].proc
    BY <2>2, <1>2 DEF Firm, Listed
  <2>5. CurOK(loc[t])'
    BY <2>4, <1>1, <1>7, <1>8, <1>10 DEF CurOK
  <2> QED BY <2>3, <2>5
<1> QED BY <1>9, <1>10

LEMMA OwnKept ==
  ASSUME IInv, Care, NEW t \in Threads, Careful(t), OuterIn(t),
         loc[t].pc # "abandon", loc[t].at # 0 \/ loc[t].pc \notin {"register", "run"}, Launch(t),
         loc'[t].proc = loc[t].proc, loc'[t].req = loc[t].req,
         loc'[t].pc \in {"merge", "mark"} => loc[t].pc \in {"merge", "mark"} /\ loc'[t].pid = loc[t].pid,
         loc'[t].pc = "register" => loc'[t].at # 0,
         loc'[t].at = 0 /\ loc'[t].pc = "run" => loc'[t].cur = loc[t].proc
  PROVE  OuterOK(loc[t])'
<1>1. Firm(loc[t].proc) /\ OuterOK(loc[t]) /\ Undisturbed(loc[t].proc)
  BY OwnAway
<1>2. loc[t].req.app => "app" \in node[loc[t].proc].flags
  BY <1>1 DEF OuterOK
<1>3. loc[t].pc \in {"merge", "mark"} => node[loc[t].proc].handle = loc[t].pid
  BY <1>1 DEF OuterOK
<1> QED BY <1>1, <1>2, <1>3, OuterKept

LEMMA RegisterCare ==
  ASSUME IInv, Care, NEW t \in Threads, Careful(t), Register(t)
  PROVE  OuterOK(loc[t])' /\ (CurIn(t)' => CurOK(loc[t])')
<1>0. LocsOK /\ TypeOK /\ node \in [Nodes -> ProcessData] /\ Launch(t) /\ loc[t].pc = "register"
      /\ OuterIn(t) /\ PlaceOK(loc[t])
  <2>1. LocsOK /\ TypeOK /\ node \in [Nodes -> ProcessData] /\ PlaceOK(loc[t])
    BY DEF IInv, TypeOK, ControlOK, LocsOK, Threads
  <2>2. Launch(t) /\ loc[t].pc = "register"
    BY DEF Launch, Register, At
  <2> QED BY <2>1, <2>2 DEF OuterIn, Starting, LaunchPlaces
<1>1. /\ SameTask(loc[t], loc'[t]) /\ loc'[t].pc \in {"merge", "run"}
      /\ loc[t].at # 0 => loc'[t].pc = "run"
      /\ loc'[t].at = loc[t].at /\ loc'[t].pid = loc[t].pid /\ loc'[t].cur = loc[t].cur
      /\ loc'[t].title = loc[t].title
  BY <1>0, RegisterLoc
<1>2. OuterOK(loc[t]) /\ Firm(loc[t].proc) /\ (CurIn(t) => CurOK(loc[t]))
  BY <1>0 DEF Care, CareOf, OuterOK
<1>3. UNCHANGED <<kern, processList>>
  BY DEF Register
<1>4. CASE loc[t].at = 0 /\ ~IsApp(t)
  <2>1. Away(t, loc[t].proc)
    BY <1>0, <1>4 DEF Away
  <2>2. Undisturbed(loc[t].proc)
    BY <2>1, <1>0, <1>2, LaunchCalm
  <2>3. loc[t].cur = loc[t].proc /\ node[loc[t].proc].handle = loc[t].pid /\ ~loc[t].req.app
    BY <1>0, <1>2, <1>4 DEF OuterOK, IsApp
  <2>4. OuterOK(loc[t])'
    BY <2>2, <2>3, <1>1, <1>2, OuterKept DEF SameTask
  <2> QED BY <2>4, <1>1, <1>4 DEF CurIn
<1>5. CASE loc[t].at = 0 /\ IsApp(t)
  <2> DEFINE n == loc[t].proc
             f == node[n].flags \cup {"app"}
  <2>1. loc[t].cur = n /\ node[n].handle = loc[t].pid /\ n \in Nodes
    BY <1>0, <1>2, <1>5 DEF OuterOK, Firm
  <2>2. node' = [node EXCEPT ![n].flags = f]
    BY <2>1, <1>5 DEF Register, Outer
  <2>3. node'[n].handle = node[n].handle /\ node'[n].status = node[n].status /\ node'[n].flags = f
    <3> HIDE DEF f, n
    <3> QED BY <2>1, <2>2, <1>0, FlagsWritten
  <2>4. loc'[t].proc = n /\ loc'[t].req = loc[t].req /\ loc[t].req.app
    BY <1>1, <1>5 DEF SameTask, IsApp
  <2>5. Firm(n)' /\ kern'[node'[n].handle].st = "loaded" /\ "app" \in node'[n].flags
    BY <2>3, <2>4, <1>2, <1>3 DEF Firm, Unasked, Alive, Listed, OuterOK
  <2>6. Firm(loc[t].proc)'
    BY <2>4, <2>5 DEF Firm, Listed
  <2>7. OuterOK(loc[t])'
    BY <2>1, <2>3, <2>4, <2>5, <2>6, <1>1 DEF OuterOK
  <2> QED BY <2>7, <1>1, <1>5 DEF CurIn
<1>6. CASE loc[t].at # 0
  <2>1. OuterOK(loc[t])'
    BY <1>0, <1>1, <1>6, OwnKept DEF SameTask
  <2>2. CurOK(loc[t]) /\ CurIn(t)
    BY <1>0, <1>2, <1>6 DEF CurIn
  <2>3. UNCHANGED node
    BY <1>6 DEF Register, Outer
  <2>4. CurOK(loc[t])'
    BY <2>2, <2>3, <1>0, <1>1, <1>3 DEF CurOK, Firm, Unasked, Alive, Listed, SameTask
  <2> QED BY <2>1, <2>4
<1> QED BY <1>4, <1>5, <1>6

LEMMA RunCare ==
  ASSUME IInv, Care, NEW t \in Threads, Careful(t), RunSucceeds(t) \/ RunFails(t), loc[t].at # 0
  PROVE  OuterOK(loc[t])' /\ CurOK(loc[t])'
<1>0. /\ LocsOK /\ TypeOK /\ Launch(t) /\ loc[t].pc = "run" /\ OuterIn(t) /\ CurIn(t) /\ PlaceOK(loc[t])
      /\ kern \in KernType
  <2>1. LocsOK /\ TypeOK /\ kern \in KernType /\ PlaceOK(loc[t])
    BY DEF IInv, TypeOK, ControlOK, LocsOK, Threads, KernType
  <2>2. Launch(t) /\ loc[t].pc = "run"
    BY DEF Launch, RunSucceeds, RunFails, At
  <2> QED BY <2>1, <2>2 DEF OuterIn, CurIn, Starting, LaunchPlaces
<1> DEFINE n == loc[t].cur
           p == loc[t].pid
<1>1. CurOK(loc[t]) /\ Firm(n) /\ node[n].handle = p /\ kern[p].st = "loaded" /\ kern[p].title = loc[t].title
  BY <1>0 DEF Care, CareOf, CurOK
<1>2. Runs(p) /\ p \in Pids
  BY <1>1, FirmFacts DEF Runs
<1>3. RunSucceeds(t)
  BY <1>1, <1>2 DEF RunFails
<1>4. /\ loc'[t].pc = "markDep" /\ SameTask(loc[t], loc'[t]) /\ loc'[t].at = loc[t].at
      /\ loc'[t].title = loc[t].title /\ loc'[t].pid = p /\ loc'[t].cur = n
  BY <1>0, <1>3, RunLoc
<1>5. UNCHANGED <<node, processList>> /\ kern' = [kern EXCEPT ![p].st = "running"]
  BY <1>1, <1>3 DEF RunSucceeds, Outer
<1>6. kern'[p].st = "running" /\ kern'[p].title = loc[t].title
  BY <1>0, <1>1, <1>2, <1>5 DEF KernType
<1>7. loc[t].title \notin Leaving
  BY <1>0 DEF Care, PlainOK, Plain, LaunchPlaces
<1> HIDE DEF n, p
<1>8. OuterOK(loc[t])'
  BY <1>0, <1>4, OwnKept DEF SameTask
<1>9. CurOK(loc[t])'
  <2>1. n \in Nodes /\ Listed(n) /\ Unasked(node[n]) /\ Alive(kern'[p])
    BY <1>1, <1>6, <1>7 DEF Firm, Alive
  <2>2. Firm(loc[t].cur)'
    BY <2>1, <1>1, <1>4, <1>5 DEF Firm, Listed, Unasked
  <2> QED BY <2>2, <1>1, <1>4, <1>5, <1>6 DEF CurOK, SameTask, n, p
<1> QED BY <1>8, <1>9

(* What this thread does leaves it with what it cares for.                  *)
LEMMA OwnCare ==
  ASSUME IInv, Orders, Care, NEW t \in Threads, Launch(t), Careful(t) \/ ~OuterIn(t)
  PROVE  (OuterIn(t)' => OuterOK(loc[t])') /\ (CurIn(t)' => CurOK(loc[t])')
<1>0. LocsOK /\ TypeOK /\ loc[t] \in Thread /\ PlaceOK(loc[t])
  BY DEF IInv, TypeOK, ControlOK, LocsOK, Threads
<1> USE DEF LaunchPlaces
<1>1. CASE loc'[t] = Returned(t)
  <2>1. ~OuterIn(t)' /\ ~CurIn(t)'
    BY <1>1, ReturnedFacts, RoleFacts DEF OuterIn, CurIn, Starting
  <2> QED BY <2>1
<1>2. CASE Panic
  <2>1. UNCHANGED <<loc, node, kern, processList>>
    BY <1>2 DEF Panic, listVars, kernelVars
  <2>2. (OuterIn(t) => OuterOK(loc[t])) /\ (CurIn(t) => CurOK(loc[t]))
    BY DEF Care, CareOf, OuterIn, CurIn, Starting
  <2> QED BY <2>1, <2>2 DEF OuterIn, CurIn, Starting, OuterOK, CurOK, Firm, Listed, Unasked, Alive
<1>3. CASE CheckLaunch(t)
  <2>1. loc'[t] = Returned(t) \/ (loc'[t].pc = "load" /\ loc'[t].at = 0)
    BY <1>0, <1>3, CheckLoc
  <2> QED BY <2>1, <1>1 DEF OuterIn, CurIn
<1>4. ASSUME OuterIn(t), loc[t].pc # "abandon", loc[t].at # 0 \/ loc[t].pc \notin {"register", "run"},
             loc'[t].proc = loc[t].proc, loc'[t].req = loc[t].req,
             loc'[t].pc \notin {"merge", "mark", "register", "markDep"},
             loc'[t].pc = "run" => loc'[t].at = 0 /\ loc'[t].cur = loc[t].proc
      PROVE  (OuterIn(t)' => OuterOK(loc[t])') /\ (CurIn(t)' => CurOK(loc[t])')
  BY <1>4, OwnKept DEF CurIn
<1>5. CASE Load(t)
  <2>1. loc'[t].pc = "insert" /\ loc[t].pc = "load" /\ loc'[t].at = loc[t].at /\ SameTask(loc[t], loc'[t])
    BY <1>0, <1>5, LoadLoc
  <2>2. CASE loc[t].at = 0
    BY <2>1, <2>2 DEF OuterIn, CurIn
  <2>3. CASE loc[t].at # 0
    BY <2>1, <2>3, <1>4 DEF OuterIn, Starting, SameTask
  <2> QED BY <2>2, <2>3
<1>6. CASE LoadFails(t)
  <2>1. CASE loc[t].at # 0 /\ loc'[t] = Onward(loc[t])
    BY <2>1, <1>0, <1>4, <1>6, LoadFailsLoc, OnwardFacts DEF OuterIn, Starting, SameTask
  <2>2. CASE loc[t].at # 0 /\ loc'[t].pc = "abandon" /\ SameTask(loc[t], loc'[t])
    BY <2>2, <1>0, <1>4, <1>6, LoadFailsLoc DEF OuterIn, Starting, SameTask
  <2> QED BY <2>1, <2>2, <1>0, <1>1, <1>6, LoadFailsLoc
<1>7. CASE Insert(t) /\ ~Panic
  <2>1. Enters(t) /\ loc[t].pc = "insert"
    BY <1>7 DEF Insert, Enters, At
  <2>2. Careful(t) \/ loc[t].at = 0
    BY <2>1 DEF OuterIn, Starting
  <2> QED BY <2>1, <2>2, EntersCare
<1>8. CASE Register(t)
  <2>1. OuterIn(t)
    BY <1>8 DEF Register, At, OuterIn, Starting
  <2> QED BY <2>1, <1>8, RegisterCare
<1>9. CASE MergeOwn(t) /\ ~Panic
  <2>1. OuterIn(t) /\ loc[t].pc = "merge" /\ loc'[t].pc = "mark" /\ loc'[t].pid = loc[t].pid
        /\ loc'[t].proc = loc[t].proc /\ loc'[t].req = loc[t].req
    BY <1>0, <1>9, MergeOwnLoc DEF OuterIn, Starting
  <2>2. OuterOK(loc[t])'
    BY <2>1, OwnKept
  <2> QED BY <2>1, <2>2 DEF CurIn
<1>10. CASE MergeDependency(t) /\ ~Panic
  <2> DEFINE a == Merged(t)
             d == [loc[t] EXCEPT !.array = a]
  <2>1. loc[t].pc = "mergeDep" /\ loc'[t] = Onward(d)
    BY <1>0, <1>10, MergeDepLoc
  <2>2. loc[t].title \in Titles
    BY <2>1, <1>0 DEF PlaceOK
  <2>3. a \in Seq(Dependency)
    BY <2>2, <1>0, MergedTyped
  <2> HIDE DEF a
  <2>4. d \in Thread /\ d.proc = loc[t].proc /\ d.req = loc[t].req
    BY <2>3, <1>0 DEF Thread
  <2> HIDE DEF d
  <2> QED BY <2>1, <2>4, <1>4, OnwardFacts DEF OuterIn, Starting, SameTask
<1>11. CASE Mark(t)
  BY <1>0, <1>4, <1>11, MarkLoc, OnwardFacts DEF OuterIn, Starting, SameTask
<1>12. CASE RunSucceeds(t) \/ RunFails(t)
  <2>1. CASE loc[t].at = 0
    BY <2>1, <1>0, <1>1, <1>12, RunLoc
  <2>2. CASE loc[t].at # 0
    <3>1. OuterIn(t)
      BY <2>2, <1>12 DEF RunSucceeds, RunFails, At, OuterIn, Starting
    <3> QED BY <2>2, <3>1, <1>12, RunCare
  <2> QED BY <2>1, <2>2
<1>13. CASE Abandon(t)
  BY <1>0, <1>1, <1>13, AbandonLoc
<1>14. CASE MarkDependency(t) /\ ~Panic
  BY <1>0, <1>4, <1>14, MarkDepLoc DEF OuterIn, Starting
<1> QED BY <1>2, <1>3, <1>5, <1>6, <1>7, <1>8, <1>9, <1>10, <1>11, <1>12, <1>13, <1>14 DEF Launch

(* A thread comes to a launch only through the check before it, and goes on *)
(* itself.                                                                  *)
LEMMA LocRest ==
  ASSUME IInv, [Next]_vars, NEW t \in Threads, ~Launch(t)
  PROVE  /\ Starting(t) \/ Starting(t)' => loc'[t] = loc[t]
         /\ Launches(t)' => \/ Launches(t) \/ (t = "main" /\ TakeCommand)
                            \/ (t = "runner" /\ RunnerTakesTask)
         /\ loc'[t].array \in {loc[t].array, <<>>}
         /\ Launches(t) => loc'[t] = loc[t]
<1>0. LocsOK /\ "main" \in Threads /\ "runner" \in Threads /\ (t = "main" \/ t = "runner")
  BY DEF IInv, TypeOK, ControlOK, LocsOK, Threads
<1>1. /\ Returned(t).pc \notin LaunchPlaces \cup {"check"} /\ Returned(t).array = <<>>
      /\ \A x \in {"idle", "top", "parameters", "runTask", "found", "check"} : x \notin LaunchPlaces
      /\ \A x \in {"idle", "top", "parameters", "runTask", "found"} : x \notin LaunchPlaces \cup {"check"}
      /\ \A x \in Ending : x \notin LaunchPlaces \cup {"check"}
  BY ReturnedFacts, RoleFacts
<1>2. CASE loc'[t] = loc[t]
  BY <1>2 DEF Launches
<1>3. ASSUME NEW u \in Threads, u # t, Others(u)
      PROVE  loc'[t] = loc[t]
  BY <1>3 DEF Others
<1>4. CASE Terminate(t)
  <2>1. loc[t].pc \in Ending
    BY <1>0, <1>4, EndLoc
  <2>2. \/ loc'[t] = Returned(t)
        \/ loc'[t] = loc[t]
        \/ loc'[t].pc \in Ending /\ loc'[t].array = loc[t].array
    BY <1>0, <1>4, EndLoc
  <2> QED BY <2>1, <2>2, <1>1, <1>2 DEF Starting, Launches
<1>5. CASE \E u \in Threads : u # t /\ (Terminate(u) \/ Launch(u))
  BY <1>0, <1>2, <1>3, <1>5, EndLoc, LaunchLoc
<1>6. CASE Monitor
  <2>1. loc'[t] = loc[t] \/ (loc[t].pc \in Ending /\ loc'[t].pc = "disarm" /\ loc'[t].array = loc[t].array)
    BY <1>0, <1>6, MonitorLoc
  <2>2. "disarm" \in Ending
    BY DEF Ending
  <2> QED BY <2>1, <2>2, <1>1, <1>2 DEF Starting, Launches
<1>7. CASE TakeCommand
  <2>1. CASE t = "main"
    <3>1. loc[t].pc = "idle" /\ loc'[t].array = loc[t].array
      BY <2>1, <1>0, <1>7, TakeLoc
    <3>2. loc' = loc \/ loc'[t].pc = "found" \/ \E r \in Requests : Begun(loc'[t], r)
      BY <2>1, <1>0, <1>7, TakeLoc
    <3>3. (\E r \in Requests : Begun(loc'[t], r)) => loc'[t].pc \in {"clear", "runTask", "check"}
      BY DEF Begun
    <3>4. "clear" \in Ending
      BY DEF Ending
    <3> QED BY <2>1, <3>1, <3>2, <3>3, <3>4, <1>1, <1>2, <1>7 DEF Starting, Launches
  <2>2. CASE t = "runner"
    BY <2>2, <1>0, <1>2, <1>3, <1>7, TakeLoc
  <2> QED BY <2>1, <2>2, <1>0
<1>8. CASE RunTask \/ FoundRunning
  <2>1. loc["main"].pc \in {"runTask", "found"} /\ Returns("main")
    BY <1>8 DEF RunTask, FoundRunning, At
  <2>2. loc'["main"] = Returned("main") /\ Others("main")
    BY <2>1, <1>0, ReturnsFacts
  <2>3. CASE t = "main"
    BY <2>1, <2>2, <2>3, <1>1 DEF Starting, Launches
  <2> QED BY <2>2, <2>3, <1>0, <1>2, <1>3
<1>9. CASE RunnerReady
  <2>1. loc["runner"].pc = "top" /\ Goes("runner", "parameters")
    BY <1>9 DEF RunnerReady, At
  <2>2. /\ loc'["runner"].pc = "parameters" /\ Others("runner")
        /\ loc'["runner"].array = loc["runner"].array
    BY <2>1, <1>0, GoesFacts DEF SameTask
  <2>3. CASE t = "runner"
    BY <2>1, <2>2, <2>3, <1>1 DEF Starting, Launches
  <2> QED BY <2>2, <2>3, <1>0, <1>2, <1>3
<1>10. CASE RunnerTakesTask
  <2> DEFINE pc == StartPc(task)
             l == [loc["runner"] EXCEPT !.pc = pc, !.req = task]
  <2>1. loc["runner"].pc = "parameters" /\ loc' = [loc EXCEPT !["runner"] = l] /\ parametersSet
    BY <1>0, <1>10 DEF RunnerTakesTask, At, LocsOK
  <2>2. pc \in {"clear", "notify", "check"}
    BY <2>1, StartPcTyped DEF IInv, ControlOK
  <2> HIDE DEF pc
  <2>3. l.pc = pc /\ l.array = loc["runner"].array
    BY <1>0 DEF LocsOK, Thread
  <2> HIDE DEF l
  <2>4. loc'["runner"] = l /\ Others("runner")
    BY <1>0, <2>1, OneLoc
  <2>5. {"clear", "notify"} \subseteq Ending
    BY DEF Ending
  <2>6. CASE t = "runner"
    BY <2>1, <2>2, <2>3, <2>4, <2>5, <2>6, <1>1, <1>10 DEF Starting, Launches
  <2> QED BY <2>4, <2>6, <1>0, <1>2, <1>3
<1>11. CASE (\E p \in Pids : Exit(p)) \/ UNCHANGED vars
  <2>1. UNCHANGED loc
    BY <1>11 DEF Exit, vars
  <2> QED BY <2>1, <1>2
<1> QED BY <1>0, <1>4, <1>5, <1>6, <1>7, <1>8, <1>9, <1>10, <1>11 DEF Next, Main, Runner

LEMMA CarefulBack ==
  ASSUME IInv, Orders, [Next]_vars, NEW t \in Threads, Starting(t), Careful(t)'
  PROVE  Careful(t)
<1>0. LocsOK /\ "main" \in Threads /\ "runner" \in Threads
  BY DEF IInv, TypeOK, ControlOK, LocsOK, Threads
<1>1. CASE Patient \/ t = "runner"
  BY <1>1 DEF Careful
<1>2. CASE ~Patient /\ t = "main"
  <2>1. CASE Launches("runner")'
    <3>1. ~RunnerTakesTask \/ parametersSet
      BY DEF RunnerTakesTask
    <3>2. Launch("runner") => Launches("runner")
      BY <1>0, LaunchLoc
    <3>3. Launches("runner") \/ parametersSet
      BY <2>1, <3>1, <3>2, <1>0, LocRest
    <3> QED BY <3>3 DEF Careful
  <2>2. CASE parametersSet'
    <3>1. ~RunTask
      BY <1>2, RoleFacts DEF RunTask, At, Starting
    <3>2. CASE UNCHANGED parametersSet
      BY <2>2, <3>2 DEF Careful
    <3>3. CASE TakeCommand \/ RunnerReady \/ RunnerTakesTask \/ UNCHANGED vars
      BY <1>0, <2>2, <3>2, <3>3, TakeLoc DEF RunnerReady, RunnerTakesTask, vars, taskVars
    <3> QED BY <1>0, <3>1, <3>2, <3>3, TasksRest DEF Next, Main, Runner
  <2> QED BY <1>2, <2>1, <2>2 DEF Careful
<1> QED BY <1>0, <1>1, <1>2 DEF Threads

LEMMA CareStep ==
  ASSUME Orderly, IInv, Orders, Care, [Next]_vars, NEW t \in Threads
  PROVE  CareOf(t)'
<1> SUFFICES ASSUME Careful(t)'
             PROVE  (OuterIn(t)' => OuterOK(loc[t])') /\ (CurIn(t)' => CurOK(loc[t])')
  BY DEF CareOf
<1>1. Starting(t) => Careful(t)
  BY CarefulBack
<1>2. CASE Launch(t)
  <2>1. Careful(t) \/ ~OuterIn(t)
    BY <1>1 DEF OuterIn
  <2> QED BY <2>1, <1>2, OwnCare
<1>3. CASE ~Launch(t)
  <2>0. CurIn(t)' => OuterIn(t)'
    BY DEF CurIn, OuterIn, Starting, LaunchPlaces
  <2>1. CASE ~OuterIn(t)'
    BY <2>0, <2>1
  <2>2. CASE OuterIn(t)'
    <3>1. loc'[t] = loc[t]
      BY <1>3, <2>2, LocRest DEF OuterIn
    <3>2. Starting(t) /\ OuterIn(t) /\ (CurIn(t)' => CurIn(t))
      BY <2>2, <3>1 DEF OuterIn, Starting, CurIn
    <3>3. Careful(t) /\ OuterOK(loc[t]) /\ (CurIn(t) => CurOK(loc[t]))
      BY <1>1, <3>2 DEF Care, CareOf
    <3>4. Undisturbed(loc[t].proc) /\ (CurIn(t) => Undisturbed(loc[t].cur))
      BY <1>3, <3>2, <3>3, OthersCalm
    <3>5. OuterOK(loc[t])'
      <4>1. /\ loc[t].req.app /\ (loc'[t].pc # "register" \/ loc'[t].at # 0) => "app" \in node[loc[t].proc].flags
            /\ loc[t].pc \in {"merge", "mark"} \/ (loc[t].at = 0 /\ loc[t].pc = "register") =>
                 node[loc[t].proc].handle = loc[t].pid
            /\ loc[t].at = 0 /\ loc[t].pc \in {"register", "run"} => loc[t].cur = loc[t].proc
        BY <3>1, <3>3 DEF OuterOK
      <4> QED BY <3>1, <3>3, <3>4, <4>1, OuterKept
    <3>6. CASE CurIn(t)
      <4> DEFINE l == loc[t]
                 n == loc[t].cur
      <4>1. CurOK(l) /\ Firm(n) /\ Undisturbed(n) /\ loc'[t] = l
        BY <3>1, <3>3, <3>4, <3>6 DEF CurOK
      <4>2. /\ node'[n].handle = node[n].handle /\ kern'[node'[n].handle] = kern[node[n].handle]
            /\ "app" \in node'[n].flags <=> "app" \in node[n].flags
            /\ n \in Nodes /\ Listed(n)' /\ Unasked(node'[n]) /\ Alive(kern'[node'[n].handle])
        <5>1. /\ Firm(n)' /\ node'[n].handle = node[n].handle
              /\ "app" \in node'[n].flags <=> "app" \in node[n].flags
              /\ kern'[node'[n].handle] = kern[node[n].handle]
          BY <4>1, UndisturbedFirm
        <5> QED BY <5>1, <4>1, <3>1 DEF Firm, Listed
      <4>3. Firm(loc[t].cur)'
        BY <4>1, <4>2 DEF Firm, Listed
      <4> QED BY <4>1, <4>2, <4>3, <3>5 DEF CurOK
    <3> QED BY <3>2, <3>5, <3>6
  <2> QED BY <2>1, <2>2
<1> QED BY <1>2, <1>3

(* The nodes a thread has in its hands change only when it enters one.      *)
LEMMA LaunchKeeps ==
  ASSUME IInv, NEW t \in Threads, Launch(t)
  PROVE  /\ OuterIn(t)' => \/ OuterIn(t) /\ loc'[t].proc = loc[t].proc
                           \/ Enters(t) /\ loc[t].at = 0
         /\ CurIn(t)' => \/ CurIn(t) /\ loc'[t].cur = loc[t].cur
                         \/ Enters(t) /\ loc[t].at # 0
<1>0. LocsOK /\ TypeOK /\ loc[t] \in Thread /\ PlaceOK(loc[t])
  BY DEF IInv, TypeOK, ControlOK, LocsOK, Threads
<1> USE DEF LaunchPlaces
<1>1. CASE loc'[t] = Returned(t)
  BY <1>1, ReturnedFacts, RoleFacts DEF OuterIn, CurIn, Starting
<1>2. CASE Panic
  <2>1. UNCHANGED loc
    BY <1>2 DEF Panic
  <2> QED BY <2>1 DEF OuterIn, CurIn, Starting
<1>3. CASE CheckLaunch(t)
  <2>1. loc'[t] = Returned(t) \/ (loc'[t].pc = "load" /\ loc'[t].at = 0)
    BY <1>0, <1>3, CheckLoc
  <2> QED BY <2>1, <1>1 DEF OuterIn, CurIn
<1>4. ASSUME loc[t].pc \in LaunchPlaces, loc'[t].proc = loc[t].proc, loc'[t].pc \notin {"register", "markDep"},
             loc[t].at # 0 \/ loc[t].pc \notin {"load", "insert"}, loc'[t].pc = "run" => loc'[t].at = 0
      PROVE  OuterIn(t) /\ loc'[t].proc = loc[t].proc /\ ~CurIn(t)'
  BY <1>4 DEF OuterIn, Starting, CurIn
<1>5. CASE Load(t)
  <2>1. loc'[t].pc = "insert" /\ loc[t].pc = "load" /\ loc'[t].at = loc[t].at /\ SameTask(loc[t], loc'[t])
    BY <1>0, <1>5, LoadLoc
  <2>2. CASE loc[t].at = 0
    BY <2>1, <2>2 DEF OuterIn, CurIn
  <2>3. CASE loc[t].at # 0
    BY <2>1, <2>3, <1>4 DEF SameTask
  <2> QED BY <2>2, <2>3
<1>6. CASE LoadFails(t)
  <2>1. CASE loc[t].at # 0 /\ loc'[t] = Onward(loc[t])
    BY <2>1, <1>0, <1>4, <1>6, LoadFailsLoc, OnwardFacts DEF SameTask
  <2>2. CASE loc[t].at # 0 /\ loc'[t].pc = "abandon" /\ SameTask(loc[t], loc'[t])
    BY <2>2, <1>0, <1>4, <1>6, LoadFailsLoc DEF SameTask
  <2> QED BY <2>1, <2>2, <1>0, <1>1, <1>6, LoadFailsLoc
<1>7. CASE Insert(t) /\ ~Panic
  <2>1. Enters(t) /\ loc[t].pc = "insert" /\ loc'[t].at = loc[t].at
        /\ (loc[t].at # 0 => loc'[t].proc = loc[t].proc)
    BY <1>0, <1>7, InsertLoc DEF Insert, Enters
  <2> QED BY <2>1 DEF OuterIn, CurIn, Starting
<1>8. CASE Register(t)
  BY <1>0, <1>8, RegisterLoc DEF OuterIn, CurIn, Starting, SameTask
<1>9. CASE MergeOwn(t) /\ ~Panic
  BY <1>0, <1>4, <1>9, MergeOwnLoc
<1>10. CASE MergeDependency(t) /\ ~Panic
  <2> DEFINE a == Merged(t)
             d == [loc[t] EXCEPT !.array = a]
  <2>1. loc[t].pc = "mergeDep" /\ loc'[t] = Onward(d)
    BY <1>0, <1>10, MergeDepLoc
  <2>2. loc[t].title \in Titles
    BY <2>1, <1>0 DEF PlaceOK
  <2>3. a \in Seq(Dependency)
    BY <2>2, <1>0, MergedTyped
  <2> HIDE DEF a
  <2>4. d \in Thread /\ d.proc = loc[t].proc /\ d.req = loc[t].req
    BY <2>3, <1>0 DEF Thread
  <2> HIDE DEF d
  <2> QED BY <2>1, <2>4, <1>4, OnwardFacts DEF SameTask
<1>11. CASE Mark(t)
  BY <1>0, <1>4, <1>11, MarkLoc, OnwardFacts DEF SameTask
<1>12. CASE RunSucceeds(t) \/ RunFails(t)
  <2>1. CASE loc[t].at = 0
    BY <2>1, <1>0, <1>1, <1>12, RunLoc
  <2>2. CASE loc[t].at # 0
    BY <2>2, <1>0, <1>12, RunLoc DEF OuterIn, CurIn, Starting, SameTask
  <2> QED BY <2>1, <2>2
<1>13. CASE Abandon(t)
  BY <1>0, <1>1, <1>13, AbandonLoc
<1>14. CASE MarkDependency(t) /\ ~Panic
  BY <1>0, <1>4, <1>14, MarkDepLoc
<1> QED BY <1>2, <1>3, <1>5, <1>6, <1>7, <1>8, <1>9, <1>10, <1>11, <1>12, <1>13, <1>14 DEF Launch

LEMMA ApartStep ==
  ASSUME IInv, Care, [Next]_vars
  PROVE  Apart'
<1>0. "main" \in Threads /\ "runner" \in Threads /\ LocsOK /\ TypeOK /\ ListSound
  BY DEF IInv, TypeOK, ControlOK, LocsOK, Threads
<1> SUFFICES ASSUME OuterIn("main")', OuterIn("runner")'
             PROVE  /\ loc'["main"].proc # loc'["runner"].proc
                    /\ CurIn("runner")' => loc'["main"].proc # loc'["runner"].cur
  BY DEF Apart
<1>1. \A t \in Threads : CurIn(t) => OuterIn(t)
  BY DEF CurIn, OuterIn, Starting, LaunchPlaces
<1>2. Apart /\ CareOf("runner") /\ CareOf("main")
  BY <1>0 DEF Care
<1>3. ASSUME NEW t \in Threads, ~Launch(t), OuterIn(t)'
      PROVE  loc'[t] = loc[t] /\ OuterIn(t) /\ (CurIn(t)' <=> CurIn(t))
  <2>1. loc'[t] = loc[t]
    BY <1>3, LocRest DEF OuterIn
  <2> QED BY <1>3, <2>1 DEF OuterIn, Starting, CurIn
<1>4. CASE ~Launch("main") /\ ~Launch("runner")
  BY <1>0, <1>2, <1>3, <1>4 DEF Apart
<1>5. CASE Launch("main")
  <2>1. loc'["runner"] = loc["runner"]
    BY <1>0, <1>5, LaunchLoc DEF Others
  <2>2. OuterIn("runner") /\ (CurIn("runner")' => CurIn("runner"))
    BY <2>1 DEF OuterIn, Starting, CurIn
  <2>3. /\ Firm(loc["runner"].proc) /\ (CurIn("runner") => Firm(loc["runner"].cur))
    BY <2>2, <1>2 DEF CareOf, Careful, OuterOK, CurOK
  <2>4. CASE OuterIn("main") /\ loc'["main"].proc = loc["main"].proc
    BY <2>1, <2>2, <2>4, <1>2 DEF Apart
  <2>5. CASE Enters("main") /\ loc["main"].at = 0
    <3>1. loc'["main"].proc = Head(freeList)
      BY <2>5, <1>0, InsertLoc
    <3>2. Head(freeList) \notin ToSet(processList)
      BY <2>5, <1>0, EnteredLists
    <3> QED BY <3>1, <3>2, <2>1, <2>2, <2>3 DEF Firm, Listed
  <2> QED BY <2>4, <2>5, <1>0, <1>5, LaunchKeeps
<1>6. CASE Launch("runner")
  <2>1. loc'["main"] = loc["main"] /\ Launches("runner")
    BY <1>0, <1>6, LaunchLoc DEF Others
  <2>2. OuterIn("main")
    BY <2>1 DEF OuterIn, Starting
  <2>3. Firm(loc["main"].proc)
    BY <2>1, <2>2, <1>2 DEF CareOf, Careful, OuterOK
  <2>4. Enters("runner") => loc["main"].proc # Head(freeList)
    BY <2>3, <1>0, EnteredLists DEF Firm, Listed
  <2>5. loc'["main"].proc # loc'["runner"].proc
    <3>1. CASE OuterIn("runner") /\ loc'["runner"].proc = loc["runner"].proc
      BY <3>1, <2>1, <2>2, <1>2 DEF Apart
    <3>2. CASE Enters("runner") /\ loc["runner"].at = 0
      BY <3>2, <2>1, <2>4, <1>0, InsertLoc
    <3> QED BY <3>1, <3>2, <1>0, <1>6, LaunchKeeps
  <2>6. ASSUME CurIn("runner")' PROVE loc'["main"].proc # loc'["runner"].cur
    <3>1. CASE CurIn("runner") /\ loc'["runner"].cur = loc["runner"].cur
      BY <3>1, <2>1, <2>2, <1>0, <1>1, <1>2 DEF Apart
    <3>2. CASE Enters("runner")
      BY <3>2, <2>1, <2>4, <1>0, InsertLoc
    <3> QED BY <3>1, <3>2, <2>6, <1>0, <1>6, LaunchKeeps
  <2> QED BY <2>5, <2>6
<1> QED BY <1>4, <1>5, <1>6

---------------------------------------------------------------------------
(* The array after a merge: the dependencies that were there, then those of *)
(* the title that were not, each one once, with the process that runs it.   *)
LEMMA MergedShape ==
  ASSUME TypeOK, NEW t \in Threads, loc[t].title \in Titles
  PROVE  LET a == loc[t].array
             new == NewTitles(a, loc[t].title)
             m == Merged(t)
         IN  /\ Len(a) \in Nat /\ DOMAIN a = 1..Len(a) /\ Len(new) \in Nat /\ DOMAIN new = 1..Len(new)
             /\ DOMAIN m = 1..Len(a) + Len(new) /\ new \in Seq(Titles)
             /\ \A k \in 1..Len(a) : m[k].title = a[k].title /\ m[k].proc = a[k].proc
             /\ \A k \in DOMAIN m : k > Len(a) =>
                  /\ k - Len(a) \in DOMAIN new /\ m[k].title = new[k - Len(a)]
                  /\ m[k].proc = FindProcessByTitleId(m[k].title)
             /\ \A i \in DOMAIN new : /\ Wants(loc[t].title, new[i])
                                      /\ \A k \in DOMAIN a : a[k].title # new[i]
             /\ \A i, j \in DOMAIN new : new[i] = new[j] => i = j
<1> DEFINE ttl == loc[t].title
           a == loc[t].array
           D == Deps[ttl]
           ks == {i \in DOMAIN D : \A k \in DOMAIN a : a[k].title # D[i]}
           new == NewTitles(a, ttl)
           entry(k) == [title |-> new[k], proc |-> FindProcessByTitleId(new[k]), rem |-> 0]
           more == [k \in DOMAIN new |-> entry(k)]
           ext == a \o more
           m == Merged(t)
<1>1. D \in Seq(Titles) /\ IsInjective(D) /\ a \in Seq(Dependency)
  BY PmAssumption DEF TypeOK, Thread, Threads
<1>2. /\ new \in Seq(Titles)
      /\ \A i \in DOMAIN new : \E k \in ks : new[i] = D[k]
      /\ \A i, j \in DOMAIN new : new[i] = new[j] => i = j
  <2>1. ks \in SUBSET (DOMAIN D)
    OBVIOUS
  <2>2. new = Chosen(D, ks)
    BY DEF NewTitles
  <2> HIDE DEF ks, new
  <2> DEFINE c == Chosen(D, ks)
  <2>3. /\ c \in Seq(Titles)
        /\ \E f \in [DOMAIN c -> ks] : /\ \A i \in DOMAIN c : c[i] = D[f[i]]
                                       /\ \A i, j \in DOMAIN c : f[i] = f[j] => i = j
    <3> HIDE DEF D
    <3> QED BY <2>1, <1>1, ChosenOnce
  <2> HIDE DEF c
  <2>4. PICK f \in [DOMAIN c -> ks] : /\ \A i \in DOMAIN c : c[i] = D[f[i]]
                                      /\ \A i, j \in DOMAIN c : f[i] = f[j] => i = j
    BY <2>3
  <2>5. \A i, j \in DOMAIN D : D[i] = D[j] => i = j
    <3> HIDE DEF D
    <3> QED BY <1>1 DEF IsInjective
  <2>6. \A i \in DOMAIN c : f[i] \in ks /\ f[i] \in DOMAIN D
    BY <2>1, <2>4
  <2>7. \A i, j \in DOMAIN c : c[i] = c[j] => i = j
    <3> HIDE DEF D
    <3> QED BY <2>4, <2>5, <2>6
  <2> QED BY <2>2, <2>3, <2>4, <2>6, <2>7 DEF c
<1>3. \A i \in DOMAIN new : Wants(ttl, new[i]) /\ \A k \in DOMAIN a : a[k].title # new[i]
  <2> SUFFICES ASSUME NEW i \in DOMAIN new
               PROVE  Wants(ttl, new[i]) /\ \A k \in DOMAIN a : a[k].title # new[i]
    OBVIOUS
  <2>1. PICK k \in ks : new[i] = D[k]
    BY <1>2
  <2>2. k \in DOMAIN D /\ \A j \in DOMAIN a : a[j].title # D[k]
    OBVIOUS
  <2>3. D[k] \in ToSet(D)
    <3> HIDE DEF D
    <3> QED BY <2>2 DEF ToSet
  <2>4. Wants(ttl, D[k])
    BY <2>3 DEF Wants
  <2> HIDE DEF new, a, D, ks
  <2> QED BY <2>1, <2>2, <2>4
<1>4. /\ Len(a) \in Nat /\ DOMAIN a = 1..Len(a) /\ Len(new) \in Nat /\ DOMAIN new = 1..Len(new)
  <2> HIDE DEF new, a
  <2> QED BY <1>1, <1>2
<1>5. /\ DOMAIN ext = 1..Len(a) + Len(new)
      /\ \A k \in 1..Len(a) : ext[k] = a[k]
      /\ \A k \in DOMAIN ext : k > Len(a) => k - Len(a) \in DOMAIN new /\ ext[k] = entry(k - Len(a))
  <2>1. more \in Seq({entry(k) : k \in DOMAIN new}) /\ Len(more) = Len(new)
        /\ \A k \in 1..Len(new) : more[k] = entry(k)
    <3> HIDE DEF new, entry
    <3> QED BY <1>4
  <2> DEFINE S == {entry(k) : k \in DOMAIN new} \cup Dependency
  <2>2. a \in Seq(S) /\ more \in Seq(S)
    <3>1. Dependency \subseteq S /\ {entry(k) : k \in DOMAIN new} \subseteq S
      OBVIOUS
    <3> DEFINE E == {entry(k) : k \in DOMAIN new}
    <3> HIDE DEF S, a, more, E
    <3> QED BY <3>1, <2>1, <1>1 DEF E
  <2>3. /\ ext \in Seq(S) /\ Len(ext) = Len(a) + Len(more)
        /\ \A k \in 1..Len(a) + Len(more) : ext[k] = IF k <= Len(a) THEN a[k] ELSE more[k - Len(a)]
    <3> HIDE DEF S, a, more
    <3> QED BY <2>2, ConcatProperties
  <2> HIDE DEF a, more, new, entry, ext, S
  <2>4. DOMAIN ext = 1..Len(a) + Len(new)
    BY <2>1, <2>3, <1>4
  <2>5. \A k \in 1..Len(a) : ext[k] = a[k]
    BY <2>1, <2>3, <1>4
  <2>6. ASSUME NEW k \in DOMAIN ext, k > Len(a) PROVE k - Len(a) \in DOMAIN new /\ ext[k] = entry(k - Len(a))
    <3>1. k \in 1..Len(a) + Len(new) /\ k - Len(a) \in 1..Len(new) /\ ~(k <= Len(a))
      BY <2>4, <2>6, <1>4
    <3>2. ext[k] = more[k - Len(a)]
      BY <3>1, <2>1, <2>3
    <3> QED BY <3>1, <3>2, <2>1, <1>4
  <2> QED BY <2>4, <2>5, <2>6
<1>6. ext = Extended(a, ttl)
  BY DEF Extended
<1>7. m = [k \in DOMAIN ext |-> IF ext[k].proc = NoNode /\ Wants(ttl, ext[k].title)
                                THEN [ext[k] EXCEPT !.rem = @ + 1] ELSE ext[k]]
  BY <1>6, Zenon DEF Merged, Counted
<1>8. \A k \in DOMAIN ext : ext[k] \in Dependency \/ \E i \in DOMAIN new : ext[k] = entry(i)
  <2> HIDE DEF ext, entry, new, a
  <2> SUFFICES ASSUME NEW k \in DOMAIN ext
               PROVE  ext[k] \in Dependency \/ \E i \in DOMAIN new : ext[k] = entry(i)
    OBVIOUS
  <2>1. k \in Nat
    BY <1>5, <1>4
  <2>2. CASE k <= Len(a)
    <3>1. k \in 1..Len(a)
      BY <2>1, <2>2, <1>4, <1>5
    <3> QED BY <3>1, <1>1, <1>4, <1>5
  <2>3. CASE k > Len(a)
    BY <2>3, <1>5
  <2> QED BY <2>1, <2>2, <2>3, <1>4
<1>9. DOMAIN m = DOMAIN ext /\ \A k \in DOMAIN ext : m[k].title = ext[k].title /\ m[k].proc = ext[k].proc
  <2> SUFFICES ASSUME NEW k \in DOMAIN ext PROVE m[k].title = ext[k].title /\ m[k].proc = ext[k].proc
    <3> HIDE DEF ext, m
    <3> QED BY <1>7
  <2> DEFINE e == ext[k]
             r == m[k]
  <2>1. r = e \/ r = [e EXCEPT !.rem = e.rem + 1]
    <3> HIDE DEF ext, m
    <3> QED BY <1>7
  <2>2. ASSUME e \in Dependency PROVE r.title = e.title /\ r.proc = e.proc
    <3> HIDE DEF e, r
    <3> QED BY <2>1, <2>2 DEF Dependency
  <2>3. ASSUME NEW i \in DOMAIN new, e = entry(i) PROVE r.title = e.title /\ r.proc = e.proc
    <3> DEFINE x == new[i]
               y == FindProcessByTitleId(x)
    <3>2. e = [title |-> x, proc |-> y, rem |-> 0]
      BY <2>3
    <3> HIDE DEF x, y, e, r
    <3> QED BY <2>1, <3>2
  <2> HIDE DEF e, r, entry, new
  <2>4. r.title = e.title /\ r.proc = e.proc
    BY <2>2, <2>3, <1>8 DEF e
  <2> QED BY <2>4 DEF e, r
<1>10. \A i \in DOMAIN new : entry(i).title = new[i] /\ entry(i).proc = FindProcessByTitleId(new[i])
  OBVIOUS
<1> HIDE DEF ext, entry, m, new, a, ttl
<1>11. \A k \in 1..Len(a) : k \in DOMAIN ext
  BY <1>4, <1>5
<1>12. /\ DOMAIN m = 1..Len(a) + Len(new)
       /\ \A k \in 1..Len(a) : m[k].title = a[k].title /\ m[k].proc = a[k].proc
       /\ \A k \in DOMAIN m : k > Len(a) =>
            /\ k - Len(a) \in DOMAIN new /\ m[k].title = new[k - Len(a)]
            /\ m[k].proc = FindProcessByTitleId(m[k].title)
  BY <1>5, <1>9, <1>10, <1>11
<1> QED BY <1>2, <1>3, <1>4, <1>12 DEF m, new, a, ttl

---------------------------------------------------------------------------
(* The titles a launch loads as dependencies do not end by themselves.      *)
LEMMA MarkedArray ==
  ASSUME LocsOK, NEW t \in Threads, MarkDependency(t), ~Panic
  PROVE  LET a == loc[t].array  b == loc'[t].array
         IN  /\ DOMAIN b = DOMAIN a /\ \A k \in DOMAIN a : b[k].title = a[k].title
             /\ \A k \in DOMAIN a : b[k].proc = IF k = loc[t].at THEN loc[t].cur ELSE a[k].proc
<1> DEFINE a == loc[t].array
           b == [a EXCEPT ![loc[t].at] = [@ EXCEPT !.proc = loc[t].cur, !.rem = 0]]
<1>1. loc'[t].array = b
  BY MarkDepLoc
<1>2. a \in Seq(Dependency)
  BY DEF LocsOK, Thread
<1>3. \A k \in DOMAIN a : a[k] \in Dependency
  BY <1>2
<1> HIDE DEF a
<1>4. DOMAIN b = DOMAIN a
  OBVIOUS
<1>5. ASSUME NEW k \in DOMAIN a
      PROVE  b[k].title = a[k].title /\ b[k].proc = IF k = loc[t].at THEN loc[t].cur ELSE a[k].proc
  <2> DEFINE e == a[k]
             n == loc[t].cur
  <2>1. b[k] = IF k = loc[t].at THEN [e EXCEPT !.proc = n, !.rem = 0] ELSE e
    OBVIOUS
  <2>2. e \in Dependency
    BY <1>3
  <2> HIDE DEF e, n, b
  <2>3. b[k].title = e.title /\ b[k].proc = IF k = loc[t].at THEN n ELSE e.proc
    BY <2>1, <2>2 DEF Dependency
  <2> QED BY <2>3 DEF e, n
<1> HIDE DEF b
<1> QED BY <1>1, <1>4, <1>5 DEF a

LEMMA PlainLaunch ==
  ASSUME DepsStay, IInv, PlainOK, NEW t \in Threads, Launch(t)
  PROVE  Plain(loc'[t])
<1> DEFINE l == loc[t]
           m == loc'[t]
<1>0. LocsOK /\ TypeOK /\ l \in Thread /\ PlaceOK(l) /\ Plain(l)
  BY DEF IInv, TypeOK, ControlOK, LocsOK, Threads, PlainOK
<1>1. CASE m = Returned(t) \/ m = l
  <2>1. Plain(Returned(t))
    BY ReturnedFacts, RoleFacts DEF Plain
  <2> QED BY <1>0, <1>1, <2>1
<1>2. ASSUME m.array = l.array, l.pc \in LaunchPlaces \/ m.at = 0,
             m.at # 0 => m.at = l.at /\ m.title = l.title
      PROVE  Plain(m)
  BY <1>0, <1>2 DEF Plain
<1>3. ASSUME NEW d \in Thread, \A k \in DOMAIN d.array : d.array[k].title \notin Leaving, m = Onward(d)
      PROVE  Plain(m)
  BY <1>3, OnwardFacts DEF Plain, SameTask
<1>4. \A x \in {"load", "insert", "register", "merge", "run", "abandon", "markDep"} : x \in LaunchPlaces
  BY DEF LaunchPlaces
<1>5. CASE Panic
  BY <1>1, <1>5 DEF Panic
<1>6. CASE CheckLaunch(t)
  BY <1>0, <1>1, <1>2, <1>6, CheckLoc DEF SameTask
<1>7. CASE Load(t)
  BY <1>0, <1>2, <1>4, <1>7, LoadLoc DEF SameTask
<1>8. CASE LoadFails(t)
  <2>1. CASE m = Onward(l)
    BY <2>1, <1>0, <1>3 DEF Plain
  <2>2. CASE l.pc = "load" /\ SameTask(l, m) /\ m.at = l.at /\ m.title = l.title
    BY <2>2, <1>2, <1>4 DEF SameTask
  <2> QED BY <2>1, <2>2, <1>0, <1>1, <1>8, LoadFailsLoc
<1>9. CASE Insert(t) /\ ~Panic
  BY <1>0, <1>2, <1>4, <1>9, InsertLoc DEF Insert, Enters
<1>10. CASE Register(t)
  BY <1>0, <1>2, <1>4, <1>10, RegisterLoc DEF SameTask
<1>11. CASE MergeOwn(t) \/ MergeDependency(t)
  <2> DEFINE a == Merged(t)
             d == [l EXCEPT !.array = a]
  <2>1. l.title \in Titles /\ l.pc \in {"merge", "mergeDep"} /\ l.pc \in LaunchPlaces
    BY <1>0, <1>11 DEF PlaceOK, MergeOwn, MergeDependency, At, LaunchPlaces
  <2>2. a \in Seq(Dependency)
    BY <2>1, <1>0, MergedTyped
  <2>3. \A k \in DOMAIN a : a[k].title \notin Leaving
    <3> DEFINE new == NewTitles(l.array, l.title)
    <3>1. /\ DOMAIN a = 1..Len(l.array) + Len(new) /\ Len(l.array) \in Nat /\ Len(new) \in Nat
          /\ DOMAIN l.array = 1..Len(l.array)
          /\ \A k \in 1..Len(l.array) : a[k].title = l.array[k].title
          /\ \A k \in DOMAIN a : k > Len(l.array) =>
               k - Len(l.array) \in DOMAIN new /\ a[k].title = new[k - Len(l.array)]
          /\ \A i \in DOMAIN new : Wants(l.title, new[i])
      BY <2>1, <1>0, MergedShape
    <3>2. \A i \in DOMAIN new : new[i] \notin Leaving
      BY <3>1, <2>1 DEF DepsStay, Wants
    <3> HIDE DEF a, new
    <3>3. ASSUME NEW k \in DOMAIN a PROVE a[k].title \notin Leaving
      <4>1. CASE k <= Len(l.array)
        <5>1. k \in 1..Len(l.array)
          BY <3>1, <4>1
        <5> QED BY <5>1, <3>1, <1>0 DEF Plain
      <4>2. CASE k > Len(l.array)
        BY <4>2, <3>1, <3>2
      <4>3. k \in Nat
        BY <3>1
      <4> QED BY <4>1, <4>2, <4>3, <3>1
    <3> QED BY <3>3
  <2>4. CASE MergeOwn(t) /\ ~Panic
    <3>1. m.array = a /\ m.at = l.at /\ m.title = l.title
      BY <2>4, <1>0, MergeOwnLoc
    <3> HIDE DEF a
    <3> QED BY <3>1, <2>1, <2>3, <1>0 DEF Plain
  <2>5. CASE MergeDependency(t) /\ ~Panic
    <3>1. m = Onward(d)
      BY <2>5, <1>0, MergeDepLoc
    <3> HIDE DEF a
    <3>2. d \in Thread /\ d.array = a
      BY <2>2, <1>0 DEF Thread
    <3> HIDE DEF d
    <3> QED BY <3>1, <3>2, <2>3, <1>3
  <2> QED BY <2>4, <2>5, <1>5, <1>11
<1>12. CASE Mark(t)
  BY <1>0, <1>3, <1>12, MarkLoc DEF Plain
<1>13. CASE RunSucceeds(t) \/ RunFails(t)
  <2>1. CASE l.at = 0
    BY <2>1, <1>0, <1>1, <1>13, RunLoc
  <2>2. CASE l.at # 0
    BY <2>2, <1>0, <1>2, <1>4, <1>13, RunLoc DEF SameTask
  <2> QED BY <2>1, <2>2
<1>14. CASE Abandon(t)
  BY <1>0, <1>1, <1>14, AbandonLoc
<1>15. CASE MarkDependency(t) /\ ~Panic
  <2>1. l.pc = "markDep" /\ m.at = l.at /\ m.title = l.title
    BY <1>0, <1>15, MarkDepLoc
  <2>2. DOMAIN m.array = DOMAIN l.array /\ \A k \in DOMAIN l.array : m.array[k].title = l.array[k].title
    BY <1>0, <1>15, MarkedArray
  <2> QED BY <2>1, <2>2, <1>0, <1>4 DEF Plain
<1> QED BY <1>5, <1>6, <1>7, <1>8, <1>9, <1>10, <1>11, <1>12, <1>13, <1>14, <1>15 DEF Launch

LEMMA PlainStep ==
  ASSUME DepsStay, IInv, PlainOK, [Next]_vars
  PROVE  PlainOK'
<1> SUFFICES ASSUME NEW t \in Threads PROVE Plain(loc'[t])
  BY DEF PlainOK, Plain
<1>1. CASE Launch(t)
  BY <1>1, PlainLaunch
<1>2. CASE ~Launch(t)
  <2>1. loc'[t].array \in {loc[t].array, <<>>} /\ (Starting(t)' => loc'[t] = loc[t])
    BY <1>2, LocRest
  <2>2. Plain(loc[t])
    BY DEF PlainOK
  <2> QED BY <2>1, <2>2 DEF Plain, Starting
<1> QED BY <1>1, <1>2

---------------------------------------------------------------------------
(* A process that has been loaded is left alone until it is in the list.    *)
LEMMA RunsFirm ==
  ASSUME IInv, Care, NEW u \in Threads, Careful(u), RunFails(u) \/ RunSucceeds(u) \/ Abandon(u)
  PROVE  /\ Abandon(u) => Firm(loc[u].proc)
         /\ ~Abandon(u) => Firm(loc[u].cur)
<1>1. loc[u].pc = IF Abandon(u) THEN "abandon" ELSE "run"
  BY DEF RunFails, RunSucceeds, Abandon, At
<1>2. OuterIn(u) /\ (loc[u].at # 0 /\ loc[u].pc = "run" => CurIn(u))
  BY <1>1 DEF OuterIn, CurIn, Starting, LaunchPlaces
<1>3. OuterOK(loc[u]) /\ (CurIn(u) => CurOK(loc[u]))
  BY <1>2 DEF Care, CareOf
<1> QED BY <1>1, <1>2, <1>3 DEF OuterOK, CurOK

LEMMA BothCareful ==
  ASSUME NEW t \in Threads, NEW u \in Threads, t # u, Launches(t)
  PROVE  Careful(u)
BY DEF Careful, Threads

LEMMA LoadedStep ==
  ASSUME IInv, Orders, Care, [Next]_vars
  PROVE  LoadedOK'
<1> SUFFICES ASSUME NEW t \in Threads, Entering(t)'
             PROVE  kern'[loc'[t].pid].st = "loaded" /\ kern'[loc'[t].pid].title = loc'[t].title
  BY DEF LoadedOK, LoadedOf
<1>0. LocsOK /\ TypeOK /\ ListSound /\ kern \in KernType
  BY DEF IInv, TypeOK, ControlOK, LocsOK, Threads, KernType
<1>1. CASE Load(t)
  <2>1. loc'[t].pid = NextPid /\ loc'[t].title = loc[t].title /\ NextPid \in Pids
    BY <1>0, <1>1, LoadLoc, NextPidOK DEF Load
  <2>2. kern' = [kern EXCEPT ![NextPid] = [st |-> "loaded", title |-> loc[t].title]]
    BY <1>1 DEF Load
  <2> QED BY <2>1, <2>2, <1>0 DEF KernType
<1>2. CASE ~Load(t)
  <2>1. loc'[t] = loc[t] /\ Entering(t)
    <3>1. CASE Launch(t)
      <4>1. loc'[t].pc = "insert"
        BY DEF Entering
      <4>2. \/ loc'[t] = loc[t]
            \/ \E l \in Thread : loc'[t] = Onward(l)
            \/ loc'[t].pc \in {"idle", "top", "load", "abandon", "register", "merge", "run", "mark", "mergeDep", "markDep"}
        <5>1. CASE MergeDependency(t) /\ ~Panic
          <6> DEFINE a == Merged(t)
                     d == [loc[t] EXCEPT !.array = a]
          <6>1. loc[t].pc = "mergeDep" /\ loc'[t] = Onward(d)
            BY <1>0, <5>1, MergeDepLoc
          <6>2. loc[t] \in Thread /\ loc[t].title \in Titles
            BY <6>1, <1>0 DEF LocsOK, PlaceOK, LaunchPlaces
          <6>3. a \in Seq(Dependency)
            BY <6>2, <1>0, MergedTyped
          <6> HIDE DEF a
          <6>4. d \in Thread
            BY <6>3, <6>2 DEF Thread
          <6> QED BY <6>1, <6>4
        <5>0. loc[t] \in Thread /\ Returned(t).pc \in {"idle", "top"}
          BY <1>0, ReturnedFacts DEF LocsOK, Home
        <5>2. CASE LoadFails(t) \/ Mark(t)
          <6>1. \/ loc'[t] = Returned(t) \/ loc'[t] = Onward(loc[t]) \/ loc'[t].pc = "abandon"
            BY <1>0, <5>2, LoadFailsLoc, MarkLoc
          <6> QED BY <6>1, <5>0
        <5>3. CASE Panic
          BY <5>3 DEF Panic
        <5>4. CASE CheckLaunch(t) \/ (Insert(t) /\ ~Panic) \/ Register(t) \/ (MergeOwn(t) /\ ~Panic)
          <6>1. CASE CheckLaunch(t)
            BY <1>0, <6>1, <5>0, CheckLoc
          <6>2. CASE Insert(t) /\ ~Panic
            <7>1. Enters(t)
              BY <6>2 DEF Insert, Enters
            <7> QED BY <7>1, <1>0, InsertLoc
          <6>3. CASE Register(t)
            BY <1>0, <6>3, RegisterLoc
          <6>4. CASE MergeOwn(t) /\ ~Panic
            BY <1>0, <6>4, MergeOwnLoc
          <6> QED BY <5>4, <6>1, <6>2, <6>3, <6>4
        <5>5. CASE RunSucceeds(t) \/ RunFails(t) \/ Abandon(t) \/ (MarkDependency(t) /\ ~Panic)
          <6>1. CASE RunSucceeds(t) \/ RunFails(t)
            BY <1>0, <6>1, <5>0, RunLoc
          <6>2. CASE Abandon(t)
            BY <1>0, <6>2, <5>0, AbandonLoc
          <6>3. CASE MarkDependency(t) /\ ~Panic
            BY <1>0, <6>3, MarkDepLoc
          <6> QED BY <5>5, <6>1, <6>2, <6>3
        <5> QED BY <3>1, <1>2, <5>1, <5>2, <5>3, <5>4, <5>5 DEF Launch
      <4>3. \A l \in Thread : Onward(l).pc # "insert"
        BY OnwardFacts
      <4> QED BY <4>1, <4>2, <4>3 DEF Entering
    <3>2. CASE ~Launch(t)
      <4>1. Starting(t)'
        BY DEF Starting, Entering, LaunchPlaces
      <4> QED BY <4>1, <3>2, LocRest DEF Entering
    <3> QED BY <3>1, <3>2
  <2> DEFINE p == loc[t].pid
  <2>2. /\ p \in held /\ p \notin ListedPids /\ p \in Pids
        /\ kern[p].st = "loaded" /\ kern[p].title = loc[t].title
    BY <2>1, <1>0 DEF IInv, EnteringOK, Care, LoadedOK, LoadedOf, LocsOK, PlaceOK, Entering
  <2>3. ASSUME NEW u \in Threads, RunFails(u) \/ RunSucceeds(u) \/ Abandon(u)
        PROVE  /\ Abandon(u) => p # node[loc[u].proc].handle
               /\ ~Abandon(u) => p # node[loc[u].cur].handle
    <3>1. u # t
      BY <2>1, <2>3 DEF Entering, RunFails, RunSucceeds, Abandon, At
    <3>2. Launches(t)
      BY <2>1 DEF Entering, Launches, LaunchPlaces
    <3>3. Careful(u)
      BY <3>1, <3>2, BothCareful
    <3>4. (Abandon(u) => Firm(loc[u].proc)) /\ (~Abandon(u) => Firm(loc[u].cur))
      BY <3>3, <2>3, RunsFirm
    <3> QED BY <3>4, <2>2 DEF Firm, Listed, ListedPids, HandlesOf
  <2>4. kern'[p] = kern[p]
    <3> HIDE DEF p
    <3>1. HandlesOf(NodesOf("failed") \cup NodesOf("sent")) \subseteq ListedPids
      BY DEF HandlesOf, NodesOf, ListedPids
    <3>2. \A u \in Threads : /\ RunFails(u) => ~Abandon(u)
                             /\ RunSucceeds(u) => ~Abandon(u)
      BY DEF RunFails, RunSucceeds, Abandon, At
    <3>3. ~Exit(p)
      BY <2>2 DEF Exit
    <3> QED BY <2>2, <2>3, <3>1, <3>2, <3>3, KernCases DEF ListedPids
  <2> QED BY <2>1, <2>2, <2>4
<1> QED BY <1>1, <1>2

(* The application slot is emptied, or filled by a launch that ends.        *)
LEMMA RunningStep ==
  ASSUME [Next]_vars, running' # running
  PROVE  \/ running' = NoNode /\ (TakeUnregisterProcess \/ (MonitorFinish /\ IsExitedApp(running)))
         \/ \E t \in Threads : /\ RunSucceeds(t) /\ loc[t].at = 0 /\ IsApp(t)
                               /\ running' = loc[t].cur
<1>1. ASSUME NEW t \in Threads, Launch(t)
      PROVE  RunSucceeds(t) /\ loc[t].at = 0 /\ IsApp(t) /\ running' = loc[t].cur
  <2>1. CASE RunSucceeds(t)
    BY <2>1 DEF RunSucceeds, Outer
  <2>2. CASE MergeOwn(t) \/ MergeDependency(t)
    BY <2>2 DEF MergeOwn, MergeDependency, Merge, Panic, managerVars
  <2>3. CASE ~RunSucceeds(t) /\ ~MergeOwn(t) /\ ~MergeDependency(t)
    BY <2>3, <1>1 DEF Launch, CheckLaunch, Load, LoadFails, Insert, Register, Mark, RunFails, Abandon,
                      MarkDependency, Panic, managerVars
  <2> QED BY <2>1, <2>2, <2>3
<1>2. ASSUME NEW t \in Threads, Terminate(t)
      PROVE  FALSE
  <2>1. CASE TerminateApplication(t) \/ LoopBegin(t) \/ LoopNext(t) \/ LoopEnd(t) \/ FindCaller(t)
    BY <2>1 DEF TerminateApplication, LoopBegin, LoopNext, LoopEnd, FindCaller, managerVars
  <2>2. CASE ClearEvent(t) \/ Arm(t) \/ NotifyAll(t) \/ NotifyLast(t)
    BY <2>2 DEF ClearEvent, Arm, NotifyAll, NotifyLast, Panic, managerVars
  <2>3. CASE Commit(t) \/ WaitUntilTimeout(t) \/ WaitForever(t) \/ Timeout(t) \/ KillOverdue(t) \/ Disarm(t)
    BY <2>3 DEF Commit, WaitUntilTimeout, WaitForever, WaitFor, Timeout, KillOverdue, Disarm, managerVars
  <2> QED BY <2>1, <2>2, <2>3, <1>2 DEF Terminate
<1>3. CASE Monitor
  <2>1. CASE MonitorFinish
    BY <2>1, Zenon DEF MonitorFinish
  <2>2. CASE MonitorReap
    BY <2>2, Zenon DEF MonitorReap, managerVars
  <2>3. CASE MonitorSignal
    BY <2>3, Zenon DEF MonitorSignal, managerVars
  <2>4. CASE MonitorScan \/ MonitorCheck \/ MonitorWait \/ MonitorWakesForNewProcess
    BY <2>4, Zenon DEF MonitorScan, MonitorCheck, MonitorWait, MonitorWakesForNewProcess, managerVars
  <2>5. CASE MonitorWakesForExit \/ MonitorDropDependencies \/ MonitorUnregister
    BY <2>5, Zenon DEF MonitorWakesForExit, MonitorDropDependencies, MonitorUnregister, managerVars
  <2> QED BY <1>3, <2>1, <2>2, <2>3, <2>4, <2>5 DEF Monitor
<1>4. CASE TakeCommand
  <2>1. CASE TakeUnregisterProcess
    <3>1. PICK n : UNCHANGED running \/ running' = IF running = n THEN NoNode ELSE running
      BY <2>1, Zenon DEF TakeUnregisterProcess
    <3> QED BY <3>1, <2>1
  <2>2. CASE ~TakeUnregisterProcess
    BY <2>2, <1>4 DEF TakeCommand, TakeTerminateApplication, TakeTerminate, TakePrepareForReboot,
                      TakeLaunchTitle, TakeLaunchAppDebug, managerVars
  <2> QED BY <2>1, <2>2
<1>5. CASE RunTask \/ FoundRunning \/ RunnerReady \/ RunnerTakesTask \/ (\E p \in Pids : Exit(p))
            \/ UNCHANGED vars
  BY <1>5 DEF RunTask, FoundRunning, RunnerReady, RunnerTakesTask, Exit, managerVars, vars
<1> QED BY <1>1, <1>2, <1>3, <1>4, <1>5 DEF Next, Main, Runner, Threads

(* Two threads do not launch an application at once.                        *)
LEMMA OneAppLaunch ==
  ASSUME Orders, NEW t \in Threads, NEW u \in Threads, t # u, Launches(t), Launches(u)
  PROVE  ~Patient /\ ~(IsApp(t) /\ IsApp(u)) /\ ~IsApp("main") /\ IsApp("runner")
<1>1. Launches("main") /\ Launches("runner")
  BY DEF Threads
<1>2. loc["main"].pc # "idle" /\ ~RunnerRests
  BY <1>1 DEF Launches, RunnerRests, LaunchPlaces
<1>3. ~Patient
  BY <1>2 DEF Orders, Single
<1> QED BY <1>1, <1>3 DEF Orders, Roles, MainRole, RunnerRole, Launches, IsApp, Threads

LEMMA StartsWith ==
  ASSUME IInv, [Next]_vars, NEW t \in Threads, Starting(t)', IsApp(t)'
  PROVE  /\ Launches(t) /\ IsApp(t) /\ loc'[t].req = loc[t].req
         /\ Starting(t) \/ (CheckLaunch(t) /\ running = NoNode)
<1>0. LocsOK
  BY DEF IInv, TypeOK, ControlOK, LocsOK, Threads
<1>1. CASE ~Launch(t)
  BY <1>1, LocRest DEF Starting, Launches, IsApp
<1>2. CASE Launch(t)
  <2>1. loc'[t].pc # Returned(t).pc
    BY ReturnedFacts, RoleFacts DEF Starting
  <2>2. Launches(t) /\ loc'[t].req = loc[t].req
    BY <2>1, <1>0, <1>2, LaunchLoc
  <2>3. CASE CheckLaunch(t)
    <3>1. ~SlotTaken(t)
      BY <2>1, <2>3, <1>0, CheckLoc
    <3> QED BY <3>1, <2>2, <2>3 DEF SlotTaken, IsApp
  <2>4. CASE ~CheckLaunch(t)
    <3>1. loc[t].pc \in LaunchPlaces
      BY <2>4, <1>2 DEF Launch, LaunchPlaces, At, Load, LoadFails, Insert, Register, MergeOwn, Mark,
                        RunSucceeds, RunFails, Abandon, MarkDependency, MergeDependency
    <3> QED BY <3>1, <2>2 DEF Starting, IsApp
  <2> QED BY <2>3, <2>4
<1> QED BY <1>1, <1>2

LEMMA SlotFreeStep ==
  ASSUME IInv, Orders, SlotFree, [Next]_vars
  PROVE  SlotFree'
<1> SUFFICES ASSUME NEW t \in Threads, Starting(t)', IsApp(t)'
             PROVE  running' = NoNode
  BY DEF SlotFree
<1>0. LocsOK
  BY DEF IInv, TypeOK, ControlOK, LocsOK, Threads
<1>1. /\ Launches(t) /\ IsApp(t)
      /\ Starting(t) \/ (CheckLaunch(t) /\ running = NoNode)
  BY StartsWith
<1>2. running = NoNode
  BY <1>1 DEF SlotFree
<1>3. ASSUME NEW u \in Threads, RunSucceeds(u), loc[u].at = 0, IsApp(u)
      PROVE  FALSE
  <2>1. Launches(u)
    BY <1>3 DEF RunSucceeds, At, Launches, LaunchPlaces
  <2>2. u = t
    BY <2>1, <1>1, <1>3, OneAppLaunch
  <2>3. loc'[t] = Returned(t)
    BY <2>2, <1>0, <1>3, RunLoc
  <2> QED BY <2>3, ReturnedFacts, RoleFacts DEF Starting
<1> QED BY <1>2, <1>3, RunningStep

---------------------------------------------------------------------------
LEMMA OrdersInit ==
  ASSUME Init
  PROVE  Orders /\ Care
<1>0. /\ loc = [t \in Threads |-> Returned(t)] /\ loc["main"].pc = "idle" /\ loc["runner"].pc = "top"
      /\ \A t \in Threads : loc[t] = Returned(t) /\ loc[t].pc \in {"idle", "top"} /\ loc[t].array = <<>>
      /\ ~ready /\ ~parametersSet /\ ~preparingForReboot /\ running = NoNode /\ mon.pc = "scan"
  BY ReturnedFacts DEF Init, Threads, Home
<1>1. \A t \in Threads : ~Launches(t) /\ ~Starting(t) /\ loc[t].pc \notin LaunchPlaces
                         /\ loc[t].pc \notin Ending /\ ~Entering(t)
  BY <1>0, RoleFacts DEF Launches, Starting, LaunchPlaces, Entering, Ending
<1>2. "main" \in Threads /\ "runner" \in Threads
  BY DEF Threads
<1>3. Orders
  <2>1. MainRole(loc["main"]) /\ RunnerRole(loc["runner"])
    BY <1>0, <1>1, <1>2 DEF MainRole, RunnerRole, Launches
  <2> QED BY <2>1, <1>0, <1>1, <1>2 DEF Orders, HandOverOK, ReqOK, HandedOK, Single, Roles
<1>4. Care
  <2>1. \A t \in Threads : ~OuterIn(t) /\ ~CurIn(t)
    BY <1>0, <1>1 DEF OuterIn, CurIn
  <2>2. PlainOK
    BY <1>0, <1>1 DEF PlainOK, Plain
  <2> QED BY <2>1, <2>2, <1>0, <1>1, <1>2 DEF Care, CareOf, Apart, LoadedOK, LoadedOf, ExitedOK, SlotFree
<1> QED BY <1>3, <1>4

LEMMA CaringStep ==
  ASSUME Orderly, DepsStay, IInv, Orders, Care, [Next]_vars
  PROVE  Orders' /\ Care'
<1>1. Orders'
  BY OrdersStep
<1>2. \A t \in Threads : CareOf(t)'
  BY CareStep
<1>3. Apart' /\ PlainOK' /\ LoadedOK' /\ ExitedOK' /\ SlotFree'
  BY ApartStep, PlainStep, LoadedStep, ExitedStep, SlotFreeStep DEF Care
<1> QED BY <1>1, <1>2, <1>3 DEF Care

LEMMA CareIsTaken ==
  ASSUME Orderly, DepsStay
  PROVE  Spec => [](IInv /\ Orders /\ Care)
<1>1. Init => Orders /\ Care
  BY OrdersInit
<1>2. IInv /\ Orders /\ Care /\ [Next]_vars => (Orders /\ Care)'
  BY CaringStep
<1>3. Spec => []IInv
  BY Invariant
<1> QED BY <1>1, <1>2, <1>3, PTL DEF Spec

LEMMA CarefulWrites ==
  ASSUME IInv, Orders, Care
  PROVE  WritesToItsProcess
<1>0. LocsOK /\ DOMAIN loc = Threads
  BY DEF IInv, TypeOK, ControlOK, LocsOK, Threads
<1> SUFFICES ASSUME NEW t \in Threads,
                    loc[t].pc \in {"mark", "markDep"} \/ (loc[t].pc = "register" /\ Outer(t) /\ IsApp(t))
             PROVE  LET n == IF loc[t].pc = "mark" THEN loc[t].proc ELSE loc[t].cur
                    IN  Listed(n) /\ node[n].handle = loc[t].pid
  BY <1>0 DEF WritesToItsProcess
<1>1. Starting(t) /\ Launches(t) /\ OuterIn(t) /\ (loc[t].pc = "markDep" => CurIn(t))
  BY <1>0 DEF Starting, Launches, LaunchPlaces, OuterIn, CurIn, LocsOK, PlaceOK
<1>2. Careful(t)
  BY <1>1 DEF Orders, Roles, MainRole, Careful, Threads, Launches, IsApp
<1>3. OuterOK(loc[t]) /\ (CurIn(t) => CurOK(loc[t]))
  BY <1>1, <1>2 DEF Care, CareOf
<1> QED BY <1>1, <1>3 DEF OuterOK, CurOK, Firm, Outer

(* A listed application runs in the slot, has died, or is still in the      *)
(* hands of the thread that launches it.                                    *)
HasStarted(n) == n = running /\ kern[node[n].handle].st # "loaded"
InHands(n) == \E t \in Threads : Careful(t) /\ OuterIn(t) /\ IsApp(t) /\ n = loc[t].proc
AppAt(n) == Dead(node[n].handle) \/ HasStarted(n) \/ InHands(n)
AppsOK == \A n \in ToSet(processList) : Has(n, "app") => AppAt(n)

(* The end of every application is announced.                               *)
NotifiedApps == \A r \in Requests : r.op \in LaunchOps /\ r.app => r.notify
SlotOK ==
  NotifiedApps /\ running # NoNode =>
    Listed(running) /\ Has(running, "app") /\ (Has(running, "notify") \/ Has(running, "notifyTerminated"))

LEMMA UnregisterFacts ==
  ASSUME IInv, TakeUnregisterProcess
  PROVE  /\ UNCHANGED <<node, kern, loc>>
         /\ \/ UNCHANGED <<processList, running>>
            \/ \E n \in ToSet(processList) : /\ ToSet(processList') = ToSet(processList) \ {n}
                                             /\ running' = IF running = n THEN NoNode ELSE running
<1>0. TypeOK /\ ListSound
  BY DEF IInv
<1>1. UNCHANGED kern /\ UNCHANGED loc
  BY DEF TakeUnregisterProcess
<1>2. PICK r \in Requests :
        LET n == FindProcessByTitleId(r.title) IN
        IF n = NoNode THEN UNCHANGED <<held, listVars, running>>
        ELSE /\ running' = IF running = n THEN NoNode ELSE running
             /\ ProcessList_Delete(n) /\ UNCHANGED node
  BY DEF TakeUnregisterProcess, Of
<1> DEFINE n == FindProcessByTitleId(r.title)
<1>3. n # NoNode => n \in ToSet(processList)
  <2> DEFINE ns == {m \in Nodes : node[m].title = r.title}
  <2>1. n = FirstListed(ns) /\ ns \in SUBSET Nodes
    BY DEF FindProcessByTitleId
  <2> HIDE DEF ns, n
  <2> QED BY <2>1, <1>0, FirstListedProperties DEF TypeOK, Listed
<1>4. \/ n = NoNode /\ UNCHANGED <<held, listVars, running>>
      \/ /\ n # NoNode /\ ProcessList_Delete(n) /\ UNCHANGED node
         /\ running' = IF running = n THEN NoNode ELSE running
  BY <1>2
<1> HIDE DEF n
<1>5. CASE n = NoNode
  BY <1>1, <1>4, <1>5 DEF listVars
<1>6. CASE n # NoNode
  BY <1>0, <1>1, <1>3, <1>4, <1>6, DeletedLists
<1> QED BY <1>5, <1>6

LEMMA ListedBefore ==
  ASSUME IInv, [Next]_vars, NEW n \in ToSet(processList'), n \notin ToSet(processList)
  PROVE  \E t \in Threads : Enters(t) /\ n = Head(freeList)
<1>1. CASE MonitorReap /\ FindProcessById(mon.exited) # NoNode
  BY <1>1, ReapFacts
<1>2. CASE TakeUnregisterProcess
  BY <1>2, UnregisterFacts
<1> QED BY <1>1, <1>2, ListStep

LEMMA AppCareful ==
  ASSUME Orders, NEW t \in Threads, Launches(t), IsApp(t)
  PROVE  Careful(t)
BY DEF Orders, Roles, MainRole, Careful, Threads, Launches, IsApp

(* An application in the hands of its thread stays there until the thread   *)
(* runs it or gives it up.                                                  *)
LEMMA OuterGoesOn ==
  ASSUME IInv, NEW t \in Threads, Launch(t), OuterIn(t)
  PROVE  \/ Abandon(t) \/ (loc[t].at = 0 /\ (RunSucceeds(t) \/ RunFails(t)))
         \/ OuterIn(t)' /\ loc'[t].proc = loc[t].proc /\ loc'[t].req = loc[t].req
<1>0. LocsOK /\ TypeOK /\ loc[t] \in Thread /\ PlaceOK(loc[t])
  BY DEF IInv, TypeOK, ControlOK, LocsOK, Threads
<1> USE DEF LaunchPlaces
<1>1. CASE Panic
  <2>1. UNCHANGED loc
    BY <1>1 DEF Panic
  <2> QED BY <2>1 DEF OuterIn, Starting
<1>2. CASE CheckLaunch(t)
  BY <1>0, <1>2, CheckLoc DEF OuterIn, Starting
<1>3. ASSUME loc'[t].proc = loc[t].proc, loc'[t].req = loc[t].req, loc'[t].pc \in LaunchPlaces,
             loc'[t].at # 0 \/ loc'[t].pc \notin {"load", "insert"}
      PROVE  OuterIn(t)' /\ loc'[t].proc = loc[t].proc /\ loc'[t].req = loc[t].req
  BY <1>3 DEF OuterIn, Starting
<1>4. CASE Load(t)
  <2>1. loc'[t].pc = "insert" /\ loc[t].pc = "load" /\ loc'[t].at = loc[t].at /\ SameTask(loc[t], loc'[t])
    BY <1>0, <1>4, LoadLoc
  <2>2. loc[t].at # 0
    BY <2>1 DEF OuterIn
  <2> QED BY <2>1, <2>2, <1>3 DEF SameTask
<1>5. CASE LoadFails(t)
  <2>1. loc[t].pc = "load" /\ loc[t].at # 0
    BY <1>0, <1>5, LoadFailsLoc DEF OuterIn
  <2>2. ~Outer(t)
    BY <2>1 DEF Outer
  <2>3. \/ loc'[t] = Onward(loc[t])
        \/ loc'[t].pc = "abandon" /\ SameTask(loc[t], loc'[t])
    <3>1. loc' = [loc EXCEPT ![t] = IF Missing(loc[t]) # {} THEN Onward(loc[t])
                                    ELSE [loc[t] EXCEPT !.pc = "abandon"]]
      BY <1>5, <2>2 DEF LoadFails
    <3>2. loc'[t] = IF Missing(loc[t]) # {} THEN Onward(loc[t]) ELSE [loc[t] EXCEPT !.pc = "abandon"]
      BY <3>1, <1>0 DEF LocsOK
    <3>3. [loc[t] EXCEPT !.pc = "abandon"].pc = "abandon" /\ SameTask(loc[t], [loc[t] EXCEPT !.pc = "abandon"])
      BY <1>0 DEF Thread, SameTask
    <3> QED BY <3>2, <3>3
  <2> QED BY <2>3, <1>0, <1>3, OnwardFacts DEF SameTask
<1>6. CASE Insert(t) /\ ~Panic
  <2>1. Enters(t) /\ loc[t].pc = "insert" /\ loc'[t].pc = "register" /\ loc'[t].req = loc[t].req
        /\ (loc[t].at # 0 => loc'[t].proc = loc[t].proc)
    BY <1>0, <1>6, InsertLoc DEF Insert, Enters
  <2> QED BY <2>1, <1>3 DEF OuterIn
<1>7. CASE Register(t)
  BY <1>0, <1>3, <1>7, RegisterLoc DEF SameTask
<1>8. CASE MergeOwn(t) /\ ~Panic
  BY <1>0, <1>3, <1>8, MergeOwnLoc
<1>9. CASE MergeDependency(t) /\ ~Panic
  <2> DEFINE a == Merged(t)
             d == [loc[t] EXCEPT !.array = a]
  <2>1. loc[t].pc = "mergeDep" /\ loc'[t] = Onward(d)
    BY <1>0, <1>9, MergeDepLoc
  <2>2. loc[t].title \in Titles
    BY <2>1, <1>0 DEF PlaceOK
  <2>3. a \in Seq(Dependency)
    BY <2>2, <1>0, MergedTyped
  <2> HIDE DEF a
  <2>4. d \in Thread /\ d.proc = loc[t].proc /\ d.req = loc[t].req
    BY <2>3, <1>0 DEF Thread
  <2> HIDE DEF d
  <2> QED BY <2>1, <2>4, <1>3, OnwardFacts DEF SameTask
<1>10. CASE Mark(t)
  BY <1>0, <1>3, <1>10, MarkLoc, OnwardFacts DEF SameTask
<1>11. CASE (RunSucceeds(t) \/ RunFails(t)) /\ loc[t].at # 0
  BY <1>0, <1>3, <1>11, RunLoc DEF SameTask
<1>12. CASE MarkDependency(t) /\ ~Panic
  BY <1>0, <1>3, <1>12, MarkDepLoc
<1> QED BY <1>1, <1>2, <1>4, <1>5, <1>6, <1>7, <1>8, <1>9, <1>10, <1>11, <1>12 DEF Launch

LEMMA RunOutcome ==
  ASSUME IInv, Care, NEW t \in Threads, Careful(t), OuterIn(t), IsApp(t),
         Abandon(t) \/ (loc[t].at = 0 /\ (RunSucceeds(t) \/ RunFails(t)))
  PROVE  LET n == loc[t].proc
         IN  \/ kern'[node[n].handle].st = "dead"
             \/ /\ running' = n /\ kern'[node[n].handle].st = "running" /\ RunSucceeds(t)
                /\ "app" \in node[n].flags
                /\ node' = IF loc[t].req.notify THEN [node EXCEPT ![n].flags = @ \cup {"notify"}] ELSE node
<1> DEFINE n == loc[t].proc
           p == node[n].handle
<1>0. /\ OuterOK(loc[t]) /\ Firm(n) /\ kern[p].st = "loaded" /\ kern \in KernType
      /\ p \in Pids \cap held
  BY FirmFacts DEF Care, CareOf, OuterOK, IInv, TypeOK, KernType
<1>1. CASE Abandon(t)
  <2>1. kern' = Terminated(kern, {p})
    BY <1>1 DEF Abandon
  <2> HIDE DEF p, n
  <2>2. kern'[p].st = "dead"
    BY <2>1, <1>0 DEF Terminated, KernType
  <2> QED BY <2>2 DEF p, n
<1>2. CASE loc[t].at = 0 /\ (RunSucceeds(t) \/ RunFails(t))
  <2>1. loc[t].pc = "run" /\ loc[t].cur = n /\ Outer(t)
    BY <1>0, <1>2 DEF RunSucceeds, RunFails, At, OuterOK, Outer
  <2>2. "app" \in node[n].flags
    BY <2>1, <1>0 DEF OuterOK, IsApp
  <2>3. RunSucceeds(t)
    BY <2>1, <1>0, <1>2 DEF RunFails, Runs
  <2>4. /\ kern' = [kern EXCEPT ![p].st = "running"] /\ running' = n
        /\ node' = IF loc[t].req.notify THEN [node EXCEPT ![n].flags = @ \cup {"notify"}] ELSE node
    BY <2>1, <2>3 DEF RunSucceeds
  <2>5. kern'[p].st = "running"
    <3> HIDE DEF p, n
    <3> QED BY <2>4, <1>0 DEF KernType
  <2> QED BY <2>2, <2>3, <2>4, <2>5
<1> QED BY <1>1, <1>2

(* What a step does to a listed application                                 *)
LEMMA AppStep ==
  ASSUME Orderly, IInv, Orders, Orders', Care, AppsOK, [Next]_vars,
         NEW n \in ToSet(processList), n \in ToSet(processList'), Has(n, "app")'
  PROVE  AppAt(n)'
<1> DEFINE p == node[n].handle
<1>0. /\ LocsOK /\ TypeOK /\ ListSound /\ kern \in KernType /\ n \in Nodes /\ p \in Pids
      /\ kern[p].st # "none" /\ NoNode \notin Nodes
  <2>1. LocsOK /\ TypeOK /\ ListSound /\ kern \in KernType /\ p \in held /\ HeldBorn
    BY DEF IInv, TypeOK, ControlOK, LocsOK, Threads, KernType, ListSound, HandlesOf
  <2>3. n \in Nodes
    BY <2>1, ListsApart
  <2>2. held \subseteq Pids /\ NoNode \notin Nodes
    BY <2>1 DEF TypeOK, NoNode, Nodes
  <2> QED BY <2>1, <2>2, <2>3 DEF HeldBorn
<1>1. \A t \in Threads : Enters(t) => n # Head(freeList)
  BY <1>0, EnteredLists
<1>2. ASSUME NEW t \in Threads, Register(t), loc[t].at = 0, IsApp(t), n = loc[t].cur
      PROVE  InHands(n)'
  <2>1. Launches(t) /\ Starting(t) /\ OuterIn(t) /\ loc[t].pc = "register"
    BY <1>2 DEF Register, At, Launches, Starting, OuterIn, LaunchPlaces
  <2>2. Careful(t) /\ OuterOK(loc[t]) /\ loc[t].proc = n
    BY <2>1, <1>2, AppCareful DEF Care, CareOf, OuterOK
  <2>3. OuterIn(t)' /\ loc'[t].proc = n /\ loc'[t].req = loc[t].req
    BY <2>1, <2>2, <1>2, OuterGoesOn DEF Launch, Abandon, RunSucceeds, RunFails, At
  <2>4. Launches(t)' /\ IsApp(t)'
    BY <2>3, <1>2 DEF OuterIn, Starting, Launches, IsApp
  <2>5. Careful(t)'
    BY <2>4 DEF Orders, Roles, MainRole, Careful, Threads, Launches, IsApp
  <2> QED BY <2>3, <2>4, <2>5 DEF InHands
<1>3. CASE \E t \in Threads : Register(t) /\ loc[t].at = 0 /\ IsApp(t) /\ n = loc[t].cur
  BY <1>2, <1>3 DEF AppAt
<1>4. CASE Tagged(node[n], node'[n])
  <2>1. node'[n].handle = p /\ Has(n, "app")
    BY <1>4 DEF Tagged, SameTags, Has
  <2>2. Dead(p) \/ HasStarted(n) \/ InHands(n)
    BY <2>1 DEF AppsOK, AppAt
  <2>3. (Dead(p) => kern'[p].st = "dead") /\ (kern[p].st # "loaded" => kern'[p].st # "loaded")
    <3> HIDE DEF p
    <3> QED BY <1>0, KernGoesOn DEF Dead
  <2>4. CASE Dead(p)
    BY <2>1, <2>3, <2>4 DEF AppAt, Dead
  <2>5. CASE HasStarted(n)
    <3>1. n = running /\ running # NoNode /\ kern[p].st # "loaded"
      BY <2>5, <1>0 DEF HasStarted
    <3>2. CASE running' = running
      BY <3>1, <3>2, <2>1, <2>3 DEF AppAt, HasStarted
    <3>3. CASE TakeUnregisterProcess /\ running' # running
      <4>1. n \notin ToSet(processList')
        BY <3>1, <3>3, UnregisterFacts
      <4> QED BY <4>1
    <3>4. CASE MonitorFinish /\ IsExitedApp(running)
      <4>1. mon.pc = "finish" /\ p = mon.backup.handle
        BY <3>1, <3>4 DEF MonitorFinish, MonitorIs, IsExitedApp
      <4>2. Dead(p)
        BY <4>1 DEF Care, ExitedOK
      <4> QED BY <4>2, <2>4
    <3>5. ~\E t \in Threads : RunSucceeds(t) /\ loc[t].at = 0 /\ IsApp(t)
      BY <3>1 DEF RunSucceeds, At, Care, SlotFree, Starting, LaunchPlaces
    <3> QED BY <3>2, <3>3, <3>4, <3>5, RunningStep
  <2>6. CASE InHands(n)
    <3>1. PICK t \in Threads : Careful(t) /\ OuterIn(t) /\ IsApp(t) /\ n = loc[t].proc
      BY <2>6 DEF InHands
    <3>2. ASSUME OuterIn(t)', loc'[t].proc = loc[t].proc, loc'[t].req = loc[t].req
          PROVE  AppAt(n)'
      <4>1. Launches(t)' /\ IsApp(t)'
        BY <3>1, <3>2 DEF OuterIn, Starting, Launches, IsApp
      <4>2. Careful(t)'
        BY <4>1 DEF Orders, Roles, MainRole, Careful, Threads, Launches, IsApp
      <4> QED BY <3>1, <3>2, <4>1, <4>2 DEF InHands, AppAt
    <3>3. CASE ~Launch(t)
      <4>1. loc'[t] = loc[t]
        BY <3>1, <3>3, LocRest DEF OuterIn
      <4>2. OuterIn(t)'
        BY <3>1, <4>1 DEF OuterIn, Starting
      <4> QED BY <4>1, <4>2, <3>2
    <3>4. CASE Abandon(t) \/ (loc[t].at = 0 /\ (RunSucceeds(t) \/ RunFails(t)))
      <4>1. kern'[p].st = "dead" \/ (running' = n /\ kern'[p].st = "running")
        BY <3>1, <3>4, RunOutcome
      <4> QED BY <4>1, <2>1 DEF AppAt, Dead, HasStarted
    <3> QED BY <3>1, <3>2, <3>3, <3>4, OuterGoesOn
  <2> QED BY <2>2, <2>4, <2>5, <2>6
<1> QED BY <1>0, <1>1, <1>3, <1>4, NodesTagged

LEMMA AppsStep ==
  ASSUME Orderly, IInv, Orders, Orders', Care, AppsOK, [Next]_vars
  PROVE  AppsOK'
<1> SUFFICES ASSUME NEW n \in ToSet(processList'), Has(n, "app")'
             PROVE  AppAt(n)'
  BY DEF AppsOK
<1>1. CASE n \in ToSet(processList)
  BY <1>1, AppStep
<1>2. CASE n \notin ToSet(processList)
  <2>1. PICK t \in Threads : Enters(t) /\ n = Head(freeList)
    BY <1>2, ListedBefore
  <2> DEFINE e == Process(loc[t].pid, loc[t].title, {})
  <2>2. node' = [node EXCEPT ![n] = e] /\ node \in [Nodes -> ProcessData] /\ n \in Nodes
    BY <2>1, EnteredLists DEF Enters, Insert, ProcessList_New, IInv, TypeOK
  <2>3. e.flags = {}
    BY DEF Process, BlankProcess
  <2> HIDE DEF e
  <2>4. node'[n].flags = {}
    BY <2>2, <2>3
  <2> QED BY <2>4 DEF Has
<1> QED BY <1>1, <1>2

(* The process in the slot stays an application whose end is announced, and *)
(* is taken off the list only when the slot is emptied.                     *)
LEMMA SlotStep ==
  ASSUME IInv, Orders, Care, SlotOK, [Next]_vars
  PROVE  SlotOK'
<1> SUFFICES ASSUME NotifiedApps, running' # NoNode
             PROVE  /\ Listed(running)' /\ Has(running, "app")'
                    /\ Has(running, "notify")' \/ Has(running, "notifyTerminated")'
  BY DEF SlotOK
<1>0. TypeOK /\ ListSound /\ LocsOK /\ node \in [Nodes -> ProcessData]
  BY DEF IInv, TypeOK, ControlOK, LocsOK, Threads
<1>1. CASE running' = running
  <2> DEFINE n == running
  <2>1. /\ n \in ToSet(processList) /\ n \in Nodes /\ "app" \in node[n].flags
        /\ "notify" \in node[n].flags \/ "notifyTerminated" \in node[n].flags
    BY <1>0, <1>1, ListsApart DEF SlotOK, Listed, Has
  <2>2. \A t \in Threads : ~(Starting(t) /\ IsApp(t))
    BY <1>1 DEF Care, SlotFree
  <2>3. Tagged(node[n], node'[n])
    <3>1. \A t \in Threads : ~(Enters(t) /\ n = Head(freeList))
      BY <1>0, <2>1, EnteredLists
    <3>2. \A t \in Threads : ~(Register(t) /\ loc[t].at = 0 /\ IsApp(t) /\ n = loc[t].cur)
      BY <2>2 DEF Register, At, Starting, LaunchPlaces
    <3> QED BY <2>1, <3>1, <3>2, NodesTagged
  <2>4. n \in ToSet(processList')
    <3>1. CASE MonitorReap /\ FindProcessById(mon.exited) # NoNode
      <4>1. \/ UNCHANGED processList
            \/ n # FindProcessById(mon.exited) /\ ToSet(processList') = ToSet(processList) \ {FindProcessById(mon.exited)}
        BY <3>1, <2>1, ReapFacts
      <4> QED BY <4>1, <2>1
    <3>2. CASE TakeUnregisterProcess
      BY <3>2, <2>1, <1>1, UnregisterFacts
    <3> QED BY <3>1, <3>2, <2>1, ListStep
  <2> QED BY <1>1, <2>1, <2>3, <2>4 DEF Listed, Has, Tagged, SameTags
<1>2. CASE running' # running
  <2>1. PICK t \in Threads : RunSucceeds(t) /\ loc[t].at = 0 /\ IsApp(t) /\ running' = loc[t].cur
    BY <1>2, RunningStep
  <2> DEFINE n == loc[t].cur
  <2>2. Launches(t) /\ OuterIn(t) /\ loc[t].pc = "run"
    BY <2>1 DEF RunSucceeds, At, Launches, Starting, OuterIn, LaunchPlaces
  <2>3. OuterOK(loc[t]) /\ loc[t].proc = n
    BY <2>1, <2>2, AppCareful DEF Care, CareOf, OuterOK
  <2>4. n \in Nodes /\ n \in ToSet(processList) /\ "app" \in node[n].flags
    BY <2>1, <2>2, <2>3 DEF OuterOK, Firm, Listed, IsApp
  <2>5. loc[t].req.notify
    BY <2>1, <2>2 DEF Orders, ReqOK, NotifiedApps, IsApp
  <2>6. node' = [node EXCEPT ![n].flags = @ \cup {"notify"}] /\ UNCHANGED processList
    BY <2>1, <2>5 DEF RunSucceeds, Outer
  <2> HIDE DEF n
  <2>7. node'[n].flags = node[n].flags \cup {"notify"}
    BY <2>4, <2>6, <1>0 DEF ProcessData
  <2> QED BY <2>1, <2>4, <2>6, <2>7 DEF Listed, Has, n
<1> QED BY <1>1, <1>2

LEMMA AppsInit ==
  ASSUME Init
  PROVE  AppsOK /\ SlotOK
<1>1. /\ processList = [k \in KipPids |-> k] /\ running = NoNode
      /\ node = [n \in Nodes |-> IF n \in KipPids THEN Process(n, Kips[n], {"kip"}) ELSE BlankProcess]
  BY DEF Init
<1>2. IInv
  BY InitStep
<1>3. \A n \in ToSet(processList) : n \in Nodes
  BY <1>2, ListsApart DEF IInv
<1>4. \A n \in Nodes : node[n].flags \in {{"kip"}, {}}
  <2> SUFFICES ASSUME NEW n \in Nodes PROVE node[n].flags \in {{"kip"}, {}}
    OBVIOUS
  <2>1. Process(n, Kips[n], {"kip"}).flags = {"kip"} /\ BlankProcess.flags = {}
    BY DEF Process, BlankProcess
  <2>2. node[n] = IF n \in KipPids THEN Process(n, Kips[n], {"kip"}) ELSE BlankProcess
    BY <1>1
  <2> QED BY <2>1, <2>2
<1>5. \A n \in ToSet(processList) : ~Has(n, "app")
  BY <1>3, <1>4 DEF Has
<1> QED BY <1>1, <1>5 DEF AppsOK, SlotOK

LEMMA ApplicationsAreKept ==
  ASSUME Orderly, DepsStay
  PROVE  Spec => [](IInv /\ Orders /\ Care /\ AppsOK /\ SlotOK)
<1>1. Init => AppsOK /\ SlotOK
  BY AppsInit
<1>2. /\ IInv /\ Orders /\ Care /\ AppsOK /\ SlotOK /\ Orders' /\ [Next]_vars
      => (AppsOK /\ SlotOK)'
  BY AppsStep, SlotStep
<1>3. Spec => [](IInv /\ Orders /\ Care)
  BY CareIsTaken
<1> QED BY <1>1, <1>2, <1>3, PTL DEF Spec

(* A thread writes to the node of the process it launches outside the lock  *)
(* of the list, in Mark, MarkDependency and, for an application, Register.  *)
(* The node is still that of its process, whatever the monitor and the      *)
(* other threads do meanwhile: no process ends between its load and its     *)
(* run, and none of its dependencies ends by itself.                        *)
THEOREM WritesAreOwn ==
  ASSUME Orderly, DepsStay
  PROVE  Spec => []WritesToItsProcess
<1>1. IInv /\ Orders /\ Care => WritesToItsProcess
  BY CarefulWrites
<1> QED BY CareIsTaken, <1>1, PTL

(* No two processes with the flag of an application run at once, although   *)
(* the check of a launch looks at the slot only, long before it fills it.   *)
THEOREM ApplicationIsAlone ==
  ASSUME Orderly, DepsStay
  PROVE  Spec => []OneApplication
<1>1. IInv /\ Orders /\ Care /\ AppsOK => OneApplication
  <2> SUFFICES ASSUME IInv, Care, AppsOK, NEW n \in ToSet(processList), Has(n, "app"),
                      kern[node[n].handle].st = "running"
               PROVE  n = running
    BY DEF OneApplication
  <2>1. ASSUME NEW t \in Threads, Careful(t), OuterIn(t), n = loc[t].proc
        PROVE  FALSE
    BY <2>1 DEF Care, CareOf, OuterOK
  <2> QED BY <2>1 DEF AppsOK, AppAt, Dead, HasStarted, InHands
<1> QED BY ApplicationsAreKept, <1>1, PTL

(* The slot never points to a node that has become another process: what    *)
(* Register, the run and the monitor write about the application agrees.    *)
THEOREM SlotHoldsApplication ==
  ASSUME Orderly, DepsStay, NotifiedApps
  PROVE  Spec => []SlotIsApplication
<1>1. SlotOK => SlotIsApplication
  BY DEF SlotOK, SlotIsApplication
<1> QED BY ApplicationsAreKept, <1>1, PTL

---------------------------------------------------------------------------
(* One process per title: a title is entered in the list only if it is not  *)
(* there, and nothing enters it between the look and the entry.             *)

(* LaunchAppDebug does not look for a process of the title, only at the     *)
(* slot of the application: a title that is debugged is an application      *)
(* whenever it is launched.                                                 *)
Debugged == {r.title : r \in {q \in Requests : q.op = "LaunchAppDebug"}}
DebugsApps ==
  /\ \A r \in Requests : r.op \in LaunchOps /\ r.title \in Debugged => r.app
  /\ \A x \in Titles : ToSet(Deps[x]) \cap Debugged = {}
  /\ ToSet(Kips) \cap Debugged = {}

Unlisted(x) == x \notin Debugged => \A n \in ToSet(processList) : node[n].title # x
StillUnlisted(x) == x \notin Debugged => \A n \in ToSet(processList') : node'[n].title # x
TitlesDiffer ==
  \A n, m \in ToSet(processList) :
    node[n].title = node[m].title /\ node[n].title \notin Debugged =>
      n = m \/ (Has(n, "kip") /\ Has(m, "kip"))
(* A process of a debugged title is an application, or about to become one. *)
Registering(n) == \E t \in Threads : loc[t].pc = "register" /\ loc[t].at = 0 /\ IsApp(t) /\ n = loc[t].cur
DebuggedAreApps ==
  \A n \in ToSet(processList) : node[n].title \in Debugged => Has(n, "app") \/ Registering(n)

(* The dependencies that are still to be loaded                             *)
Sought(l) ==
  {k \in DOMAIN l.array : /\ l.array[k].proc = NoNode
                          /\ k # l.at \/ l.pc \notin {"register", "run", "markDep"}}
ArrayOK(array) ==
  /\ \A j, k \in DOMAIN array : array[j].title = array[k].title => j = k
  /\ \A k \in DOMAIN array : array[k].title \notin Debugged
FreshOf(l) ==
  /\ l.pc = "check" => Unlisted(l.req.title)
  /\ l.pc \in {"load", "insert"} /\ l.at = 0 =>
       l.array = <<>> /\ Unlisted(l.title) /\ l.title = l.req.title
  /\ l.pc \in {"load", "insert"} /\ l.at # 0 => l.title = l.array[l.at].title
  /\ l.pc \in LaunchPlaces \ {"abandon"} => \A k \in Sought(l) : Unlisted(l.array[k].title)
  /\ l.pc \notin LaunchPlaces => l.array = <<>>
  /\ ArrayOK(l.array)
FreshTasks ==
  /\ parametersSet /\ task.op \in LaunchOps => Unlisted(task.title)
  /\ loc["main"].pc = "runTask" /\ loc["main"].req.op \in LaunchOps => Unlisted(loc["main"].req.title)
Fresh == TitlesDiffer /\ DebuggedAreApps /\ FreshTasks /\ \A t \in Threads : FreshOf(loc[t])

LEMMA NotFound ==
  ASSUME TypeOK, NEW ttl, FindProcessByTitleId(ttl) = NoNode
  PROVE  Unlisted(ttl)
<1> DEFINE ns == {n \in Nodes : node[n].title = ttl}
           ks == {k \in DOMAIN processList : processList[k] \in ns}
           c == CHOOSE k \in ks : \A j \in ks : k <= j
<1> SUFFICES ASSUME NEW n \in ToSet(processList), node[n].title = ttl PROVE FALSE
  BY DEF Unlisted
<1>1. processList \in Seq(Nodes) /\ NoNode \notin Nodes
  BY DEF TypeOK, NoNode, Nodes
<1>2. PICK k \in DOMAIN processList : processList[k] = n
  BY DEF ToSet
<1>3. k \in ks
  BY <1>1, <1>2
<1>4. FirstListed(ns) # NoNode
  <2>1. DOMAIN processList = 1..Len(processList) /\ Len(processList) \in Nat
    BY <1>1
  <2>2. ks \in SUBSET Nat /\ ks # {}
    BY <2>1, <1>3
  <2>3. PICK j \in ks : \A i \in ks : j <= i
    <3> HIDE DEF ks
    <3> QED BY <2>2, LeastElement
  <2>4. c \in ks
    <3> HIDE DEF ks
    <3> QED BY <2>3
  <2>5. FirstListed(ns) = processList[c]
    BY <1>3 DEF FirstListed
  <2> HIDE DEF c
  <2> QED BY <2>4, <2>5, <1>1
<1>5. FindProcessByTitleId(ttl) = FirstListed(ns)
  BY DEF FindProcessByTitleId
<1> QED BY <1>4, <1>5

---------------------------------------------------------------------------
LEMMA OnlyOne ==
  ASSUME Patient, Orders, NEW t \in Threads, Launches(t)
  PROVE  /\ ~parametersSet /\ loc["main"].pc # "runTask"
         /\ \A u \in Threads : u # t => ~Launches(u)
<1>1. ASSUME Launches("runner") PROVE ~RunnerRests
  BY <1>1 DEF RunnerRests, Launches, LaunchPlaces
<1>2. ASSUME Launches("main") PROVE loc["main"].pc \notin {"idle", "runTask"}
  BY <1>2 DEF Launches, LaunchPlaces
<1>3. CASE t = "main"
  BY <1>1, <1>2, <1>3 DEF Orders, Single, Threads
<1>4. CASE t = "runner"
  <2>1. loc["main"].pc = "idle" /\ ~parametersSet
    BY <1>1, <1>4 DEF Orders, Single, HandOverOK, RunnerRests
  <2> QED BY <2>1, <1>2, <1>4 DEF Threads
<1> QED BY <1>3, <1>4 DEF Threads

(* What main takes a launch for                                             *)
LEMMA TakeFresh ==
  ASSUME IInv, TakeCommand, loc'["main"].pc \in {"check", "runTask"}
  PROVE  /\ loc'["main"].pc = "check" => loc'["main"].req.op \in LaunchOps
         /\ loc'["main"].req.op \in LaunchOps => Unlisted(loc'["main"].req.title)
<1>0. TypeOK /\ LocsOK /\ "main" \in Threads
  BY DEF IInv, TypeOK, ControlOK, LocsOK, Threads
<1>1. loc["main"].pc = "idle" /\ loc' # loc
  BY <1>0, TakeLoc
<1>2. ASSUME NEW r, NEW pc, MainGoes(r, pc)
      PROVE  loc'["main"].pc = pc /\ loc'["main"].req = r
  BY <1>0, <1>2, MainGoesFacts
<1>3. CASE TakeTerminateApplication
  <2>1. PICK r \in Of({"TerminateApplication"}) : MainGoes(r, StartPc(r))
    BY <1>1, <1>3 DEF TakeTerminateApplication
  <2>2. StartPc(r) = "clear"
    BY <2>1 DEF Of, StartPc
  <2> QED BY <2>1, <2>2, <1>2
<1>4. CASE TakeTerminate
  <2>1. PICK r \in Of({"TerminateProcess", "TerminateTitle"}) : MainGoes(r, "runTask")
    BY <1>1, <1>4, Zenon DEF TakeTerminate
  <2> QED BY <2>1, <1>2 DEF Of, LaunchOps
<1>5. CASE TakePrepareForReboot
  <2>1. PICK r \in Of({"Reboot"}) : MainGoes(r, "runTask")
    BY <1>1, <1>5 DEF TakePrepareForReboot
  <2> QED BY <2>1, <1>2 DEF Of, LaunchOps
<1>6. CASE TakeUnregisterProcess
  BY <1>1, <1>6 DEF TakeUnregisterProcess
<1>7. CASE TakeLaunchTitle
  <2>1. PICK r \in Of({"LaunchTitle"}) :
          \/ \E n : loc' = [loc EXCEPT !["main"].pc = "found", !["main"].proc = n]
          \/ FindProcessByTitleId(r.title) = NoNode /\ MainGoes(r, IF r.app THEN "runTask" ELSE StartPc(r))
    BY <1>1, <1>7, Zenon DEF TakeLaunchTitle
  <2>2. CASE \E n : loc' = [loc EXCEPT !["main"].pc = "found", !["main"].proc = n]
    <3>1. PICK n : loc' = [loc EXCEPT !["main"].pc = "found", !["main"].proc = n]
      BY <2>2
    <3> DEFINE l == [loc["main"] EXCEPT !.pc = "found", !.proc = n]
    <3>2. loc' = [loc EXCEPT !["main"] = l]
      BY <3>1, <1>0 DEF LocsOK
    <3>3. l.pc = "found"
      BY <1>0 DEF LocsOK, Thread
    <3> HIDE DEF l
    <3> QED BY <1>0, <3>2, <3>3, OneLoc
  <2>3. CASE FindProcessByTitleId(r.title) = NoNode /\ MainGoes(r, IF r.app THEN "runTask" ELSE StartPc(r))
    <3>1. r.op = "LaunchTitle" /\ Unlisted(r.title)
      BY <2>1, <2>3, <1>0, NotFound DEF Of
    <3> QED BY <3>1, <2>3, <1>2 DEF LaunchOps
  <2> QED BY <2>1, <2>2, <2>3
<1>8. CASE TakeLaunchAppDebug
  <2>1. PICK r \in Of({"LaunchAppDebug"}) : MainGoes(r, StartPc(r))
    BY <1>1, <1>8, Zenon DEF TakeLaunchAppDebug
  <2>2. r.op = "LaunchAppDebug" /\ Unlisted(r.title)
    BY <2>1 DEF Of, Unlisted, Debugged
  <2> QED BY <2>1, <2>2, <1>2 DEF LaunchOps
<1> QED BY <1>3, <1>4, <1>5, <1>6, <1>7, <1>8 DEF TakeCommand

(* As long as nothing is entered in the list, what is not on it stays off.  *)
LEMMA ListedSame ==
  ASSUME IInv, [Next]_vars, \A t \in Threads : ~Enters(t), NEW n \in ToSet(processList')
  PROVE  /\ n \in ToSet(processList) /\ node'[n].title = node[n].title
         /\ "kip" \in node'[n].flags <=> "kip" \in node[n].flags
<1>0. TypeOK /\ ControlOK /\ ListSound
  BY DEF IInv
<1>1. n \in ToSet(processList)
  BY ListedBefore
<1>2. n \in Nodes
  BY <1>0, <1>1, ListedHandles
<1>3. node'[n].title = node[n].title
  BY <1>0, <1>2, NodesStep DEF Kept, SameProcess
<1>4. CASE Tagged(node[n], node'[n])
  BY <1>1, <1>3, <1>4 DEF Tagged, SameTags
<1>5. CASE \E t \in Threads : Register(t)
  <2>1. PICK t \in Threads : node' = [node EXCEPT ![loc[t].cur].flags = @ \cup {"app"}] \/ node' = node
    BY <1>5 DEF Register
  <2>2. CASE node' = [node EXCEPT ![loc[t].cur].flags = @ \cup {"app"}]
    <3> DEFINE f == node[loc[t].cur].flags \cup {"app"}
    <3>1. node' = [node EXCEPT ![loc[t].cur].flags = f]
      BY <2>2
    <3> HIDE DEF f
    <3>2. node'[n].flags = IF n = loc[t].cur THEN f ELSE node[n].flags
      BY <3>1, <1>0, <1>2, FlagsWritten DEF TypeOK
    <3> QED BY <3>2, <1>1, <1>3 DEF f
  <2> QED BY <2>1, <2>2, <1>1
<1> QED BY <1>2, <1>4, <1>5, NodesTagged

LEMMA UnlistedStays ==
  ASSUME IInv, [Next]_vars, \A t \in Threads : ~Enters(t)
  PROVE  /\ TitlesDiffer => TitlesDiffer'
         /\ \A x : Unlisted(x) => StillUnlisted(x)
BY ListedSame DEF TitlesDiffer, Unlisted, StillUnlisted, Has

---------------------------------------------------------------------------
(* What a launch knows of the list stays true while it goes on.             *)

LEMMA RestFresh ==
  ASSUME NEW l, l.pc \notin LaunchPlaces \cup {"check"}, l.array = <<>>
  PROVE  FreshOf(l)
BY DEF FreshOf, ArrayOK, LaunchPlaces

(* l is what a thread had before a step, and d what it has after it, before *)
(* it goes on to the next dependency.                                       *)
LEMMA FreshOnward ==
  ASSUME NEW d \in Thread, ArrayOK(d.array),
         \A k \in DOMAIN d.array : d.array[k].proc = NoNode => Unlisted(d.array[k].title)
  PROVE  FreshOf(Onward(d))
<1> DEFINE m == Onward(d)
<1>1. /\ m.array = d.array
      /\ \/ m.pc = "run" /\ m.at = 0
         \/ m.pc = "load" /\ m.at # 0 /\ m.title = d.array[m.at].title
  BY OnwardFacts DEF SameTask
<1>2. \A k \in Sought(m) : k \in DOMAIN d.array /\ d.array[k].proc = NoNode
  BY <1>1 DEF Sought
<1>3. m.pc \in LaunchPlaces /\ m.pc # "check"
  BY <1>1 DEF LaunchPlaces
<1> QED BY <1>1, <1>2, <1>3 DEF FreshOf

LEMMA MergedFresh ==
  ASSUME DebugsApps, TypeOK, NEW t \in Threads, loc[t].title \in Titles, FreshOf(loc[t]),
         loc[t].pc \in {"merge", "mergeDep"}
  PROVE  LET a == Merged(t)
         IN  ArrayOK(a) /\ \A k \in DOMAIN a : a[k].proc = NoNode => Unlisted(a[k].title)
<1> DEFINE a == loc[t].array
           new == NewTitles(a, loc[t].title)
           m == Merged(t)
<1>1. /\ Len(a) \in Nat /\ DOMAIN a = 1..Len(a) /\ Len(new) \in Nat /\ DOMAIN new = 1..Len(new)
      /\ DOMAIN m = 1..Len(a) + Len(new)
      /\ \A k \in 1..Len(a) : m[k].title = a[k].title /\ m[k].proc = a[k].proc
      /\ \A k \in DOMAIN m : k > Len(a) =>
           /\ k - Len(a) \in DOMAIN new /\ m[k].title = new[k - Len(a)]
           /\ m[k].proc = FindProcessByTitleId(m[k].title)
      /\ \A i \in DOMAIN new : Wants(loc[t].title, new[i]) /\ \A k \in DOMAIN a : a[k].title # new[i]
      /\ \A i, j \in DOMAIN new : new[i] = new[j] => i = j
  BY MergedShape
<1>2. /\ ArrayOK(a) /\ \A k \in DOMAIN a : a[k].proc = NoNode => Unlisted(a[k].title)
  BY DEF FreshOf, Sought, LaunchPlaces
<1> HIDE DEF a, new, m
<1>3. ASSUME NEW k \in DOMAIN m
      PROVE  (k \in DOMAIN a /\ k <= Len(a)) \/ (k > Len(a) /\ k - Len(a) \in DOMAIN new)
  BY <1>1, <1>3
<1>4. ASSUME NEW j \in DOMAIN m, NEW k \in DOMAIN m, m[j].title = m[k].title PROVE j = k
  <2>1. j \in Nat /\ k \in Nat
    BY <1>1
  <2>2. CASE j <= Len(a) /\ k <= Len(a)
    BY <2>2, <1>1, <1>2, <1>3, <1>4 DEF ArrayOK
  <2>3. CASE j > Len(a) /\ k > Len(a)
    <3>1. j - Len(a) = k - Len(a)
      BY <2>3, <1>1, <1>4
    <3> QED BY <3>1, <2>1, <1>1
  <2>4. CASE j <= Len(a) /\ k > Len(a)
    BY <2>4, <1>1, <1>3, <1>4
  <2>5. CASE j > Len(a) /\ k <= Len(a)
    BY <2>5, <1>1, <1>3, <1>4
  <2> QED BY <2>1, <2>2, <2>3, <2>4, <2>5, <1>1
<1>5. ASSUME NEW k \in DOMAIN m, m[k].proc = NoNode PROVE Unlisted(m[k].title)
  <2>1. CASE k <= Len(a)
    BY <2>1, <1>1, <1>2, <1>3, <1>5
  <2>2. CASE k > Len(a)
    BY <2>2, <1>1, <1>5, NotFound
  <2> QED BY <2>1, <2>2, <1>1
<1>6. ASSUME NEW k \in DOMAIN m PROVE m[k].title \notin Debugged
  <2>1. CASE k <= Len(a)
    BY <2>1, <1>1, <1>2, <1>3 DEF ArrayOK
  <2>2. CASE k > Len(a)
    BY <2>2, <1>1 DEF DebugsApps, Wants
  <2> QED BY <2>1, <2>2, <1>1
<1>7. ArrayOK(m)
  BY <1>4, <1>6 DEF ArrayOK
<1> QED BY <1>5, <1>7 DEF m

LEMMA FreshLaunch ==
  ASSUME DebugsApps, IInv, NEW t \in Threads, Launch(t), ~Enters(t), FreshOf(loc[t])
  PROVE  FreshOf(loc'[t])
<1> DEFINE l == loc[t]
           m == loc'[t]
<1>0. LocsOK /\ TypeOK /\ l \in Thread /\ PlaceOK(l)
  BY DEF IInv, TypeOK, ControlOK, LocsOK, Threads
<1>1. CASE m = l
  BY <1>1
<1>2. CASE m = Returned(t)
  BY <1>2, ReturnedFacts, RoleFacts, RestFresh
<1>3. ASSUME m.array = l.array, l.pc \in LaunchPlaces, m.pc \in LaunchPlaces,
             m.pc \in {"load", "insert"} => l.pc \in {"load", "insert"} /\ m.at = l.at /\ m.title = l.title /\ m.req = l.req,
             m.pc # "abandon" => l.pc # "abandon" /\ \A k \in Sought(m) : k \in Sought(l)
      PROVE  FreshOf(m)
  <2>1. m.pc # "check"
    BY <1>3 DEF LaunchPlaces
  <2> HIDE DEF l, m
  <2> QED BY <1>3, <2>1 DEF FreshOf, l
<1>4. CASE Panic
  BY <1>1, <1>4 DEF Panic
<1>5. CASE CheckLaunch(t)
  <2>1. CASE m.pc = "load" /\ m.array = l.array /\ m.at = 0 /\ m.title = l.req.title /\ l.pc = "check" /\ m.req = l.req
    <3>1. l.array = <<>> /\ Unlisted(m.title)
      BY <2>1 DEF FreshOf, LaunchPlaces
    <3>2. Sought(m) = {} /\ ArrayOK(m.array)
      BY <2>1, <3>1 DEF Sought, ArrayOK
    <3> QED BY <2>1, <3>1, <3>2 DEF FreshOf, LaunchPlaces
  <2> QED BY <2>1, <1>0, <1>2, <1>5, CheckLoc DEF SameTask
<1>6. CASE Load(t)
  <2>1. l.pc = "load" /\ m.pc = "insert" /\ m.array = l.array /\ m.at = l.at /\ m.title = l.title /\ m.req = l.req
    BY <1>0, <1>6, LoadLoc DEF SameTask
  <2> QED BY <2>1, <1>3 DEF Sought, LaunchPlaces
<1>7. CASE LoadFails(t)
  <2>1. CASE m = Onward(l)
    <3>1. l.pc = "load"
      BY <1>0, <1>7, LoadFailsLoc
    <3>2. ArrayOK(l.array) /\ \A k \in DOMAIN l.array : l.array[k].proc = NoNode => Unlisted(l.array[k].title)
      BY <3>1 DEF FreshOf, Sought, LaunchPlaces
    <3> QED BY <2>1, <3>2, <1>0, FreshOnward
  <2>2. CASE l.pc = "load" /\ m.pc = "abandon" /\ m.array = l.array
    BY <2>2, <1>3 DEF LaunchPlaces
  <2> QED BY <2>1, <2>2, <1>0, <1>2, <1>7, LoadFailsLoc DEF SameTask
<1>8. CASE Insert(t)
  BY <1>4, <1>8 DEF Insert, Enters
<1>9. CASE Register(t)
  <2>1. /\ l.pc = "register" /\ m.pc = IF l.at = 0 /\ WithDeps(t) THEN "merge" ELSE "run"
        /\ m.array = l.array /\ m.at = l.at
    BY <1>0, <1>9, RegisterLoc DEF SameTask
  <2>2. l.at \notin DOMAIN l.array \/ l.at # 0
    BY <1>0 DEF Thread
  <2>3. \A k \in Sought(m) : k \in Sought(l)
    BY <2>1, <2>2 DEF Sought
  <2> QED BY <2>1, <2>3, <1>3 DEF LaunchPlaces
<1>10. CASE MergeOwn(t) /\ ~Panic
  <2>1. l.pc = "merge" /\ m.pc = "mark" /\ m.array = Merged(t)
    BY <1>0, <1>10, MergeOwnLoc
  <2>2. l.title \in Titles
    BY <2>1, <1>0 DEF PlaceOK, LaunchPlaces
  <2>3. ArrayOK(m.array) /\ \A k \in DOMAIN m.array : m.array[k].proc = NoNode => Unlisted(m.array[k].title)
    BY <2>1, <2>2, <1>0, MergedFresh
  <2>4. \A k \in Sought(m) : Unlisted(m.array[k].title)
    BY <2>3 DEF Sought
  <2> QED BY <2>1, <2>3, <2>4 DEF FreshOf, LaunchPlaces
<1>11. CASE MergeDependency(t) /\ ~Panic
  <2> DEFINE a == Merged(t)
  <2>1. l.pc = "mergeDep" /\ m = Onward([l EXCEPT !.array = a])
    BY <1>0, <1>11, MergeDepLoc
  <2>2. l.title \in Titles
    BY <2>1, <1>0 DEF PlaceOK, LaunchPlaces
  <2>3. ArrayOK(a) /\ \A k \in DOMAIN a : a[k].proc = NoNode => Unlisted(a[k].title)
    BY <2>1, <2>2, <1>0, MergedFresh
  <2>4. a \in Seq(Dependency)
    BY <2>2, <1>0, MergedTyped
  <2> HIDE DEF a
  <2>5. [l EXCEPT !.array = a] \in Thread /\ [l EXCEPT !.array = a].array = a
    BY <2>4, <1>0 DEF Thread
  <2> QED BY <2>1, <2>3, <2>5, FreshOnward
<1>12. CASE Mark(t)
  <2>1. l.pc = "mark" /\ m = Onward(l)
    BY <1>0, <1>12, MarkLoc
  <2>2. ArrayOK(l.array) /\ \A k \in DOMAIN l.array : l.array[k].proc = NoNode => Unlisted(l.array[k].title)
    BY <2>1 DEF FreshOf, Sought, LaunchPlaces
  <2> QED BY <2>1, <2>2, <1>0, FreshOnward
<1>13. CASE RunSucceeds(t) \/ RunFails(t)
  <2>1. CASE l.at # 0
    <3>1. /\ l.pc = "run" /\ m.pc \in {"markDep", "abandon"} /\ m.array = l.array /\ m.at = l.at
      BY <2>1, <1>0, <1>13, RunLoc DEF SameTask
    <3> QED BY <3>1, <1>3 DEF Sought, LaunchPlaces
  <2> QED BY <2>1, <1>0, <1>2, <1>13, RunLoc
<1>14. CASE Abandon(t)
  BY <1>0, <1>2, <1>14, AbandonLoc
<1>15. CASE MarkDependency(t) /\ ~Panic
  <2> DEFINE a == l.array
             b == m.array
  <2>1. l.pc = "markDep" /\ m.pc = "mergeDep"
    BY <1>0, <1>15, MarkDepLoc
  <2>2. /\ DOMAIN b = DOMAIN a /\ \A k \in DOMAIN a : b[k].title = a[k].title
        /\ \A k \in DOMAIN a : b[k].proc = IF k = l.at THEN l.cur ELSE a[k].proc
    BY <1>0, <1>15, MarkedArray
  <2>3. l.cur # NoNode
    BY <2>1, <1>0 DEF PlaceOK, NoNode, Nodes
  <2>4. ArrayOK(a) /\ \A k \in Sought(l) : Unlisted(a[k].title)
    BY <2>1 DEF FreshOf, LaunchPlaces
  <2>5. ASSUME NEW k \in Sought(m) PROVE k \in Sought(l) /\ k \in DOMAIN a
    BY <2>2, <2>3 DEF Sought
  <2>6. \A k \in Sought(m) : Unlisted(b[k].title)
    BY <2>2, <2>4, <2>5
  <2>7. ArrayOK(b)
    BY <2>2, <2>4 DEF ArrayOK
  <2> QED BY <2>1, <2>6, <2>7 DEF FreshOf, LaunchPlaces
<1> QED BY <1>4, <1>5, <1>6, <1>7, <1>8, <1>9, <1>10, <1>11, <1>12, <1>13, <1>14, <1>15 DEF Launch

---------------------------------------------------------------------------
(* A title is entered while it is not in the list, and is no longer sought. *)
LEMMA FreshEntered ==
  ASSUME DebugsApps, IInv, Orders, Fresh, NEW t \in Threads, Enters(t)
  PROVE  TitlesDiffer' /\ FreshOf(loc[t])' /\ DebuggedAreApps'
<1> DEFINE l == loc[t]
           m == loc'[t]
           h == Head(freeList)
<1>0. LocsOK /\ TypeOK /\ ListSound /\ l \in Thread /\ PlaceOK(l) /\ FreshOf(l) /\ TitlesDiffer
  BY DEF IInv, TypeOK, ControlOK, LocsOK, Threads, Fresh
<1>1. /\ l.pc = "insert" /\ m.pc = "register" /\ m.array = l.array /\ m.at = l.at
  BY <1>0, InsertLoc
<1>2. h \in Nodes \ ToSet(processList) /\ ToSet(processList') = ToSet(processList) \cup {h}
  BY <1>0, EnteredLists
<1>3. l.pid \in Pids /\ l.title \in Titles
  BY <1>0, <1>1 DEF PlaceOK, LaunchPlaces
<1>4. node' = [node EXCEPT ![h] = Process(l.pid, l.title, {})]
  BY DEF Enters, Insert, ProcessList_New
<1>5. Process(l.pid, l.title, {}).title = l.title
  BY <1>3, ProcessTyped
<1> DEFINE p == Process(l.pid, l.title, {})
<1> HIDE DEF p, h
<1>6. /\ node'[h].title = l.title
      /\ \A n \in ToSet(processList) : n \in Nodes /\ node'[n] = node[n]
  <2>1. \A n \in ToSet(processList) : n \in Nodes
    BY <1>0, ListedHandles
  <2>2. node \in [Nodes -> ProcessData]
    BY <1>0 DEF TypeOK
  <2> QED BY <1>2, <1>4, <1>5, <2>1, <2>2 DEF p, h
<1>7. Unlisted(l.title)
  <2>1. CASE l.at = 0
    BY <2>1, <1>0, <1>1 DEF FreshOf
  <2>2. CASE l.at # 0
    <3>1. l.at \in DOMAIN l.array /\ l.array[l.at].proc = NoNode
      BY <2>2, <1>0, <1>1 DEF PlaceOK, LoadPlaces
    <3>2. l.at \in Sought(l)
      BY <3>1, <1>1 DEF Sought
    <3> QED BY <3>2, <2>2, <1>0, <1>1 DEF FreshOf, LaunchPlaces
  <2> QED BY <2>1, <2>2
<1>8. TitlesDiffer'
  <2> SUFFICES ASSUME NEW n \in ToSet(processList'), NEW k \in ToSet(processList'),
                      node'[n].title = node'[k].title, n # k, node'[n].title \notin Debugged
               PROVE  Has(n, "kip")' /\ Has(k, "kip")'
    BY DEF TitlesDiffer
  <2>1. n # h /\ k # h
    BY <1>2, <1>6, <1>7 DEF Unlisted
  <2>2. n \in ToSet(processList) /\ k \in ToSet(processList) /\ node'[n] = node[n] /\ node'[k] = node[k]
    BY <2>1, <1>2, <1>6
  <2> QED BY <2>2, <1>0 DEF TitlesDiffer, Has
<1>9. ASSUME NEW k \in Sought(m) PROVE StillUnlisted(m.array[k].title)
  <2>1. k \in DOMAIN l.array /\ l.array[k].proc = NoNode /\ k # l.at
    BY <1>1 DEF Sought
  <2>2. k \in Sought(l)
    BY <2>1, <1>1 DEF Sought
  <2>3. Unlisted(l.array[k].title)
    BY <2>2, <1>0, <1>1 DEF FreshOf, LaunchPlaces
  <2>4. l.array[k].title # l.title
    <3>1. CASE l.at = 0
      BY <3>1, <2>1, <1>0, <1>1 DEF FreshOf
    <3>2. CASE l.at # 0
      <4>1. l.at \in DOMAIN l.array /\ l.title = l.array[l.at].title
        BY <3>2, <1>0, <1>1 DEF PlaceOK, LoadPlaces, FreshOf
      <4> QED BY <4>1, <2>1, <1>0 DEF FreshOf, ArrayOK
    <3> QED BY <3>1, <3>2
  <2> QED BY <2>3, <2>4, <1>1, <1>2, <1>6 DEF Unlisted, StillUnlisted
<1>10. ArrayOK(m.array)
  BY <1>0, <1>1 DEF FreshOf
<1>11. FreshOf(loc[t])'
  BY <1>1, <1>9, <1>10 DEF FreshOf, Unlisted, StillUnlisted, Sought, ArrayOK, LaunchPlaces
<1>12. ASSUME NEW n \in ToSet(processList'), node'[n].title \in Debugged
       PROVE  "app" \in node'[n].flags \/ Registering(n)'
  <2>1. CASE n = h
    <3>1. l.at = 0
      BY <2>1, <1>0, <1>1, <1>6, <1>12 DEF FreshOf, ArrayOK, PlaceOK, LoadPlaces
    <3>2. l.req \in Requests /\ l.req.op \in LaunchOps /\ l.title = l.req.title
      BY <3>1, <1>0, <1>1 DEF FreshOf, Orders, ReqOK, Launches, LaunchPlaces
    <3>3. l.req.app /\ m.req = l.req /\ m.cur = h
      BY <2>1, <3>2, <1>0, <1>6, <1>12, InsertLoc DEF DebugsApps, h
    <3> QED BY <2>1, <3>1, <3>3, <1>1 DEF Registering, IsApp
  <2>2. CASE n # h
    <3>1. n \in ToSet(processList) /\ node'[n] = node[n]
      BY <2>2, <1>2, <1>6
    <3>2. Has(n, "app") \/ Registering(n)
      BY <3>1, <1>12 DEF Fresh, DebuggedAreApps
    <3>3. ASSUME Registering(n) PROVE Registering(n)'
      <4>1. PICK u \in Threads : loc[u].pc = "register" /\ loc[u].at = 0 /\ IsApp(u) /\ n = loc[u].cur
        BY <3>3 DEF Registering
      <4>2. loc'[u] = loc[u]
        BY <4>1, <1>0, <1>1, InsertLoc DEF Others
      <4> QED BY <4>1, <4>2 DEF Registering, IsApp
    <3> QED BY <3>1, <3>2, <3>3 DEF Has
  <2> QED BY <2>1, <2>2
<1>13. DebuggedAreApps'
  BY <1>12 DEF DebuggedAreApps, Has
<1> QED BY <1>8, <1>11, <1>13

(* The task in the slot, and the one main is about to hand over             *)
LEMMA TasksFresh ==
  ASSUME IInv, FreshTasks, [Next]_vars, \A t \in Threads : ~Enters(t)
  PROVE  FreshTasks'
<1> DEFINE l == loc["main"]
           m == loc'["main"]
<1>0. LocsOK /\ "main" \in Threads /\ "runner" \in Threads
  BY DEF IInv, TypeOK, ControlOK, LocsOK, Threads
<1>1. \A x : Unlisted(x) => StillUnlisted(x)
  BY UnlistedStays
<1>2. ASSUME parametersSet', task'.op \in LaunchOps PROVE StillUnlisted(task'.title)
  <2>1. CASE RunTask
    BY <2>1, <1>1, <1>2 DEF RunTask, At, FreshTasks
  <2>2. CASE ~RunTask
    <3>1. parametersSet /\ task' = task
      <4>1. CASE TakeCommand
        BY <4>1, <1>0, <1>2, TakeLoc DEF taskVars
      <4>2. CASE RunnerReady \/ RunnerTakesTask \/ UNCHANGED vars
        BY <4>2, <1>2 DEF RunnerReady, RunnerTakesTask, vars, taskVars
      <4> QED BY <4>1, <4>2, <2>2, <1>2, <1>0, TasksRest DEF Next, Main, Runner
    <3> QED BY <3>1, <1>1, <1>2 DEF FreshTasks
  <2> QED BY <2>1, <2>2
<1>3. ASSUME m.pc = "runTask", m.req.op \in LaunchOps PROVE StillUnlisted(m.req.title)
  <2>1. CASE m = l
    BY <2>1, <1>1, <1>3 DEF FreshTasks
  <2>2. CASE TakeCommand
    BY <2>2, <1>1, <1>3, TakeFresh
  <2>3. CASE m # l /\ ~TakeCommand
    <3>1. ASSUME NEW u \in Threads, u # "main", Others(u) PROVE FALSE
      BY <3>1, <2>3, <1>0 DEF Others
    <3>2. m.pc # "runTask"
      <4>1. Returned("main").pc = "idle" /\ "runTask" \notin LaunchPlaces \cup Ending
        BY ReturnedFacts, RoleFacts
      <4>2. CASE Terminate("main")
        BY <4>1, <4>2, <2>3, <1>0, EndLoc
      <4>3. CASE Launch("main")
        BY <4>1, <4>3, <2>3, <1>0, LaunchLoc
      <4>4. CASE RunTask \/ FoundRunning
        BY <4>1, <4>4, <1>0, ReturnsFacts DEF RunTask, FoundRunning, RoleFacts, Home
      <4>5. CASE Monitor
        BY <4>5, <2>3, <1>0, MonitorLoc
      <4>6. CASE Terminate("runner") \/ Launch("runner")
        BY <4>6, <3>1, <1>0, EndLoc, LaunchLoc
      <4>7. CASE RunnerReady \/ RunnerTakesTask
        <5>1. loc'["main"] = loc["main"]
          BY <4>7, <1>0 DEF RunnerReady, RunnerTakesTask, Goes, LocsOK
        <5> QED BY <5>1, <2>3
      <4>8. CASE (\E p \in Pids : Exit(p)) \/ UNCHANGED vars
        BY <4>8, <2>3 DEF Exit, vars
      <4> QED BY <4>2, <4>3, <4>4, <4>5, <4>6, <4>7, <4>8, <2>3 DEF Next, Main, Runner
    <3> QED BY <3>2, <1>3
  <2> QED BY <2>1, <2>2, <2>3
<1> QED BY <1>2, <1>3 DEF FreshTasks, Unlisted, StillUnlisted

(* The check before a launch: of main's own, and of the task the runner     *)
(* takes                                                                    *)
LEMMA CheckFresh ==
  ASSUME IInv, Orders, FreshTasks, [Next]_vars, NEW t \in Threads,
         \A u \in Threads : ~Enters(u), ~Launch(t), ~Launches(t), Launches(t)', loc[t].array = <<>>
  PROVE  FreshOf(loc[t])'
<1>0. LocsOK /\ "main" \in Threads /\ "runner" \in Threads
  BY DEF IInv, TypeOK, ControlOK, LocsOK, Threads
<1>1. loc'[t].pc = "check" /\ loc'[t].array = <<>>
  <2>1. loc'[t].array = <<>> /\ (Starting(t)' => loc'[t] = loc[t])
    BY LocRest
  <2> QED BY <2>1 DEF Launches, Starting
<1>2. \A x : Unlisted(x) => StillUnlisted(x)
  BY UnlistedStays
<1>3. Unlisted(loc'[t].req.title)
  <2>1. CASE t = "main" /\ TakeCommand
    BY <2>1, <1>1, TakeFresh
  <2>2. CASE t = "runner" /\ RunnerTakesTask
    <3> DEFINE l == [loc["runner"] EXCEPT !.pc = StartPc(task), !.req = task]
    <3>1. loc' = [loc EXCEPT !["runner"] = l] /\ parametersSet
      BY <2>2, <1>0 DEF RunnerTakesTask, LocsOK
    <3>2. l.pc = StartPc(task) /\ l.req = task
      BY <1>0 DEF LocsOK, Thread
    <3> HIDE DEF l
    <3>3. loc'[t].pc = StartPc(task) /\ loc'[t].req = task
      BY <2>2, <3>1, <3>2, <1>0, OneLoc
    <3>4. task \in Requests /\ task.op # "UnregisterProcess"
      BY <3>1 DEF IInv, ControlOK, Orders, HandedOK
    <3>5. task.op \in LaunchOps
      <4>1. task.op \notin {"Reboot", "TerminateApplication", "TerminateProcess", "TerminateTitle"}
        <5>1. StartPc(task) = "check"
          BY <3>3, <1>1
        <5>2. ASSUME task.op \in {"Reboot", "TerminateApplication"} PROVE FALSE
          BY <5>1, <5>2 DEF StartPc
        <5>3. ASSUME task.op \in {"TerminateProcess", "TerminateTitle"} PROVE FALSE
          <6>1. CASE task.wait
            BY <5>1, <5>3, <6>1 DEF StartPc
          <6>2. CASE ~task.wait
            BY <5>1, <5>3, <6>2 DEF StartPc
          <6> QED BY <6>1, <6>2
        <5> QED BY <5>2, <5>3
      <4> QED BY <3>4, <4>1, RequestsAssumption DEF Request, LaunchOps
    <3> QED BY <3>1, <3>3, <3>5 DEF FreshTasks
  <2> QED BY <2>1, <2>2, LocRest
<1>4. StillUnlisted(loc'[t].req.title)
  BY <1>2, <1>3
<1> QED BY <1>1, <1>4 DEF FreshOf, Unlisted, StillUnlisted, Sought, ArrayOK, LaunchPlaces

LEMMA DebuggedStep ==
  ASSUME IInv, DebuggedAreApps, [Next]_vars, \A u \in Threads : ~Enters(u)
  PROVE  DebuggedAreApps'
<1>0. LocsOK /\ TypeOK /\ ListSound
  BY DEF IInv, TypeOK, ControlOK, LocsOK, Threads
<1> SUFFICES ASSUME NEW n \in ToSet(processList'), node'[n].title \in Debugged
             PROVE  "app" \in node'[n].flags \/ Registering(n)'
  BY DEF DebuggedAreApps, Has
<1>1. n \in ToSet(processList) /\ node[n].title \in Debugged
  BY ListedSame
<1>2. n \in Nodes
  BY <1>0, <1>1, ListedHandles
<1>3. ASSUME NEW u \in Threads, Register(u), loc[u].at = 0, IsApp(u), n = loc[u].cur
      PROVE  "app" \in node'[n].flags
  <2> DEFINE f == node[loc[u].cur].flags \cup {"app"}
  <2>1. node' = [node EXCEPT ![loc[u].cur].flags = f]
    BY <1>3 DEF Register, Outer
  <2> HIDE DEF f
  <2>2. node'[n].flags = f
    BY <2>1, <1>0, <1>2, <1>3, FlagsWritten DEF TypeOK
  <2> QED BY <2>2 DEF f
<1>4. CASE Tagged(node[n], node'[n]) /\ Has(n, "app")
  BY <1>4 DEF Tagged, SameTags, Has
<1>5. CASE Registering(n)
  <2>1. PICK u \in Threads : loc[u].pc = "register" /\ loc[u].at = 0 /\ IsApp(u) /\ n = loc[u].cur
    BY <1>5 DEF Registering
  <2>2. CASE ~Launch(u)
    <3>1. loc'[u] = loc[u]
      BY <2>1, <2>2, LocRest DEF Starting, LaunchPlaces
    <3> QED BY <2>1, <3>1 DEF Registering, IsApp
  <2>3. CASE Launch(u)
    <3>1. Register(u)
      BY <2>1, <2>3 DEF Launch, At, CheckLaunch, Load, LoadFails, Insert, MergeOwn, Mark, RunSucceeds,
                        RunFails, Abandon, MarkDependency, MergeDependency
    <3> QED BY <3>1, <2>1, <1>3
  <2> QED BY <2>2, <2>3
<1>6. CASE ~Tagged(node[n], node'[n])
  <2>1. \E t \in Threads : Register(t) /\ loc[t].at = 0 /\ IsApp(t) /\ n = loc[t].cur
    BY <1>2, <1>6, NodesTagged
  <2> QED BY <2>1, <1>3
<1> QED BY <1>1, <1>4, <1>5, <1>6 DEF DebuggedAreApps

LEMMA FreshCarried ==
  ASSUME IInv, [Next]_vars, \A u \in Threads : ~Enters(u), NEW t \in Threads, FreshOf(loc'[t])
  PROVE  FreshOf(loc[t])'
<1>1. \A x : Unlisted(x) => StillUnlisted(x)
  BY UnlistedStays
<1>2. /\ loc'[t].pc = "check" => StillUnlisted(loc'[t].req.title)
      /\ loc'[t].pc \in {"load", "insert"} /\ loc'[t].at = 0 =>
           /\ loc'[t].array = <<>>
           /\ StillUnlisted(loc'[t].title)
           /\ loc'[t].title = loc'[t].req.title
      /\ loc'[t].pc \in {"load", "insert"} /\ loc'[t].at # 0 =>
           loc'[t].title = loc'[t].array[loc'[t].at].title
  BY <1>1 DEF FreshOf
<1>3. /\ loc'[t].pc \in LaunchPlaces \ {"abandon"} =>
           \A k \in Sought(loc'[t]) : StillUnlisted(loc'[t].array[k].title)
      /\ loc'[t].pc \notin LaunchPlaces => loc'[t].array = <<>>
      /\ ArrayOK(loc'[t].array)
  BY <1>1 DEF FreshOf
<1>4. /\ loc'[t].pc \in LaunchPlaces \ {"abandon"} =>
           \A k \in Sought(loc[t])' : StillUnlisted(loc'[t].array[k].title)
      /\ ArrayOK(loc[t].array)'
  BY <1>3 DEF Sought, ArrayOK
<1> QED BY <1>2, <1>3, <1>4 DEF FreshOf, Unlisted, StillUnlisted

LEMMA FreshStep ==
  ASSUME Patient, DebugsApps, IInv, Orders, Fresh, [Next]_vars
  PROVE  Fresh'
<1>0. LocsOK /\ "main" \in Threads
  BY DEF IInv, TypeOK, ControlOK, LocsOK, Threads
<1>1. CASE \E t \in Threads : Enters(t)
  <2>1. PICK t \in Threads : Enters(t)
    BY <1>1
  <2>2. Launches(t) /\ Launch(t) /\ Others(t) /\ loc'[t].pc = "register"
    BY <1>0, <2>1, InsertLoc DEF Launches, LaunchPlaces, Enters, Launch
  <2>3. ~parametersSet /\ loc["main"].pc # "runTask" /\ \A u \in Threads : u # t => ~Launches(u)
    BY <2>2, OnlyOne
  <2>4. TitlesDiffer' /\ FreshOf(loc[t])' /\ DebuggedAreApps'
    BY <2>1, FreshEntered
  <2>5. FreshTasks'
    <3>1. ~parametersSet'
      BY <2>2, <2>3, TasksRest
    <3>2. loc'["main"].pc # "runTask"
      BY <1>0, <2>2, <2>3 DEF Others
    <3> QED BY <3>1, <3>2 DEF FreshTasks
  <2>6. ASSUME NEW u \in Threads, u # t PROVE FreshOf(loc[u])'
    <3>1. loc'[u] = loc[u] /\ ~Launches(u) /\ FreshOf(loc[u])
      BY <2>2, <2>3, <2>6 DEF Others, Fresh
    <3>2. loc'[u].pc \notin LaunchPlaces \cup {"check"} /\ loc'[u].array = <<>>
      BY <3>1 DEF Launches, FreshOf
    <3> QED BY <3>2 DEF FreshOf, ArrayOK, LaunchPlaces
  <2> QED BY <2>4, <2>5, <2>6 DEF Fresh
<1>2. CASE \A t \in Threads : ~Enters(t)
  <2>1. TitlesDiffer' /\ FreshTasks' /\ DebuggedAreApps'
    BY <1>2, UnlistedStays, TasksFresh, DebuggedStep DEF Fresh
  <2>2. ASSUME NEW t \in Threads PROVE FreshOf(loc[t])'
    <3>0. FreshOf(loc[t])
      BY DEF Fresh
    <3>1. CASE Launch(t)
      BY <1>2, <3>0, <3>1, FreshLaunch, FreshCarried
    <3>2. CASE ~Launch(t) /\ Launches(t)
      BY <1>2, <3>0, <3>2, LocRest, FreshCarried
    <3>3. CASE ~Launch(t) /\ ~Launches(t)
      <4>1. loc[t].array = <<>>
        BY <3>0, <3>3 DEF FreshOf, Launches
      <4>2. CASE Launches(t)'
        BY <1>2, <3>3, <4>1, <4>2, CheckFresh DEF Fresh
      <4>3. CASE ~Launches(t)'
        <5>1. loc'[t].array = <<>>
          BY <3>3, <4>1, LocRest
        <5>2. FreshOf(loc'[t])
          BY <4>3, <5>1, RestFresh DEF Launches
        <5> QED BY <1>2, <5>2, FreshCarried
      <4> QED BY <4>2, <4>3
    <3> QED BY <3>1, <3>2, <3>3
  <2> QED BY <2>1, <2>2 DEF Fresh
<1> QED BY <1>1, <1>2

LEMMA FreshInit ==
  ASSUME DebugsApps, Init
  PROVE  Fresh
<1>1. /\ ~parametersSet
      /\ \A t \in Threads : /\ loc[t].pc \in {"idle", "top"} /\ loc[t].array = <<>>
  BY ReturnedFacts DEF Init, Threads, Home
<1>2. \A t \in Threads : FreshOf(loc[t])
  BY <1>1, RoleFacts, RestFresh
<1>3. FreshTasks
  BY <1>1 DEF FreshTasks, Threads
<1>4. ASSUME NEW n \in ToSet(processList) PROVE Has(n, "kip") /\ node[n].title \notin Debugged
  <2>1. processList = [k \in KipPids |-> k] /\ KipPids = DOMAIN Kips
    BY DEF Init, KipPids
  <2>2. n \in KipPids /\ n \in Nodes
    BY <2>1, PmAssumption DEF ToSet, Nodes
  <2>3. node[n] = Process(n, Kips[n], {"kip"})
    BY <2>2 DEF Init
  <2>4. n \in Pids /\ Kips[n] \in Titles /\ Kips[n] \in ToSet(Kips)
    BY <2>1, <2>2, PmAssumption DEF Pids, ToSet
  <2>5. Process(n, Kips[n], {"kip"}).flags = {"kip"} /\ Process(n, Kips[n], {"kip"}).title = Kips[n]
    BY DEF Process, BlankProcess
  <2> QED BY <2>3, <2>4, <2>5 DEF Has, DebugsApps
<1> QED BY <1>2, <1>3, <1>4 DEF Fresh, TitlesDiffer, DebuggedAreApps

(* A debugged title has one live process, because there is one application. *)
LEMMA TitlesOnce ==
  ASSUME Patient, IInv, Orders, Care, AppsOK, Fresh
  PROVE  OneProcessPerTitle
<1> SUFFICES ASSUME NEW n \in ToSet(processList), NEW m \in ToSet(processList),
                    node[n].title = node[m].title, node[n].title \in Debugged,
                    ~Dead(node[n].handle), ~Dead(node[m].handle)
             PROVE  n = m
  BY DEF Fresh, TitlesDiffer, OneProcessPerTitle
<1>1. ASSUME NEW k \in ToSet(processList), node[k].title \in Debugged, ~Dead(node[k].handle)
      PROVE  k = running \/ \E t \in Threads : Starting(t) /\ IsApp(t) /\ k = loc[t].proc
  <2>1. CASE Has(k, "app")
    BY <2>1, <1>1 DEF AppsOK, AppAt, HasStarted, InHands, OuterIn
  <2>2. CASE Registering(k)
    <3>1. PICK t \in Threads : loc[t].pc = "register" /\ loc[t].at = 0 /\ IsApp(t) /\ k = loc[t].cur
      BY <2>2 DEF Registering
    <3>2. Starting(t) /\ OuterIn(t) /\ Careful(t)
      BY <3>1 DEF Starting, OuterIn, LaunchPlaces, Careful
    <3>3. loc[t].cur = loc[t].proc
      BY <3>1, <3>2 DEF Care, CareOf, OuterOK
    <3> QED BY <3>1, <3>2, <3>3
  <2> QED BY <2>1, <2>2, <1>1 DEF Fresh, DebuggedAreApps
<1>2. NoNode \notin ToSet(processList)
  BY ListedHandles DEF IInv, Nodes, NoNode
<1>3. ASSUME NEW t \in Threads, Starting(t), IsApp(t)
      PROVE  running = NoNode /\ Launches(t)
  BY <1>3 DEF Care, SlotFree, Launches, Starting
<1> QED BY <1>1, <1>2, <1>3, OnlyOne

(* Two processes do not run the same title, the built-in ones aside         *)
(* (termination.c:163), if every client waits until pm has carried out its  *)
(* command and what is debugged is an application: pm looks for a title and *)
(* enters it in different sections of the lock.                             *)
THEOREM TitleRunsOnce ==
  ASSUME Patient, DepsStay, DebugsApps
  PROVE  Spec => []OneProcessPerTitle
<1>0. Orderly
  BY DEF Orderly
<1>1. Init => Fresh
  BY FreshInit
<1>2. IInv /\ Orders /\ Fresh /\ [Next]_vars => Fresh'
  BY FreshStep
<1>3. IInv /\ Orders /\ Care /\ AppsOK /\ Fresh => OneProcessPerTitle
  BY TitlesOnce
<1>4. Spec => [](IInv /\ Orders /\ Care /\ AppsOK /\ SlotOK)
  BY <1>0, ApplicationsAreKept
<1> QED BY <1>1, <1>2, <1>3, <1>4, PTL DEF Spec

---------------------------------------------------------------------------
(* Announcements: the end of a process is told by the monitor, if somebody  *)
(* is to be told of it, or by the thread that ends it and has then taken    *)
(* the flag from its node.                                                  *)

(* What is launched with an announcement of its end ends only when asked.   *)
NotifiedStay == \A r \in Requests : r.op \in LaunchOps /\ r.notify => r.title \notin Leaving

(* The monitor is about to announce the end of a process, or may still find *)
(* out about it.                                                            *)
Announces(h) == /\ mon.pc \in {"drop", "unregister", "finish"} /\ mon.backup.handle = h
                /\ "notify" \in mon.backup.flags
Watched(h) == \/ mon.pc \in {"check", "signal", "wait", "asleep"} /\ h \in ToSet(mon.handles)
              \/ mon.pc = "reap" /\ mon.exited = h
Begins(k) == k.st \in {"running", "dead"}
Ended(n)  == node[n].status = "terminated"
Awaited(n) == n \in ToSet(processList) /\ "notify" \in node[n].flags

(* The end of an awaited process is announced after it, and by the monitor. *)
VoiceOK(n) ==
  LET h == node[n].handle IN
  /\ "autoloaded" \notin node[n].flags /\ Begins(kern[h])
  /\ node[n].status = "running" => kern[h].st = "running" /\ kern[h].title \notin Leaving
  /\ ~Ended(n) => told[h] = 0 /\ ~Announces(h)
  /\ Ended(n) => ~Watched(h) /\ (told[h] > 0 \/ Announces(h))
  /\ \A t \in Threads : loc[t].tell # h
Voices == \A n : Awaited(n) => VoiceOK(n)

(* A thread that has taken an announcement over is the only one to make it. *)
TellerOK(l) ==
  l.tell # NoPid => /\ l.pc \in Ending /\ l.tell \in Pids /\ Begins(kern[l.tell])
                    /\ told[l.tell] = 0 /\ ~Announces(l.tell)
Tellers == \A t \in Threads : TellerOK(loc[t])
ToldOK == \A p \in Pids : /\ told[p] <= 1
                          /\ told[p] > 0 => Begins(kern[p]) /\ ~Announces(p)

(* A launch knows the title of its process, and nobody awaits the end of a  *)
(* dependency.                                                              *)
NamedOf(t) ==
  /\ loc[t].pc \in {"load", "insert"} /\ loc[t].at = 0 => loc[t].title = loc[t].req.title
  /\ OuterIn(t) => kern[node[loc[t].proc].handle].title = loc[t].req.title
  /\ loc[t].pc = "markDep" => "notify" \notin node[loc[t].cur].flags
Named == \A t \in Threads : NamedOf(t)

(* While a client's command to end a process is on its way, the process has *)
(* not ended.                                                               *)
Arming == {"clear", "arm", "notify"}
Unheard(r) == r.op \in EndOps => \A n : Awaited(n) /\ Wanted(r, n) => node[n].status = "running"
Unhurried ==
  /\ parametersSet => Unheard(task)
  /\ loc["main"].pc = "runTask" => Unheard(loc["main"].req)
  /\ \A t \in Threads : loc[t].pc \in Arming \cup {"loop"} => Unheard(loc[t].req)
SlotUnheard == Awaited(running) =>
  /\ Ended(running) => Announces(node[running].handle)
  /\ \A t \in Threads : loc[t].pc \in Arming /\ loc[t].req.op = "TerminateApplication" =>
       node[running].status = "running"

(* Without a reboot, main ends the application and the runner the rest.     *)
Divided ==
  /\ parametersSet => task.op \notin {"Reboot", "TerminateApplication"}
  /\ loc["main"].pc = "runTask" => loc["main"].req.op \notin {"Reboot", "TerminateApplication"}
  /\ \A t \in Threads : loc[t].pc \notin {"caller", "all", "last"}
  /\ loc["main"].pc \in Ending => loc["main"].req.op = "TerminateApplication" /\ loc["main"].pc # "loop"
  /\ loc["runner"].pc \in Ending => loc["runner"].req.op \in EndOps

Telling == Voices /\ Tellers /\ ToldOK /\ Named /\ Unhurried /\ SlotUnheard /\ Divided
Voiced  == ~preparingForReboot => Telling

---------------------------------------------------------------------------
(* The nodes: whose end is awaited, and its status                          *)

Hushed(p, q) ==
  /\ q.handle = p.handle
  /\ "notify" \in q.flags => /\ "notify" \in p.flags
                             /\ "autoloaded" \in q.flags => "autoloaded" \in p.flags
                             /\ "autoloaded" \notin p.flags => q.status = p.status

LEMMA HushedTwice ==
  ASSUME NEW p, NEW q, NEW r, Hushed(p, q), Hushed(q, r)
  PROVE  Hushed(p, r)
BY DEF Hushed

LEMMA NotifiedFacts ==
  ASSUME NEW p \in ProcessData
  PROVE  /\ Notified(p).handle = p.handle /\ Notified(p).flags = p.flags
         /\ Notified(p).status \in {"sent", "failed"}
<1> DEFINE s == IF CanBeNotified(p.handle) THEN "sent" ELSE "failed"
<1>1. Notified(p) = [p EXCEPT !.status = s] /\ s \in {"sent", "failed"}
  BY DEF Notified
<1> HIDE DEF s
<1> QED BY <1>1, FieldFacts

LEMMA DropFacts ==
  ASSUME NEW nd \in [Nodes -> ProcessData], NEW ttl, NEW n \in Nodes
  PROVE  LET q == DependenciesDropped(nd, ttl)[n]
         IN  /\ q.flags = nd[n].flags /\ q.handle = nd[n].handle
             /\ q.status = nd[n].status \/ ("autoloaded" \in nd[n].flags /\ nd[n].status = "running")
<1> DEFINE p == nd[n]
           r == (p.refcount + 255) % 256
           p0 == [p EXCEPT !.refcount = 0]
<1>1. DependenciesDropped(nd, ttl)[n] = IF Listed(n) /\ UsesAsDependency(p, ttl) THEN Decref(p) ELSE p
  BY DEF DependenciesDropped
<1>2. UsesAsDependency(p, ttl) => "autoloaded" \in p.flags /\ p.status = "running"
  BY DEF UsesAsDependency
<1>3. Decref(p) = IF r > 0 THEN [p EXCEPT !.refcount = r] ELSE Notified(p0)
  BY DEF Decref
<1>4. p \in ProcessData /\ p0 \in ProcessData
  <2>1. 0 \in 0..255
    OBVIOUS
  <2> QED BY <2>1 DEF ProcessData
<1> HIDE DEF r
<1>5. [p EXCEPT !.refcount = r].flags = p.flags /\ [p EXCEPT !.refcount = r].handle = p.handle
  BY <1>4, FieldFacts
<1>6. p0.flags = p.flags /\ p0.handle = p.handle
  BY <1>4, FieldFacts
<1> HIDE DEF p0
<1>7. Notified(p0).flags = p.flags /\ Notified(p0).handle = p.handle
  BY <1>4, <1>6, NotifiedFacts
<1> HIDE DEF p
<1>8. Decref(p).flags = p.flags /\ Decref(p).handle = p.handle
  BY <1>3, <1>5, <1>7
<1> QED BY <1>1, <1>2, <1>8 DEF p

LEMMA DropHushed ==
  ASSUME NEW nd \in [Nodes -> ProcessData], NEW ttl, NEW n \in Nodes
  PROVE  Hushed(nd[n], DependenciesDropped(nd, ttl)[n])
BY DropFacts DEF Hushed

(* The process that is asked to end, and the others                         *)
LEMMA TerminatingHushed ==
  ASSUME NEW nd \in [Nodes -> ProcessData], NEW m \in Nodes, NEW n \in Nodes
  PROVE  LET q == Terminating(nd, m)[n]
         IN  /\ n # m => Hushed(nd[n], q)
             /\ n = m => /\ q.handle = nd[n].handle /\ q.flags \subseteq nd[n].flags
                         /\ q.status \in {"sent", "failed"}
<1> DEFINE w == WithoutDeps(nd[m])
           md == [nd EXCEPT ![m] = Notified(w)]
<1>1. w \in ProcessData /\ w.flags \subseteq nd[m].flags /\ w.handle = nd[m].handle
  <2>1. nd[m] \in ProcessData /\ nd[m].flags \ {"depsLoaded"} \in SUBSET Flags
    BY DEF ProcessData
  <2>2. w \in ProcessData
    BY <2>1 DEF WithoutDeps, ProcessData
  <2>3. w.flags = nd[m].flags \ {"depsLoaded"} /\ w.handle = nd[m].handle
    BY <2>1, FieldFacts DEF WithoutDeps
  <2> QED BY <2>2, <2>3
<1> HIDE DEF w
<1>2. /\ Notified(w).handle = nd[m].handle /\ Notified(w).flags \subseteq nd[m].flags
      /\ Notified(w).status \in {"sent", "failed"} /\ Notified(w) \in ProcessData
  BY <1>1, NotifiedFacts, NotifiedKept DEF SameProcess
<1>3. md \in [Nodes -> ProcessData] /\ md[m] = Notified(w) /\ (n # m => md[n] = nd[n])
  BY <1>2
<1>4. CASE "depsLoaded" \in nd[m].flags
  <2>1. Terminating(nd, m) = DependenciesDropped(md, nd[m].title)
    BY <1>4 DEF Terminating, w
  <2> HIDE DEF md
  <2> DEFINE q == DependenciesDropped(md, nd[m].title)[n]
  <2>2. /\ q.flags = md[n].flags /\ q.handle = md[n].handle
        /\ q.status = md[n].status \/ ("autoloaded" \in md[n].flags /\ md[n].status = "running")
    BY <1>3, DropFacts
  <2>3. Hushed(md[n], q)
    BY <1>3, DropHushed
  <2> HIDE DEF q
  <2> QED BY <2>1, <2>2, <2>3, <1>2, <1>3 DEF q
<1>5. CASE "depsLoaded" \notin nd[m].flags
  <2>1. Terminating(nd, m) = [nd EXCEPT ![m] = Notified(nd[m])]
    BY <1>5 DEF Terminating
  <2>2. nd[m] \in ProcessData
    OBVIOUS
  <2>3. n = m => Terminating(nd, m)[n] = Notified(nd[m])
    BY <2>1
  <2>4. n # m => Terminating(nd, m)[n] = nd[n]
    BY <2>1
  <2> QED BY <2>2, <2>3, <2>4, NotifiedFacts DEF Hushed
<1> QED BY <1>4, <1>5

LEMMA FlagsHushed ==
  ASSUME NEW nd \in [Nodes -> ProcessData], NEW m, NEW f, NEW n \in Nodes,
         n = m /\ "notify" \in f => /\ "notify" \in nd[m].flags
                                    /\ "autoloaded" \in f => "autoloaded" \in nd[m].flags
  PROVE  Hushed(nd[n], [nd EXCEPT ![m].flags = f][n])
<1> DEFINE q == [nd EXCEPT ![m].flags = f][n]
<1>1. q.handle = nd[n].handle /\ q.status = nd[n].status /\ q.flags = IF n = m THEN f ELSE nd[n].flags
  BY FlagsWritten
<1> HIDE DEF q
<1> QED BY <1>1 DEF Hushed, q

LEMMA HushedIncref ==
  ASSUME NEW p \in ProcessData, NEW a
  PROVE  Hushed(p, p) /\ Hushed(p, Incref(p, a)) /\ Incref(p, a).flags = p.flags
<1>1. Incref(p, a) = p \/ Incref(p, a) = [p EXCEPT !.refcount = p.refcount + a]
  BY DEF Incref
<1> DEFINE q == [p EXCEPT !.refcount = p.refcount + a]
<1>2. q.flags = p.flags /\ q.handle = p.handle /\ q.status = p.status
  BY FieldFacts
<1>3. Incref(p, a) = p \/ Incref(p, a) = q
  BY <1>1
<1> HIDE DEF q
<1> QED BY <1>2, <1>3 DEF Hushed

(* A launch leaves the nodes as they are, but for the new one and for the   *)
(* one whose process is awaited from its run on.                            *)
Heard(t, n) == /\ RunSucceeds(t) /\ loc[t].at = 0 /\ loc[t].req.notify /\ n = loc[t].cur
               /\ node'[n].flags = node[n].flags \cup {"notify"}
               /\ node'[n].status = node[n].status /\ node'[n].handle = node[n].handle

LEMMA LaunchHushed ==
  ASSUME TypeOK, NEW t \in Threads, Launch(t), NamedOf(t), NEW n \in Nodes
  PROVE  \/ Hushed(node[n], node'[n])
         \/ Enters(t) /\ n = Head(freeList)
         \/ Heard(t, n)
<1>0. node[n] \in ProcessData /\ Hushed(node[n], node[n]) /\ node \in [Nodes -> ProcessData]
  BY HushedIncref DEF TypeOK
<1>1. CASE CheckLaunch(t) \/ Load(t) \/ LoadFails(t) \/ RunFails(t) \/ Abandon(t) \/ Panic
  BY <1>0, <1>1 DEF CheckLaunch, Load, LoadFails, RunFails, Abandon, Panic, listVars
<1>2. CASE Insert(t) /\ ~Panic
  <2>1. Enters(t) /\ node' = [node EXCEPT ![Head(freeList)] = Process(loc[t].pid, loc[t].title, {})]
    BY <1>2 DEF Insert, Enters, ProcessList_New
  <2> QED BY <2>1, <1>0
<1>3. CASE Register(t)
  <2> DEFINE m == loc[t].cur
             f == node[m].flags \cup {"app"}
  <2>1. node' = node \/ node' = [node EXCEPT ![m].flags = f]
    BY <1>3 DEF Register
  <2>2. n = m /\ "notify" \in f => /\ "notify" \in node[m].flags
                                   /\ "autoloaded" \in f => "autoloaded" \in node[m].flags
    OBVIOUS
  <2> HIDE DEF f, m
  <2> QED BY <2>1, <2>2, <1>0, FlagsHushed
<1>4. CASE (MergeOwn(t) \/ MergeDependency(t)) /\ ~Panic
  <2> DEFINE array == Merged(t)
             ttl == loc[t].title
  <2>1. node' = Increfed(node, array, ttl)
    BY <1>4, Zenon DEF MergeOwn, MergeDependency, Merge
  <2> HIDE DEF array, ttl
  <2>2. node'[n] = node[n] \/ node'[n] = Incref(node[n], 1)
    BY <2>1 DEF Increfed
  <2> QED BY <1>0, <2>2, HushedIncref
<1>5. CASE Mark(t)
  <2> DEFINE m == loc[t].proc
             f == node[m].flags \cup {"depsLoaded"}
  <2>1. node' = node \/ node' = [node EXCEPT ![m].flags = f]
    BY <1>5 DEF Mark
  <2>2. n = m /\ "notify" \in f => /\ "notify" \in node[m].flags
                                   /\ "autoloaded" \in f => "autoloaded" \in node[m].flags
    OBVIOUS
  <2> HIDE DEF f, m
  <2> QED BY <2>1, <2>2, <1>0, FlagsHushed
<1>6. CASE RunSucceeds(t)
  <2> DEFINE m == loc[t].cur
             f == node[m].flags \cup {"notify"}
  <2>1. \/ node' = node
        \/ loc[t].at = 0 /\ loc[t].req.notify /\ node' = [node EXCEPT ![m].flags = f]
    BY <1>6 DEF RunSucceeds, Outer
  <2>2. CASE node' = node
    BY <2>2, <1>0
  <2>3. CASE loc[t].at = 0 /\ loc[t].req.notify /\ node' = [node EXCEPT ![m].flags = f] /\ n = m
    <3>1. f = node[n].flags \cup {"notify"}
      BY <2>3
    <3> HIDE DEF f
    <3>2. node'[n].flags = f /\ node'[n].handle = node[n].handle /\ node'[n].status = node[n].status
      BY <2>3, <1>0, FlagsWritten
    <3> QED BY <3>1, <3>2, <2>3, <1>6 DEF Heard
  <2>4. CASE node' = [node EXCEPT ![m].flags = f] /\ n # m
    <3> HIDE DEF f, m
    <3> QED BY <2>4, <1>0, FlagsHushed
  <2> QED BY <2>1, <2>2, <2>3, <2>4
<1>7. CASE MarkDependency(t) /\ ~Panic
  <2> DEFINE m == loc[t].cur
             f == node[m].flags \cup {"autoloaded", "depsLoaded"}
             d == [node[m] EXCEPT !.flags = f]
             a == loc[t].array[loc[t].at].rem - 1
  <2>1. node' = [node EXCEPT ![m] = Incref(d, a)] /\ loc[t].pc = "markDep"
    BY <1>7 DEF MarkDependency, At, Panic
  <2>2. CASE n = m
    <3>1. node'[n] = Incref(d, a) /\ d = [node[n] EXCEPT !.flags = f] /\ "notify" \notin f
      BY <1>0, <2>1, <2>2 DEF NamedOf
    <3>2. f \in SUBSET Flags
      BY <1>0, <2>2 DEF ProcessData, Flags
    <3> HIDE DEF d, f
    <3>3. d.flags = f /\ d.handle = node[n].handle
      BY <1>0, <3>1, FieldFacts
    <3>4. d \in ProcessData
      BY <1>0, <3>1, <3>2 DEF ProcessData
    <3>5. Hushed(d, Incref(d, a)) /\ Incref(d, a).flags = f
      BY <3>3, <3>4, HushedIncref
    <3> QED BY <3>1, <3>3, <3>5 DEF Hushed
  <2>3. CASE n # m
    <3>1. node'[n] = node[n]
      BY <1>0, <2>1, <2>3
    <3> QED BY <3>1, <1>0
  <2> QED BY <2>2, <2>3
<1> QED BY <1>1, <1>2, <1>3, <1>4, <1>5, <1>6, <1>7 DEF Launch

(* The loop over the list asks one process to end and takes its             *)
(* announcement over.                                                       *)
LEMMA LoopFacts ==
  ASSUME TypeOK, LocsOK, NEW t \in Threads, LoopNext(t)
  PROVE  \E m \in ToSet(processList) :
           /\ m \in Nodes /\ Wanted(loc[t].req, m) /\ "notify" \notin node'[m].flags
           /\ \A n \in Nodes : Hushed(node[n], node'[n])
           /\ Others(t) /\ loc[t].pc = "loop" /\ loc'[t].pc = "loop" /\ loc'[t].req = loc[t].req
           /\ loc'[t].tell = IF "notify" \in node[m].flags THEN node[m].handle ELSE loc[t].tell
<1>0. node \in [Nodes -> ProcessData] /\ processList \in Seq(Nodes) /\ loc[t] \in Thread
  BY DEF TypeOK, LocsOK
<1> DEFINE k == CHOOSE j \in Remaining(t) : \A i \in Remaining(t) : j <= i
           m == processList[k]
           f == TakenOver(node[m].flags)
           md == [node EXCEPT ![m].flags = f]
           a == IF loc[t].req.op = "TerminateTitle" THEN k ELSE Len(processList)
           h == IF Has(m, "notify") THEN node[m].handle ELSE loc[t].tell
           l == [loc[t] EXCEPT !.at = a, !.tell = h]
<1>1. k \in Remaining(t)
  <2> HIDE DEF m, f, md, a, h, l
  <2>1. Remaining(t) \subseteq DOMAIN processList /\ DOMAIN processList \subseteq Nat
    BY <1>0 DEF Remaining
  <2>2. Remaining(t) \subseteq Nat /\ Remaining(t) # {}
    BY <2>1 DEF LoopNext
  <2> QED BY <2>2, LeastElement
<1>2. /\ loc[t].pc = "loop" /\ node' = Terminating(md, m)
      /\ loc' = [loc EXCEPT ![t].at = a, ![t].tell = h]
  BY DEF LoopNext, At
<1> HIDE DEF k
<1>3. m \in ToSet(processList) /\ m \in Nodes /\ Wanted(loc[t].req, m)
  <2>1. k \in DOMAIN processList /\ Wanted(loc[t].req, m)
    BY <1>1 DEF Remaining
  <2> QED BY <2>1, <1>0 DEF ToSet
<1> HIDE DEF m
<1>4. "notify" \notin f /\ f \in SUBSET Flags
  BY <1>0, <1>3 DEF TakenOver, Flags, ProcessData
<1> HIDE DEF f
<1>5. md \in [Nodes -> ProcessData]
  <2> HIDE DEF a, h, l
  <2>1. md = [node EXCEPT ![m] = [node[m] EXCEPT !.flags = f]]
    OBVIOUS
  <2>2. \A p \in ProcessData : [p EXCEPT !.flags = f] \in ProcessData
    BY <1>4 DEF ProcessData
  <2>3. [node[m] EXCEPT !.flags = f] \in ProcessData
    BY <1>0, <1>3, <2>2
  <2> QED BY <1>0, <2>1, <2>3
<1>6. ASSUME NEW n \in Nodes
      PROVE  /\ Hushed(node[n], node'[n])
             /\ n = m => "notify" \notin node'[n].flags
  <2>1. Hushed(node[n], md[n])
    BY <1>0, <1>4, FlagsHushed
  <2>2. n = m => md[n].flags = f /\ md[n].handle = node[n].handle
    BY <1>0, FlagsWritten
  <2> HIDE DEF md
  <2>3. /\ n # m => Hushed(md[n], node'[n])
        /\ n = m => node'[n].handle = md[n].handle /\ node'[n].flags \subseteq md[n].flags
    BY <1>2, <1>3, <1>5, TerminatingHushed
  <2>4. CASE n = m
    BY <2>2, <2>3, <2>4, <1>4 DEF Hushed
  <2>5. CASE n # m
    BY <2>1, <2>3, <2>5, HushedTwice
  <2> QED BY <2>4, <2>5
<1>7. Others(t) /\ loc'[t].pc = "loop" /\ loc'[t].req = loc[t].req /\ loc'[t].tell = h
  <2> HIDE DEF a, h
  <2>1. loc' = [loc EXCEPT ![t] = l]
    BY <1>2 DEF LocsOK
  <2>2. l.pc = loc[t].pc /\ l.req = loc[t].req /\ l.tell = h
    BY <1>0 DEF Thread
  <2> HIDE DEF l
  <2> QED BY <2>1, <2>2, <1>2, OneLoc
<1> QED BY <1>2, <1>3, <1>6, <1>7 DEF Has

(* TerminateApplication asks for the end of what is in the slot.            *)
AsksApp(t, n) == /\ TerminateApplication(t) /\ n = running
                 /\ node'[n].handle = node[n].handle /\ node'[n].flags \subseteq node[n].flags
                 /\ node'[n].status \in {"sent", "failed"}

LEMMA TerminationHushed ==
  ASSUME TypeOK, LocsOK, NEW t \in Threads, Terminate(t), loc[t].pc \notin {"caller", "all", "last"},
         NEW n \in Nodes
  PROVE  Hushed(node[n], node'[n]) \/ AsksApp(t, n)
<1>0. node[n] \in ProcessData /\ Hushed(node[n], node[n]) /\ node \in [Nodes -> ProcessData]
  BY HushedIncref DEF TypeOK
<1>1. CASE UNCHANGED node
  BY <1>0, <1>1
<1>2. CASE TerminateApplication(t)
  <2>1. node' = node \/ (running # NoNode /\ node' = Terminating(node, running))
    BY <1>2 DEF TerminateApplication
  <2>2. running # NoNode => running \in Nodes
    BY DEF TypeOK
  <2> QED BY <2>1, <2>2, <1>0, <1>2, TerminatingHushed DEF AsksApp
<1>3. CASE LoopNext(t)
  BY <1>3, LoopFacts
<1>4. CASE NotifyAll(t) \/ NotifyLast(t)
  BY <1>4 DEF NotifyAll, NotifyLast, At
<1>5. CASE ~(TerminateApplication(t) \/ LoopNext(t) \/ NotifyAll(t) \/ NotifyLast(t))
  <2>1. UNCHANGED node
    BY <1>5 DEF Terminate, ClearEvent, Arm, LoopBegin, LoopEnd, FindCaller, Commit, WaitUntilTimeout,
                WaitForever, WaitFor, Timeout, KillOverdue, Disarm, listVars
  <2> QED BY <2>1, <1>1
<1> QED BY <1>2, <1>3, <1>4, <1>5

(* The monitor finds that a process has ended.                              *)
Reaps(n) == /\ MonitorReap /\ n \in ToSet(processList) /\ node[n].handle = mon.exited
            /\ node' = [node EXCEPT ![n] = mon'.backup]
            /\ mon'.backup.handle = node[n].handle /\ mon'.backup.status = "terminated"
            /\ "autoloaded" \in mon'.backup.flags => "autoloaded" \in node[n].flags
            /\ "notify" \in mon'.backup.flags <=> "notify" \in node[n].flags
            /\ mon.pc = "reap" /\ mon'.pc \in {"drop", "unregister"}

LEMMA ReapedNode ==
  ASSUME IInv, MonitorReap, FindProcessById(mon.exited) # NoNode
  PROVE  Reaps(FindProcessById(mon.exited))
<1> DEFINE n == FindProcessById(mon.exited)
           f == ExitFlags(node[n].flags)
           p == [node[n] EXCEPT !.status = "terminated", !.flags = f]
           pc == IF "depsLoaded" \in p.flags THEN "drop" ELSE "unregister"
<1>0. mon \in MonitorState /\ node \in [Nodes -> ProcessData] /\ TypeOK /\ ListSound
  BY DEF IInv, TypeOK
<1>1. n \in ToSet(processList) /\ n \in Nodes /\ node[n].handle = mon.exited
  BY <1>0, FoundExited
<1>2. /\ node' = [node EXCEPT ![n] = p]
      /\ mon' = [mon EXCEPT !.backup = p, !.exited = NoPid, !.pc = pc]
  BY Zenon DEF MonitorReap
<1>3. pc \in {"drop", "unregister"} /\ mon.pc = "reap"
  BY DEF MonitorReap, MonitorIs
<1> HIDE DEF pc
<1> HIDE DEF n
<1>4. p.flags = f /\ p.handle = node[n].handle /\ p.status = "terminated"
  BY <1>0, <1>1 DEF ProcessData
<1>5. /\ "autoloaded" \in f => "autoloaded" \in node[n].flags
      /\ "notify" \in f <=> "notify" \in node[n].flags
  BY DEF ExitFlags
<1> HIDE DEF f, p
<1>6. mon'.backup = p /\ mon'.pc = pc
  BY <1>0, <1>2 DEF MonitorState
<1> QED BY <1>1, <1>2, <1>3, <1>4, <1>5, <1>6 DEF n, Reaps

LEMMA MonitorHushed ==
  ASSUME IInv, Monitor, NEW n \in Nodes
  PROVE  Hushed(node[n], node'[n]) \/ Reaps(n)
<1>0. node[n] \in ProcessData /\ Hushed(node[n], node[n]) /\ node \in [Nodes -> ProcessData]
  BY HushedIncref DEF IInv, TypeOK
<1>1. CASE MonitorReap
  <2>1. CASE FindProcessById(mon.exited) = NoNode
    <3>1. UNCHANGED node
      BY <1>1, <2>1 DEF MonitorReap, listVars
    <3> QED BY <3>1, <1>0
  <2>2. CASE FindProcessById(mon.exited) # NoNode
    <3> DEFINE m == FindProcessById(mon.exited)
    <3>1. Reaps(m)
      BY <1>1, <2>2, ReapedNode
    <3> HIDE DEF m
    <3>2. node' = [node EXCEPT ![m] = mon'.backup]
      BY <3>1 DEF Reaps
    <3>3. n # m => node'[n] = node[n]
      BY <3>2, <1>0
    <3> QED BY <3>1, <3>3, <1>0
  <2> QED BY <2>1, <2>2
<1>2. CASE MonitorDropDependencies
  <2>1. node' = DependenciesDropped(node, mon.backup.title)
    BY <1>2 DEF MonitorDropDependencies
  <2> QED BY <2>1, <1>0, DropHushed
<1>3. CASE ~MonitorReap /\ ~MonitorDropDependencies
  <2>1. UNCHANGED node
    BY <1>3 DEF Monitor, MonitorScan, MonitorCheck, MonitorSignal, MonitorWait, listVars,
       MonitorWakesForNewProcess, MonitorWakesForExit, MonitorUnregister, MonitorFinish
  <2> QED BY <2>1, <1>0
<1> QED BY <1>1, <1>2, <1>3

LEMMA CommandHushed ==
  ASSUME TypeOK, NEW n \in Nodes,
         TakeCommand \/ RunTask \/ FoundRunning \/ RunnerReady \/ RunnerTakesTask
           \/ (\E p \in Pids : Exit(p)) \/ UNCHANGED vars
  PROVE  Hushed(node[n], node'[n])
<1>0. node[n] \in ProcessData /\ Hushed(node[n], node[n]) /\ node \in [Nodes -> ProcessData]
  BY HushedIncref DEF TypeOK
<1>1. CASE ~FoundRunning
  <2>1. UNCHANGED node
    BY <1>1 DEF TakeCommand, TakeTerminateApplication, TakeTerminate, TakePrepareForReboot,
       TakeUnregisterProcess, TakeLaunchTitle, TakeLaunchAppDebug, RunTask, RunnerReady,
       RunnerTakesTask, Exit, vars, listVars
  <2> QED BY <2>1, <1>0
<1>2. CASE FoundRunning
  <2> DEFINE m == loc["main"].proc
             f == node[m].flags \ {"autoloaded"}
  <2>1. node' = [node EXCEPT ![m].flags = f]
    BY <1>2 DEF FoundRunning
  <2>2. n = m /\ "notify" \in f => /\ "notify" \in node[m].flags
                                   /\ "autoloaded" \in f => "autoloaded" \in node[m].flags
    OBVIOUS
  <2> HIDE DEF f, m
  <2> QED BY <2>1, <2>2, <1>0, FlagsHushed
<1> QED BY <1>1, <1>2

(* A process is awaited from its run on; what is awaited keeps its status,  *)
(* unless the application is asked to end or a process has ended.           *)
LEMMA AwaitedStep ==
  ASSUME IInv, Named, Divided, [Next]_vars, NEW n, Awaited(n)'
  PROVE  /\ n \in ToSet(processList) /\ n \in Nodes
         /\ node'[n].handle = node[n].handle /\ node'[n].title = node[n].title
         /\ \/ Awaited(n) /\ Hushed(node[n], node'[n])
            \/ Awaited(n) /\ Reaps(n)
            \/ Awaited(n) /\ \E t \in Threads : AsksApp(t, n)
            \/ \E t \in Threads : Heard(t, n)
<1>0. /\ TypeOK /\ ControlOK /\ ListSound /\ LocsOK
      /\ \A t \in Threads : NamedOf(t) /\ loc[t].pc \notin {"caller", "all", "last"}
      /\ n \in ToSet(processList') /\ "notify" \in node'[n].flags
      /\ "main" \in Threads /\ "runner" \in Threads
  BY DEF IInv, TypeOK, ControlOK, LocsOK, Threads, Named, Divided, Awaited
<1>1. ASSUME NEW t \in Threads, Enters(t), n = Head(freeList)
      PROVE  FALSE
  <2>1. node' = [node EXCEPT ![n] = Process(loc[t].pid, loc[t].title, {})]
    BY <1>1 DEF Enters, Insert, ProcessList_New
  <2>2. n \in Nodes
    BY <1>0, <1>1, EnteredLists
  <2>3. node'[n] = Process(loc[t].pid, loc[t].title, {})
    BY <2>1, <2>2, <1>0 DEF TypeOK
  <2>4. Process(loc[t].pid, loc[t].title, {}).flags = {}
    BY DEF Process, BlankProcess
  <2> QED BY <2>3, <2>4, <1>0
<1>2. n \in ToSet(processList) /\ n \in Nodes
  <2>1. n \in ToSet(processList)
    BY <1>0, <1>1, ListedBefore
  <2> QED BY <2>1, <1>0, ListedHandles
<1>3. node'[n].handle = node[n].handle /\ node'[n].title = node[n].title
  <2>1. CASE Kept(node, node')
    BY <2>1, <1>2 DEF Kept, SameProcess
  <2>2. CASE \E t \in Threads : Enters(t)
    <3>1. PICK t \in Threads : Enters(t)
      BY <2>2
    <3>2. node' = [node EXCEPT ![Head(freeList)] = Process(loc[t].pid, loc[t].title, {})]
      BY <3>1 DEF Enters, Insert, ProcessList_New
    <3>3. n # Head(freeList)
      BY <3>1, <1>1
    <3> QED BY <3>2, <3>3, <1>2, <1>0 DEF TypeOK
  <2> QED BY <2>1, <2>2, <1>0, NodesStep
<1>4. \/ Hushed(node[n], node'[n]) \/ Reaps(n)
      \/ \E t \in Threads : AsksApp(t, n) \/ Heard(t, n)
  <2>1. CASE TakeCommand \/ RunTask \/ FoundRunning \/ RunnerReady \/ RunnerTakesTask
             \/ (\E p \in Pids : Exit(p)) \/ UNCHANGED vars
    BY <1>0, <1>2, <2>1, CommandHushed
  <2>2. CASE \E t \in Threads : Terminate(t)
    BY <1>0, <1>2, <2>2, TerminationHushed
  <2>3. CASE \E t \in Threads : Launch(t)
    BY <1>0, <1>1, <1>2, <2>3, LaunchHushed
  <2>4. CASE Monitor
    BY <1>2, <2>4, MonitorHushed
  <2> QED BY <1>0, <2>1, <2>2, <2>3, <2>4 DEF Next, Main, Runner
<1>5. ~(\E t \in Threads : Heard(t, n)) => "notify" \in node[n].flags
  <2>1. CASE Hushed(node[n], node'[n])
    BY <2>1, <1>0 DEF Hushed
  <2>2. CASE Reaps(n)
    <3>1. node'[n] = mon'.backup
      BY <2>2, <1>0, <1>2 DEF Reaps, TypeOK
    <3> QED BY <3>1, <2>2, <1>0 DEF Reaps
  <2>3. CASE \E t \in Threads : AsksApp(t, n)
    BY <2>3, <1>0 DEF AsksApp
  <2> QED BY <1>4, <2>1, <2>2, <2>3
<1> QED BY <1>2, <1>3, <1>4, <1>5 DEF Awaited

---------------------------------------------------------------------------
(* How a thread gets into a termination, through it and out of it           *)

Rests(l, m) == m.pc \notin Ending /\ (m.tell = NoPid \/ (m.tell = l.tell /\ l.pc \notin Ending))
GoesOn(l, m) == /\ l.pc \in Ending /\ m.pc \in Ending /\ m.req = l.req /\ m.tell = l.tell
                /\ m.pc \in {"caller", "all", "last"} => l.pc \in {"caller", "all", "last"}
                /\ m.pc \in Arming => l.pc \in Arming
                /\ m.pc = "loop" => l.pc = "loop" \/ (l.pc \in Arming /\ l.req.op \in EndOps)

LEMMA EndMoves ==
  ASSUME LocsOK, NEW t \in Threads, Terminate(t), loc[t].req.op # "Reboot"
  PROVE  /\ loc'[t] = Returned(t) \/ GoesOn(loc[t], loc'[t]) \/ LoopNext(t)
         /\ Disarm(t) => loc'[t] = Returned(t)
         /\ TerminateApplication(t) => loc'[t].pc = "commit"
<1>0. loc[t] \in Thread
  BY DEF LocsOK
<1> USE DEF Ending, Arming
<1>1. ASSUME NEW pc, Goes(t, pc)
      PROVE  loc'[t].req = loc[t].req /\ loc'[t].pc = pc /\ loc'[t].tell = loc[t].tell
  BY <1>1, GoesFacts DEF SameTask
<1>2. CASE ClearEvent(t)
  BY <1>2, <1>1 DEF ClearEvent, At, GoesOn, Disarm, TerminateApplication
<1>3. CASE Arm(t)
  <2>1. loc[t].pc = "arm" /\ Goes(t, "notify")
    BY <1>3 DEF Arm, At
  <2> QED BY <2>1, <1>1 DEF GoesOn, Disarm, TerminateApplication, At
<1>4. CASE TerminateApplication(t)
  BY <1>4, <1>1 DEF TerminateApplication, At, GoesOn, Disarm
<1>5. CASE LoopBegin(t)
  <2> DEFINE l == [loc[t] EXCEPT !.pc = "loop", !.at = 0]
  <2>1. loc' = [loc EXCEPT ![t] = l] /\ loc[t].pc = "notify" /\ loc[t].req.op \in EndOps
    BY <1>5 DEF LoopBegin, At, LocsOK, EndOps
  <2>2. l.pc = "loop" /\ l.req = loc[t].req /\ l.tell = loc[t].tell
    BY <1>0 DEF Thread
  <2> HIDE DEF l
  <2> QED BY <2>1, <2>2, OneLoc DEF GoesOn, Disarm, TerminateApplication, At, EndOps
<1>6. CASE LoopNext(t)
  BY <1>6 DEF LoopNext, At, Disarm, TerminateApplication
<1>7. CASE LoopEnd(t)
  <2>1. loc[t].pc = "loop" /\ (Goes(t, "commit") \/ Returns(t))
    BY <1>7 DEF LoopEnd, At
  <2> QED BY <2>1, <1>1, ReturnsFacts DEF GoesOn, Disarm, TerminateApplication, At
<1>8. CASE FindCaller(t)
  <2>1. PICK n, s : loc' = [loc EXCEPT ![t].pc = "all", ![t].proc = n, ![t].spared = s]
    BY <1>8, Zenon DEF FindCaller
  <2> DEFINE l == [loc[t] EXCEPT !.pc = "all", !.proc = n, !.spared = s]
  <2>2. loc' = [loc EXCEPT ![t] = l] /\ loc[t].pc = "caller"
    BY <2>1, <1>8 DEF FindCaller, At, LocsOK
  <2>3. l.pc = "all" /\ l.req = loc[t].req /\ l.tell = loc[t].tell
    BY <1>0, <2>2 DEF Thread
  <2> HIDE DEF l
  <2> QED BY <2>2, <2>3, OneLoc DEF GoesOn, Disarm, TerminateApplication, At
<1>9. CASE NotifyAll(t) \/ NotifyLast(t)
  <2>1. loc[t].pc \in {"all", "last"} /\ (UNCHANGED loc \/ Goes(t, "commit"))
    BY <1>9 DEF NotifyAll, NotifyLast, At, Panic
  <2> QED BY <2>1, <1>1 DEF GoesOn, Disarm, TerminateApplication, At
<1>10. CASE Commit(t)
  <2>1. loc[t].pc = "commit" /\ (Goes(t, "wait") \/ Goes(t, "disarm"))
    BY <1>10 DEF Commit, At
  <2> QED BY <2>1, <1>1 DEF GoesOn, Disarm, TerminateApplication, At
<1>11. CASE WaitUntilTimeout(t) \/ WaitForever(t)
  <2>1. /\ loc[t].pc \in {"wait", "waitAgain"}
        /\ Goes(t, "disarm") \/ Goes(t, "blocked") \/ Goes(t, "blockedForever")
    BY <1>11 DEF WaitUntilTimeout, WaitForever, WaitFor, At
  <2> QED BY <2>1, <1>1 DEF GoesOn, Disarm, TerminateApplication, At
<1>12. CASE Timeout(t) \/ KillOverdue(t)
  BY <1>12, <1>1 DEF Timeout, KillOverdue, At, GoesOn, Disarm, TerminateApplication
<1>13. CASE Disarm(t)
  <2>1. loc[t].pc = "disarm" /\ loc' = [loc EXCEPT ![t] = Returned(t)]
    BY <1>13 DEF Disarm, At, LocsOK
  <2> QED BY <2>1, OneLoc DEF TerminateApplication, At
<1> QED BY <1>2, <1>3, <1>4, <1>5, <1>6, <1>7, <1>8, <1>9, <1>10, <1>11, <1>12, <1>13 DEF Terminate

Asked(t) == /\ t = "main" /\ TakeCommand /\ loc["main"].pc = "idle" /\ loc'[t].pc = "clear"
            /\ loc'[t].req.op = "TerminateApplication" /\ loc'[t].tell = loc[t].tell
Tasked(t) == /\ t = "runner" /\ RunnerTakesTask /\ loc["runner"].pc = "parameters" /\ parametersSet
             /\ loc'[t].pc \in {"clear", "notify"} /\ loc'[t].req = task /\ loc'[t].tell = loc[t].tell

LEMMA Moves ==
  ASSUME IInv, Divided, [Next]_vars, NEW t \in Threads
  PROVE  \/ Rests(loc[t], loc'[t]) \/ GoesOn(loc[t], loc'[t]) \/ LoopNext(t) \/ Asked(t) \/ Tasked(t)
<1>0. LocsOK /\ "main" \in Threads /\ "runner" \in Threads
  BY DEF IInv, TypeOK, ControlOK, LocsOK, Threads
<1>1. \A u \in Threads : /\ Returned(u).pc \notin Ending /\ Returned(u).tell = NoPid
                         /\ loc[u].pc \in Ending => loc[u].req.op # "Reboot"
  BY RoleFacts, ReturnedFacts DEF Divided, EndOps, Threads
<1>2. CASE loc'[t] = loc[t]
  BY <1>2 DEF Rests, GoesOn
<1>3. CASE loc'[t] = Returned(t)
  BY <1>1, <1>3 DEF Rests
<1>4. ASSUME NEW u \in Threads, Terminate(u)
      PROVE  \/ loc'[t] = loc[t] \/ loc'[t] = Returned(t) \/ GoesOn(loc[t], loc'[t]) \/ LoopNext(t)
  BY <1>0, <1>1, <1>4, EndLoc, EndMoves DEF Others
<1>5. ASSUME NEW u \in Threads, Launch(u)
      PROVE  \/ loc'[t] = loc[t] \/ loc'[t] = Returned(t) \/ Rests(loc[t], loc'[t])
  <2>1. CASE u # t
    BY <1>0, <1>5, <2>1, LaunchLoc DEF Others
  <2>2. CASE u = t
    BY <1>0, <1>5, <2>2, LaunchLoc, RoleFacts DEF Rests, Launches
  <2> QED BY <2>1, <2>2
<1>6. CASE Monitor
  BY <1>0, <1>6, <1>2, MonitorLoc DEF GoesOn, Ending, Arming
<1>7. CASE TakeCommand
  <2>1. /\ loc["main"].pc = "idle" /\ loc'["runner"] = loc["runner"] /\ loc'["main"].tell = loc["main"].tell
        /\ \/ loc' = loc
           \/ loc'["main"].pc = "found"
           \/ \E r \in Requests : loc'["main"].req = r /\ Begun(loc'["main"], r)
    BY <1>0, <1>7, TakeLoc DEF Others, Threads
  <2>2. CASE t = "main" /\ \E r \in Requests : loc'["main"].req = r /\ Begun(loc'["main"], r)
    BY <2>1, <2>2, <1>7, RoleFacts DEF Begun, Asked, Rests
  <2>3. CASE t = "main" /\ loc'["main"].pc = "found"
    BY <2>1, <2>3, RoleFacts DEF Rests
  <2> QED BY <2>1, <2>2, <2>3, <1>2 DEF Threads
<1>8. CASE RunTask \/ FoundRunning
  <2>1. Returns("main")
    BY <1>8 DEF RunTask, FoundRunning
  <2> QED BY <2>1, <1>0, <1>2, <1>3, ReturnsFacts DEF Others
<1>9. CASE RunnerReady
  <2>1. loc["runner"].pc = "top" /\ Goes("runner", "parameters")
    BY <1>9 DEF RunnerReady, At
  <2>2. loc'["runner"].pc = "parameters" /\ loc'["runner"].tell = loc["runner"].tell /\ Others("runner")
    BY <2>1, <1>0, GoesFacts DEF SameTask
  <2>3. CASE t = "runner"
    BY <2>1, <2>2, <2>3, RoleFacts DEF Rests
  <2>4. CASE t # "runner"
    BY <2>2, <2>4, <1>2 DEF Others
  <2> QED BY <2>3, <2>4
<1>10. CASE RunnerTakesTask
  <2> DEFINE pc == StartPc(task)
             l == [loc["runner"] EXCEPT !.pc = pc, !.req = task]
  <2>1. loc["runner"].pc = "parameters" /\ parametersSet /\ loc' = [loc EXCEPT !["runner"] = l]
    BY <1>0, <1>10 DEF RunnerTakesTask, At, LocsOK
  <2>2. task \in Requests
    BY <2>1 DEF IInv, ControlOK
  <2>3. pc \in {"clear", "notify", "check"}
    BY <2>2, StartPcTyped
  <2> HIDE DEF pc
  <2>4. l.pc = pc /\ l.req = task /\ l.tell = loc["runner"].tell
    BY <1>0 DEF LocsOK, Thread
  <2> HIDE DEF l
  <2>5. loc'["runner"] = l /\ (t # "runner" => loc'[t] = loc[t])
    BY <1>0, <2>1, OneLoc DEF Others
  <2> QED BY <2>1, <2>3, <2>4, <2>5, <1>2, <1>10, RoleFacts DEF Tasked, Rests
<1>11. CASE (\E p \in Pids : Exit(p)) \/ UNCHANGED vars
  <2>1. UNCHANGED loc
    BY <1>11 DEF Exit, vars
  <2> QED BY <2>1, <1>2
<1> QED BY <1>0, <1>2, <1>3, <1>4, <1>5, <1>6, <1>7, <1>8, <1>9, <1>10, <1>11 DEF Next, Main, Runner

---------------------------------------------------------------------------
(* A reboot that is prepared stays so.                                      *)
LEMMA RebootStays ==
  ASSUME [Next]_vars, preparingForReboot
  PROVE  preparingForReboot'
<1>1. CASE TakeCommand
  <2>1. CASE TakePrepareForReboot
    BY <2>1 DEF TakePrepareForReboot
  <2>2. CASE ~TakePrepareForReboot
    BY <2>2, <1>1 DEF TakeCommand, TakeTerminateApplication, TakeTerminate, TakeUnregisterProcess,
                      TakeLaunchTitle, TakeLaunchAppDebug, managerVars
  <2> QED BY <2>1, <2>2
<1>2. CASE RunTask \/ RunnerReady \/ RunnerTakesTask \/ UNCHANGED vars
  BY <1>2 DEF RunTask, RunnerReady, RunnerTakesTask, vars, managerVars
<1>3. CASE (\E t \in Threads : Terminate(t) \/ Launch(t)) \/ Monitor \/ (\E p \in Pids : Exit(p)) \/ FoundRunning
  BY <1>3, TasksRest
<1> QED BY <1>1, <1>2, <1>3 DEF Next, Main, Runner, Threads

(* What the monitor is about to announce, and what it may still find out    *)
LEMMA AnnounceStep ==
  ASSUME IInv, [Next]_vars, NEW h
  PROVE  /\ Announces(h)' => \/ Announces(h)
                             \/ \E n \in ToSet(processList) : Reaps(n) /\ node[n].handle = h /\ Has(n, "notify")
         /\ Announces(h) => Announces(h)' \/ MonitorFinish
         /\ Watched(h)' => \/ Watched(h)
                           \/ \E n \in ToSet(processList) : node[n].handle = h /\ ~Ended(n)
         /\ MonitorFinish => ~Announces(h)'
<1>0. mon \in MonitorState /\ processList \in Seq(Nodes)
  BY DEF IInv, TypeOK
<1>1. CASE UNCHANGED <<mon>> /\ ~MonitorFinish
  BY <1>1 DEF Announces, Watched
<1>2. CASE MonitorScan
  <2> DEFINE live == {k \in DOMAIN processList : node[processList[k]].status # "terminated"}
             q == [k \in DOMAIN processList |-> node[processList[k]].handle]
             hs == Chosen(q, live)
             b == \E k \in live : node[processList[k]].status = "sent"
  <2>1. mon.pc = "scan" /\ mon' = [mon EXCEPT !.pc = "check", !.handles = hs, !.terminating = b]
    BY <1>2, Zenon DEF MonitorScan, MonitorIs
  <2>2. h \in ToSet(hs) => \E n \in ToSet(processList) : node[n].handle = h /\ ~Ended(n)
    <3>1. q \in Seq(Pids) /\ DOMAIN q = DOMAIN processList
      <4>1. \A k \in DOMAIN processList : node[processList[k]].handle \in Pids
        BY ListedHandles DEF ToSet, IInv
      <4>2. Len(processList) \in Nat /\ DOMAIN processList = 1..Len(processList)
        BY <1>0
      <4> QED BY <4>1, <4>2
    <3>2. live \in SUBSET (DOMAIN q)
      BY <3>1
    <3>3. \A k \in live : /\ q[k] = node[processList[k]].handle /\ ~Ended(processList[k])
                          /\ processList[k] \in ToSet(processList)
      BY DEF Ended, ToSet
    <3> HIDE DEF q, live
    <3>4. \A i \in DOMAIN hs : \E k \in live : hs[i] = q[k]
      BY <3>1, <3>2, ChosenProperties
    <3> HIDE DEF hs
    <3> QED BY <3>3, <3>4 DEF ToSet
  <2> HIDE DEF hs, b
  <2>3. mon'.pc = "check" /\ mon'.handles = hs
    BY <2>1, <1>0 DEF MonitorState
  <2> QED BY <2>1, <2>2, <2>3, <1>2 DEF Announces, Watched, MonitorFinish, MonitorIs
<1>3. CASE MonitorCheck \/ MonitorSignal \/ MonitorWait \/ MonitorWakesForNewProcess
  <2>1. PICK pc \in {"signal", "wait", "asleep", "scan"} : mon' = [mon EXCEPT !.pc = pc]
    BY <1>3 DEF MonitorCheck, MonitorSignal, MonitorWait, MonitorWakesForNewProcess
  <2>2. mon'.pc = pc /\ mon'.handles = mon.handles /\ mon.pc \in {"check", "signal", "wait", "asleep"}
    BY <2>1, <1>0, <1>3 DEF MonitorCheck, MonitorSignal, MonitorWait, MonitorWakesForNewProcess,
                            MonitorIs, MonitorState
  <2> QED BY <2>2 DEF Announces, Watched, MonitorFinish, MonitorIs
<1>4. CASE MonitorWakesForExit
  <2>1. PICK k \in DOMAIN mon.handles : mon' = [mon EXCEPT !.pc = "reap", !.exited = mon.handles[k]]
    BY <1>4 DEF MonitorWakesForExit
  <2>2. mon'.pc = "reap" /\ mon'.exited = mon.handles[k] /\ mon.pc = "asleep"
    BY <2>1, <1>0, <1>4 DEF MonitorWakesForExit, MonitorIs, MonitorState
  <2> QED BY <2>2 DEF Announces, Watched, MonitorFinish, MonitorIs, ToSet
<1>5. CASE MonitorReap
  <2>0. mon.pc = "reap"
    BY <1>5 DEF MonitorReap, MonitorIs
  <2>1. CASE FindProcessById(mon.exited) = NoNode
    <3>1. mon' = [mon EXCEPT !.pc = "scan", !.exited = NoPid]
      BY <1>5, <2>1 DEF MonitorReap
    <3>2. mon'.pc = "scan"
      BY <1>0, <3>1 DEF MonitorState
    <3> QED BY <2>0, <3>2 DEF Announces, Watched, MonitorFinish, MonitorIs
  <2>2. CASE FindProcessById(mon.exited) # NoNode
    <3> DEFINE n == FindProcessById(mon.exited)
    <3>1. Reaps(n)
      BY <1>5, <2>2, ReapedNode
    <3> HIDE DEF n
    <3> QED BY <2>0, <3>1 DEF Reaps, Announces, Watched, MonitorFinish, MonitorIs, Has
  <2> QED BY <2>1, <2>2
<1>6. CASE MonitorDropDependencies \/ MonitorUnregister
  <2>1. /\ mon.pc \in {"drop", "unregister"} /\ mon'.pc \in {"unregister", "finish"}
        /\ mon'.backup = mon.backup
    BY <1>0, <1>6 DEF MonitorDropDependencies, MonitorUnregister, MonitorIs, MonitorState
  <2> QED BY <2>1 DEF Announces, Watched, MonitorFinish, MonitorIs
<1>7. CASE MonitorFinish
  <2>1. mon'.pc = "scan"
    BY <1>0, <1>7 DEF MonitorFinish, MonitorState
  <2> QED BY <2>1, <1>7 DEF Announces, Watched
<1>8. CASE ~Monitor
  <2>1. UNCHANGED mon
    BY <1>8 DEF Next, Main, Runner, TakeCommand, TakeTerminateApplication, TakeTerminate,
       TakePrepareForReboot, TakeUnregisterProcess, TakeLaunchTitle, TakeLaunchAppDebug, RunTask,
       FoundRunning, RunnerReady, RunnerTakesTask, Exit, vars, Terminate, ClearEvent, Arm,
       TerminateApplication, LoopBegin, LoopNext, LoopEnd, FindCaller, NotifyAll, NotifyLast, Commit,
       WaitUntilTimeout, WaitForever, WaitFor, Timeout, KillOverdue, Disarm, Panic, Launch,
       CheckLaunch, Load, LoadFails, Insert, Register, MergeOwn, MergeDependency, Merge, Mark,
       RunSucceeds, RunFails, Abandon, MarkDependency
  <2> QED BY <2>1, <1>1, <1>8 DEF Monitor
<1> QED BY <1>2, <1>3, <1>4, <1>5, <1>6, <1>7, <1>8 DEF Monitor

---------------------------------------------------------------------------
(* While a thread ends processes, nothing else is under way.                *)
LEMMA EndsAlone ==
  ASSUME Patient, Orders, NEW t \in Threads, loc[t].pc \in Ending
  PROVE  /\ ~parametersSet /\ loc["main"].pc # "runTask"
         /\ \A u \in Threads : ~Launches(u) /\ (loc[u].pc \in Ending => u = t)
<1>1. \A u \in Threads : ~Launches(u)
  <2> SUFFICES ASSUME NEW u \in Threads, Launches(u) PROVE FALSE
    OBVIOUS
  <2>1. loc[u].pc \notin Ending \cup {"idle", "top", "parameters"} /\ loc[t].pc \notin {"idle", "top", "parameters"}
    BY RoleFacts DEF Launches, Ending, LaunchPlaces
  <2> QED BY <2>1 DEF Orders, Single, RunnerRests, Threads
<1>2. loc[t].pc \notin {"idle", "top", "parameters", "runTask"}
  BY DEF Ending
<1>3. CASE t = "main"
  <2>1. RunnerRests /\ ~parametersSet
    BY <1>2, <1>3 DEF Orders, Single
  <2> QED BY <2>1, <1>1, <1>2, <1>3, RoleFacts DEF RunnerRests, Threads
<1>4. CASE t = "runner"
  <2>1. loc["main"].pc = "idle" /\ ~parametersSet
    BY <1>2, <1>4 DEF Orders, Single, RunnerRests, HandOverOK
  <2> QED BY <2>1, <1>1, <1>4, RoleFacts DEF Threads
<1> QED BY <1>3, <1>4 DEF Threads

(* A process of whose end somebody is to be told is run.                    *)
LEMMA HeardFacts ==
  ASSUME Patient, NotifiedStay, IInv, Orders, Care, Named, NEW t \in Threads, NEW n, Heard(t, n)
  PROVE  LET h == node[n].handle IN
         /\ Launches(t) /\ loc'[t] = Returned(t) /\ Firm(n) /\ h \in Pids
         /\ kern[h].st = "loaded" /\ kern'[h].st = "running" /\ kern'[h].title \notin Leaving
         /\ UNCHANGED <<mon, told, processList>> /\ n = loc[t].cur
<1>0. TypeOK /\ LocsOK
  BY DEF IInv, TypeOK, ControlOK, LocsOK, Threads
<1>1. /\ RunSucceeds(t) /\ loc[t].pc = "run" /\ loc[t].at = 0 /\ loc[t].req.notify /\ n = loc[t].cur
      /\ UNCHANGED <<mon, told, processList>>
  BY DEF Heard, RunSucceeds, At
<1>2. Launches(t) /\ OuterIn(t) /\ Careful(t)
  BY <1>1 DEF Launches, OuterIn, Starting, LaunchPlaces, Careful
<1>3. OuterOK(loc[t]) /\ n = loc[t].proc
  BY <1>1, <1>2 DEF Care, CareOf, OuterOK
<1>4. Firm(n) /\ kern[node[n].handle].st = "loaded" /\ node[n].handle \in Pids
  BY <1>3, FirmFacts DEF OuterOK
<1>5. kern[node[n].handle].title \notin Leaving
  <2>1. kern[node[n].handle].title = loc[t].req.title
    BY <1>2, <1>3 DEF Named, NamedOf
  <2>2. loc[t].req \in Requests /\ loc[t].req.op \in LaunchOps
    BY <1>2 DEF Orders, ReqOK
  <2> QED BY <2>1, <2>2, <1>1 DEF NotifiedStay
<1>6. kern' = [kern EXCEPT ![node[n].handle].st = "running"]
  BY <1>1 DEF RunSucceeds
<1>7. kern'[node[n].handle].st = "running" /\ kern'[node[n].handle].title = kern[node[n].handle].title
  BY <1>0, <1>4, <1>6 DEF TypeOK
<1>8. loc'[t] = Returned(t)
  BY <1>0, <1>1, RunLoc
<1> QED BY <1>1, <1>2, <1>4, <1>5, <1>7, <1>8

(* What the monitor cleans up after has ended.                              *)
LEMMA ReapedDead ==
  ASSUME Care, NEW n, Reaps(n)
  PROVE  Dead(node[n].handle) /\ mon.pc = "reap" /\ Watched(node[n].handle)
BY DEF Reaps, Care, ExitedOK, Watched

(* How often the end of a process has been announced                        *)
LEMMA ToldStep ==
  ASSUME Patient, IInv, Orders, Care, Divided, [Next]_vars, NEW p \in Pids
  PROVE  \/ told'[p] = told[p] /\ ~(MonitorFinish /\ Announces(p))
         \/ MonitorFinish /\ Announces(p) /\ told'[p] = told[p] + 1
         \/ \E t \in Threads : /\ Disarm(t) /\ loc[t].tell = p /\ told'[p] = told[p] + 1
                               /\ loc'[t] = Returned(t) /\ UNCHANGED mon
<1>0. /\ told \in [Pids -> Nat] /\ LocsOK /\ mon \in MonitorState
      /\ NoPid \notin Pids
  BY DEF IInv, TypeOK, ControlOK, LocsOK, Threads, Pids, NoPid
<1>1. CASE MonitorFinish
  <2> DEFINE h == mon.backup.handle
  <2>1. mon.pc = "finish" /\ told' = IF "notify" \in mon.backup.flags THEN [told EXCEPT ![h] = @ + 1] ELSE told
    BY <1>1 DEF MonitorFinish, MonitorIs
  <2>2. Announces(p) <=> h = p /\ "notify" \in mon.backup.flags
    BY <2>1 DEF Announces
  <2> QED BY <1>0, <1>1, <2>1, <2>2
<1>2. CASE \E t \in Threads : Disarm(t)
  <2>1. PICK t \in Threads : Disarm(t)
    BY <1>2
  <2>2. Terminate(t) /\ loc[t].pc = "disarm" /\ UNCHANGED mon
    BY <2>1 DEF Terminate, Disarm, At
  <2>3. loc[t].req.op # "Reboot"
    BY <2>2 DEF Divided, Ending, EndOps, Threads
  <2>4. loc'[t] = Returned(t)
    BY <1>0, <2>1, <2>2, <2>3, EndMoves
  <2>5. told' = IF loc[t].tell = NoPid THEN told ELSE [told EXCEPT ![loc[t].tell] = @ + 1]
    BY <2>1 DEF Disarm
  <2>6. ~MonitorFinish
    <3>1. loc'[t] # loc[t]
      BY <2>2, <2>4, ReturnedFacts, RoleFacts DEF Ending
    <3> QED BY <3>1 DEF MonitorFinish
  <2> QED BY <1>0, <2>1, <2>2, <2>4, <2>5, <2>6
<1>3. CASE ~MonitorFinish /\ ~(\E t \in Threads : Disarm(t))
  <2>1. UNCHANGED told
    <3>1. CASE TakeCommand \/ RunTask \/ FoundRunning \/ RunnerReady \/ RunnerTakesTask
               \/ (\E q \in Pids : Exit(q)) \/ UNCHANGED vars
      BY <3>1 DEF TakeCommand, TakeTerminateApplication, TakeTerminate, TakePrepareForReboot,
         TakeUnregisterProcess, TakeLaunchTitle, TakeLaunchAppDebug, RunTask, FoundRunning,
         RunnerReady, RunnerTakesTask, Exit, vars
    <3>2. CASE \E t \in Threads : Terminate(t)
      BY <3>2, <1>3 DEF Terminate, ClearEvent, Arm, TerminateApplication, LoopBegin, LoopNext, LoopEnd,
         FindCaller, NotifyAll, NotifyLast, Commit, WaitUntilTimeout, WaitForever, WaitFor, Timeout,
         KillOverdue, Panic
    <3>3. CASE \E t \in Threads : Launch(t)
      BY <3>3 DEF Launch, CheckLaunch, Load, LoadFails, Insert, Register, MergeOwn, MergeDependency,
         Merge, Mark, RunSucceeds, RunFails, Abandon, MarkDependency, Panic
    <3>4. CASE Monitor
      BY <3>4, <1>3 DEF Monitor, MonitorScan, MonitorCheck, MonitorSignal, MonitorWait,
         MonitorWakesForNewProcess, MonitorWakesForExit, MonitorReap, MonitorDropDependencies,
         MonitorUnregister
    <3> QED BY <3>1, <3>2, <3>3, <3>4 DEF Next, Main, Runner, Threads
  <2> QED BY <2>1, <1>3
<1> QED BY <1>1, <1>2, <1>3

(* A process that is awaited and has not been asked to end goes on.         *)
LEMMA VoiceKern ==
  ASSUME Patient, IInv, Orders, Care, ~preparingForReboot, [Next]_vars,
         NEW n, Awaited(n), VoiceOK(n), node[n].status = "running"
  PROVE  kern'[node[n].handle] = kern[node[n].handle]
<1> DEFINE h == node[n].handle
<1>0. TypeOK /\ ListSound /\ LocsOK /\ n \in ToSet(processList)
  BY DEF IInv, TypeOK, ControlOK, LocsOK, Threads, Awaited
<1>1. h \in Pids /\ kern[h].st = "running" /\ kern[h].title \notin Leaving
  BY <1>0, ListedHandles DEF VoiceOK
<1>2. h \notin HandlesOf(NodesOf("failed") \cup NodesOf("sent"))
  BY <1>0 DEF ListSound, HandlesOf, NodesOf
<1>3. ~Exit(h)
  <2>1. ~AskedToEnd(h)
    BY <1>0 DEF AskedToEnd, ListSound
  <2> QED BY <2>1, <1>1 DEF Exit
<1>4. ASSUME NEW t \in Threads, RunFails(t), h = node[loc[t].cur].handle PROVE FALSE
  <2>1. loc[t].pc = "run" /\ OuterIn(t) /\ Careful(t) /\ (loc[t].at # 0 => CurIn(t))
    BY <1>4 DEF RunFails, At, OuterIn, Starting, LaunchPlaces, Careful, CurIn
  <2>2. OuterOK(loc[t]) /\ (loc[t].at # 0 => CurOK(loc[t]))
    BY <2>1 DEF Care, CareOf
  <2> QED BY <1>1, <1>4, <2>1, <2>2 DEF OuterOK, CurOK
<1>5. ASSUME NEW t \in Threads, Abandon(t), h = node[loc[t].proc].handle PROVE FALSE
  <2>1. OuterIn(t) /\ Careful(t)
    BY <1>5 DEF Abandon, At, OuterIn, Starting, LaunchPlaces, Careful
  <2>2. OuterOK(loc[t])
    BY <2>1 DEF Care, CareOf
  <2> QED BY <1>1, <1>5, <2>2 DEF OuterOK
<1> HIDE DEF h
<1> QED BY <1>1, <1>2, <1>3, <1>4, <1>5, KernCases DEF h

(* Nobody takes the announcement of a process over that is still awaited.   *)
LEMMA TellStays ==
  ASSUME Patient, IInv, Divided, [Next]_vars, NEW n, n \in ToSet(processList), Awaited(n)',
         node'[n].handle = node[n].handle, \A t \in Threads : loc[t].tell # node[n].handle
  PROVE  \A t \in Threads : loc'[t].tell # node[n].handle
<1> SUFFICES ASSUME NEW t \in Threads PROVE loc'[t].tell # node[n].handle
  OBVIOUS
<1>0. TypeOK /\ ListSound /\ LocsOK /\ n \in Nodes /\ node[n].handle \in Pids
  BY ListedHandles DEF IInv, TypeOK, ControlOK, LocsOK, Threads
<1>1. NoPid # node[n].handle
  BY <1>0 DEF NoPid, Pids
<1>2. CASE LoopNext(t)
  <2>1. PICK m \in ToSet(processList) :
          /\ "notify" \notin node'[m].flags
          /\ loc'[t].tell = IF "notify" \in node[m].flags THEN node[m].handle ELSE loc[t].tell
    BY <1>0, <1>2, LoopFacts
  <2>2. node[m].handle # node[n].handle
    BY <1>0, <2>1 DEF ListSound, Awaited
  <2> QED BY <2>1, <2>2
<1>3. CASE Rests(loc[t], loc'[t]) \/ GoesOn(loc[t], loc'[t]) \/ Asked(t) \/ Tasked(t)
  BY <1>1, <1>3 DEF Rests, GoesOn, Asked, Tasked
<1> QED BY <1>2, <1>3, Moves

---------------------------------------------------------------------------
(* Each process that is awaited                                             *)

LEMMA SameNode ==
  ASSUME ListSound, NEW n \in ToSet(processList), NEW m \in ToSet(processList), node[n].handle = node[m].handle
  PROVE  n = m
BY DEF ListSound

(* What has been loaded and what has begun stay so, and nobody but the      *)
(* monitor finds that a process has ended.                                  *)
LEMMA VoiceStep ==
  ASSUME Patient, NotifiedStay, IInv, Orders, Care, Telling, ~preparingForReboot, [Next]_vars,
         NEW n, Awaited(n)'
  PROVE  VoiceOK(n)'
<1>h. PICK h : h = node[n].handle
  OBVIOUS
<1>0. /\ TypeOK /\ ListSound /\ LocsOK /\ Voices /\ Tellers /\ ToldOK /\ Named /\ SlotUnheard /\ Divided
      /\ told \in [Pids -> Nat]
  BY DEF IInv, TypeOK, ControlOK, LocsOK, Threads, Telling
<1>1. /\ n \in ToSet(processList) /\ n \in Nodes /\ node[n].handle = h /\ node'[n].handle = h
      /\ \/ Awaited(n) /\ Hushed(node[n], node'[n])
         \/ Awaited(n) /\ Reaps(n)
         \/ Awaited(n) /\ \E t \in Threads : AsksApp(t, n)
         \/ \E t \in Threads : Heard(t, n)
  BY <1>0, <1>h, AwaitedStep
<1>2. h \in Pids /\ \A m \in ToSet(processList) : node[m].handle = h => m = n
  BY <1>0, <1>1, ListedHandles, SameNode
<1>3. Begins(kern[h]) => Begins(kern'[h])
  <2>1. kern[h].st \notin {"none", "loaded"} => kern'[h].st \notin {"none", "loaded"}
    BY <1>2, KernGoesOn
  <2>2. kern' \in KernType
    BY KernStep DEF IInv, Grown
  <2> QED BY <1>2, <2>1, <2>2 DEF Begins, KernType
<1>4. Awaited(n) =>
        /\ VoiceOK(n)
        /\ "autoloaded" \notin node[n].flags /\ Begins(kern[h])
        /\ ~Ended(n) => told[h] = 0 /\ ~Announces(h)
        /\ Ended(n) => ~Watched(h) /\ (told[h] > 0 \/ Announces(h))
        /\ \A t \in Threads : loc[t].tell # h
        /\ node[n].status = "running" => kern[h].st = "running" /\ kern[h].title \notin Leaving
  BY <1>0, <1>h DEF Voices, VoiceOK
<1>5. (\A t \in Threads : loc[t].tell # h) => (\A t \in Threads : loc'[t].tell # h)
  BY <1>0, <1>1, <1>h, TellStays
<1>6. \/ told'[h] = told[h] /\ ~(MonitorFinish /\ Announces(h))
      \/ MonitorFinish /\ Announces(h) /\ told'[h] = told[h] + 1
      \/ \E t \in Threads : loc[t].tell = h
  BY <1>0, <1>2, ToldStep
<1>7. /\ Announces(h)' => Announces(h) \/ Reaps(n)
      /\ Announces(h) => Announces(h)' \/ MonitorFinish
      /\ Watched(h)' => Watched(h) \/ ~Ended(n)
  BY <1>2, AnnounceStep
<1> SUFFICES /\ "autoloaded" \notin node'[n].flags /\ Begins(kern'[h])
             /\ node'[n].status = "running" => kern'[h].st = "running" /\ kern'[h].title \notin Leaving
             /\ ~Ended(n)' => told'[h] = 0 /\ ~Announces(h)'
             /\ Ended(n)' => ~Watched(h)' /\ (told'[h] > 0 \/ Announces(h)')
             /\ \A t \in Threads : loc'[t].tell # h
  <2>1. Ended(n)' <=> node'[n].status = "terminated"
    BY DEF Ended
  <2>2. /\ Announces(h)' <=> Announces(node[n].handle)'
        /\ Watched(h)' <=> Watched(node[n].handle)'
    BY <1>1 DEF Announces, Watched
  <2> QED BY <1>1, <2>1, <2>2 DEF VoiceOK
<1>8. CASE Awaited(n) /\ Hushed(node[n], node'[n])
  <2>1. "autoloaded" \notin node'[n].flags /\ node'[n].status = node[n].status
    BY <1>4, <1>8 DEF Hushed, Awaited
  <2>2. node[n].status = "running" => kern'[h] = kern[h]
    BY <1>4, <1>8, <1>h, VoiceKern
  <2>3. Ended(n)' <=> Ended(n)
    BY <2>1 DEF Ended
  <2>4. ~Reaps(n) \/ Ended(n)'
    <3>1. Reaps(n) => node'[n].status = "terminated"
      BY <1>0, <1>1 DEF Reaps, TypeOK
    <3> QED BY <3>1 DEF Ended
  <2>5. told[h] \in Nat
    BY <1>0, <1>2
  <2>6. ~Ended(n) => told'[h] = 0 /\ ~Announces(h)'
    BY <1>4, <1>6, <1>7, <1>8, <2>3, <2>4
  <2>7. Ended(n) => ~Watched(h)' /\ (told'[h] > 0 \/ Announces(h)')
    BY <1>4, <1>6, <1>7, <1>8, <2>5
  <2> QED BY <1>3, <1>4, <1>5, <1>8, <2>1, <2>2, <2>3, <2>6, <2>7
<1>9. CASE Awaited(n) /\ Reaps(n)
  <2>1. /\ node'[n] = mon'.backup /\ mon'.backup.handle = h /\ mon'.backup.status = "terminated"
        /\ "autoloaded" \notin mon'.backup.flags /\ "notify" \in mon'.backup.flags
        /\ mon'.pc \in {"drop", "unregister"}
    BY <1>0, <1>1, <1>4, <1>9 DEF Reaps, TypeOK, Awaited
  <2>2. Ended(n)' /\ ~Watched(h)' /\ Announces(h)'
    BY <2>1 DEF Ended, Watched, Announces
  <2> QED BY <1>3, <1>4, <1>5, <1>9, <2>1, <2>2
<1>10. CASE Awaited(n) /\ \E t \in Threads : AsksApp(t, n)
  <2>1. PICK t \in Threads : AsksApp(t, n)
    BY <1>10
  <2>2. /\ TerminateApplication(t) /\ n = running /\ node'[n].flags \subseteq node[n].flags
        /\ node'[n].status \in {"sent", "failed"} /\ UNCHANGED <<told, mon>>
        /\ loc[t].pc = "notify" /\ loc[t].req.op = "TerminateApplication"
    BY <2>1 DEF AsksApp, TerminateApplication, At
  <2>3. ~Ended(n)
    BY <1>0, <1>10, <2>2 DEF SlotUnheard, Arming, Ended
  <2>4. ~Ended(n)' /\ (Announces(h)' <=> Announces(h))
    BY <2>2 DEF Ended, Announces
  <2> QED BY <1>3, <1>4, <1>5, <1>10, <2>2, <2>3, <2>4
<1>11. CASE \E t \in Threads : Heard(t, n)
  <2>1. PICK t \in Threads : Heard(t, n)
    BY <1>11
  <2>2. /\ Firm(n) /\ kern[h].st = "loaded" /\ kern'[h].st = "running" /\ kern'[h].title \notin Leaving
        /\ UNCHANGED <<mon, told>>
    BY <1>0, <1>h, <2>1, HeardFacts
  <2>3. /\ node'[n].flags = node[n].flags \cup {"notify"} /\ node'[n].status = "running"
        /\ "autoloaded" \notin node[n].flags
    BY <2>1, <2>2 DEF Heard, Firm, Unasked
  <2>4. told[h] = 0
    BY <1>0, <1>2, <2>2 DEF ToldOK, Begins
  <2>5. ~Announces(h)
    BY <2>2 DEF Announces, Care, ExitedOK, Dead
  <2>6. \A u \in Threads : loc[u].tell # h
    BY <1>0, <1>2, <2>2 DEF Tellers, TellerOK, Begins, NoPid, Pids
  <2>7. ~Ended(n)' /\ ~Announces(h)'
    BY <2>2, <2>3, <2>5 DEF Ended, Announces
  <2> QED BY <1>5, <2>2, <2>3, <2>4, <2>6, <2>7 DEF Begins
<1> QED BY <1>1, <1>8, <1>9, <1>10, <1>11

---------------------------------------------------------------------------
(* Who announces an end, and how often it has been announced                *)

(* An awaited process that the monitor finds dead had not ended before.     *)
LEMMA FirstReaped ==
  ASSUME ListSound, Care, Voices, NEW n \in ToSet(processList), Reaps(n), Has(n, "notify")
  PROVE  /\ Awaited(n) /\ VoiceOK(n) /\ ~Ended(n) /\ told[node[n].handle] = 0
         /\ node[n].status # "running"
<1>1. Awaited(n) /\ VoiceOK(n)
  BY DEF Awaited, Has, Voices
<1>2. Dead(node[n].handle) /\ Watched(node[n].handle)
  BY ReapedDead
<1> QED BY <1>1, <1>2 DEF VoiceOK, Dead

LEMMA BeginsStays ==
  ASSUME IInv, [Next]_vars, NEW p \in Pids, Begins(kern[p])
  PROVE  Begins(kern'[p])
<1>1. kern'[p].st \notin {"none", "loaded"}
  BY KernGoesOn DEF Begins
<1>2. kern' \in KernType
  BY KernStep DEF IInv, Grown
<1> QED BY <1>1, <1>2 DEF Begins, KernType

LEMMA TellerStep ==
  ASSUME Patient, IInv, Orders, Care, Telling, [Next]_vars, NEW t \in Threads
  PROVE  TellerOK(loc[t])'
<1>p. PICK p : p = loc'[t].tell
  OBVIOUS
<1> SUFFICES ASSUME p # NoPid
             PROVE  /\ loc'[t].pc \in Ending /\ p \in Pids /\ Begins(kern'[p])
                    /\ told'[p] = 0 /\ ~Announces(p)'
  <2>1. Announces(p)' <=> Announces(loc[t].tell)'
    BY <1>p DEF Announces
  <2> QED BY <2>1, <1>p DEF TellerOK
<1>0. /\ TypeOK /\ ListSound /\ LocsOK /\ Voices /\ Tellers /\ ToldOK /\ Unhurried /\ Divided
      /\ told \in [Pids -> Nat]
  BY DEF IInv, TypeOK, ControlOK, LocsOK, Threads, Telling
<1>1. loc[t].tell = p => /\ loc[t].pc \in Ending /\ p \in Pids /\ Begins(kern[p])
                         /\ told[p] = 0 /\ ~Announces(p)
  BY <1>0 DEF Tellers, TellerOK
<1>2. CASE Rests(loc[t], loc'[t]) \/ Asked(t) \/ Tasked(t)
  <2>1. loc[t].tell = p /\ loc[t].pc \notin Ending
    BY <1>p, <1>2, RoleFacts DEF Rests, Asked, Tasked
  <2> QED BY <1>1, <2>1
<1>3. CASE GoesOn(loc[t], loc'[t])
  <2>1. loc[t].tell = p /\ loc[t].pc \in Ending /\ loc'[t].pc \in Ending
    BY <1>p, <1>3 DEF GoesOn
  <2>2. ~\E u \in Threads : loc[u].tell = p /\ Disarm(u) /\ loc'[u] = Returned(u)
    <3> SUFFICES ASSUME NEW u \in Threads, loc[u].tell = p, Disarm(u), loc'[u] = Returned(u) PROVE FALSE
      OBVIOUS
    <3>1. loc[u].pc \in Ending
      BY DEF Disarm, At, Ending
    <3>2. u = t
      BY <2>1, <3>1, EndsAlone
    <3> QED BY <3>2, <1>p, ReturnedFacts
  <2>3. told'[p] = 0
    BY <1>1, <2>1, <2>2, <1>0, ToldStep
  <2>4. ~Announces(p)'
    <3> SUFFICES ASSUME NEW n \in ToSet(processList), Reaps(n), node[n].handle = p, Has(n, "notify")
                 PROVE  FALSE
      BY <1>1, <2>1, AnnounceStep
    <3>1. VoiceOK(n)
      BY <1>0, FirstReaped
    <3> QED BY <3>1, <2>1 DEF VoiceOK
  <2> QED BY <1>1, <2>1, <2>3, <2>4, BeginsStays
<1>4. CASE LoopNext(t)
  <2>1. PICK m \in ToSet(processList) :
          /\ Wanted(loc[t].req, m) /\ loc[t].pc = "loop" /\ loc'[t].pc = "loop"
          /\ p = IF "notify" \in node[m].flags THEN node[m].handle ELSE loc[t].tell
    BY <1>0, <1>4, <1>p, LoopFacts
  <2>2. UNCHANGED <<told, mon, kern>>
    BY <1>4 DEF LoopNext, kernelVars
  <2>3. CASE "notify" \in node[m].flags
    <3>1. Awaited(m) /\ VoiceOK(m) /\ p \in Pids /\ p = node[m].handle
      BY <1>0, <2>1, <2>3, ListedHandles DEF Voices, Awaited
    <3>2. loc[t].req.op \in EndOps
      <4>1. loc[t].pc \in Ending
        BY <2>1 DEF Ending
      <4> QED BY <4>1, <2>1, <1>0 DEF Divided, Threads
    <3>3. ~Ended(m)
      BY <1>0, <2>1, <3>1, <3>2 DEF Unhurried, Unheard, Ended
    <3>4. Begins(kern[p]) /\ told[p] = 0 /\ ~Announces(p)
      BY <3>1, <3>3 DEF VoiceOK
    <3> QED BY <2>1, <2>2, <3>1, <3>4 DEF Ending, Announces
  <2>4. CASE "notify" \notin node[m].flags
    BY <1>1, <2>1, <2>2, <2>4 DEF Ending, Announces
  <2> QED BY <2>3, <2>4
<1> QED BY <1>0, <1>2, <1>3, <1>4, Moves

LEMMA ToldOKStep ==
  ASSUME Patient, IInv, Orders, Care, Telling, [Next]_vars
  PROVE  ToldOK'
<1> SUFFICES ASSUME NEW p \in Pids
             PROVE  told'[p] <= 1 /\ (told'[p] > 0 => Begins(kern'[p]) /\ ~Announces(p)')
  BY DEF ToldOK
<1>0. /\ ListSound /\ Voices /\ Tellers /\ Divided /\ told[p] \in Nat
      /\ told[p] <= 1 /\ (told[p] > 0 => Begins(kern[p]) /\ ~Announces(p))
  BY DEF IInv, TypeOK, Telling, ToldOK
<1>1. CASE told'[p] = told[p] /\ ~(MonitorFinish /\ Announces(p))
  <2> SUFFICES ASSUME told[p] > 0, Announces(p)' PROVE FALSE
    BY <1>0, <1>1, BeginsStays
  <2>1. PICK n \in ToSet(processList) : Reaps(n) /\ node[n].handle = p /\ Has(n, "notify")
    BY <1>0, AnnounceStep
  <2>2. told[p] = 0
    BY <1>0, <2>1, FirstReaped
  <2> QED BY <2>2
<1>2. CASE MonitorFinish /\ Announces(p) /\ told'[p] = told[p] + 1
  <2>1. told[p] = 0 /\ ~Announces(p)'
    BY <1>0, <1>2, AnnounceStep
  <2>2. Begins(kern[p])
    BY <1>2 DEF Announces, Care, ExitedOK, Dead, Begins
  <2> QED BY <1>2, <2>1, <2>2, BeginsStays
<1>3. CASE \E t \in Threads : Disarm(t) /\ loc[t].tell = p /\ told'[p] = told[p] + 1 /\ UNCHANGED mon
  <2>1. p # NoPid
    BY DEF Pids, NoPid
  <2>2. told[p] = 0 /\ Begins(kern[p]) /\ ~Announces(p)
    BY <1>0, <1>3, <2>1 DEF Tellers, TellerOK
  <2>3. ~Announces(p)'
    BY <1>3, <2>2 DEF Announces
  <2> QED BY <1>3, <2>2, <2>3, BeginsStays
<1> QED BY <1>0, <1>1, <1>2, <1>3, ToldStep

---------------------------------------------------------------------------
(* What the launches know, and who ends what                                *)

(* A launch looks for the title it was asked for.                           *)
LEMMA TitleSought ==
  ASSUME IInv, NEW t \in Threads, NamedOf(t), Launch(t), loc'[t].pc \in {"load", "insert"}, loc'[t].at = 0
  PROVE  loc'[t].title = loc'[t].req.title
<1>0. TypeOK /\ LocsOK /\ loc[t] \in Thread
  BY DEF IInv, TypeOK, ControlOK, LocsOK, Threads
<1>1. loc'[t] # Returned(t)
  BY ReturnedFacts, RoleFacts
<1>2. ASSUME NEW d \in Thread, loc'[t] = Onward(d) PROVE FALSE
  BY <1>2, OnwardFacts
<1>3. CASE CheckLaunch(t)
  BY <1>0, <1>1, <1>3, CheckLoc DEF SameTask
<1>4. CASE Load(t)
  BY <1>0, <1>4, LoadLoc DEF SameTask, NamedOf
<1>5. CASE LoadFails(t)
  BY <1>0, <1>1, <1>2, <1>5, LoadFailsLoc
<1>6. CASE Mark(t)
  BY <1>0, <1>2, <1>6, MarkLoc
<1>7. CASE MergeDependency(t) /\ ~Panic
  <2> DEFINE a == Merged(t)
             d == [loc[t] EXCEPT !.array = a]
  <2>1. loc[t].pc = "mergeDep" /\ loc'[t] = Onward(d)
    BY <1>0, <1>7, MergeDepLoc
  <2>2. loc[t].title \in Titles
    BY <1>0, <2>1 DEF LocsOK, PlaceOK, LaunchPlaces
  <2>3. a \in Seq(Dependency)
    BY <1>0, <2>2, MergedTyped
  <2> HIDE DEF a
  <2>4. d \in Thread
    BY <1>0, <2>3 DEF Thread
  <2> QED BY <2>1, <2>4, <1>2
<1>8. CASE Panic
  BY <1>8 DEF Panic, NamedOf
<1>9. CASE Enters(t) \/ Register(t) \/ (MergeOwn(t) /\ ~Panic) \/ (MarkDependency(t) /\ ~Panic)
  BY <1>0, <1>9, InsertLoc, RegisterLoc, MergeOwnLoc, MarkDepLoc
<1>10. CASE RunSucceeds(t) \/ RunFails(t)
  BY <1>0, <1>1, <1>10, RunLoc
<1>11. CASE Abandon(t)
  BY <1>0, <1>1, <1>11, AbandonLoc
<1>12. Insert(t) => Enters(t) \/ Panic
  BY DEF Insert, Enters
<1> QED BY <1>3, <1>4, <1>5, <1>6, <1>7, <1>8, <1>9, <1>10, <1>11, <1>12 DEF Launch

LEMMA NamedStep ==
  ASSUME Patient, DepsStay, NotifiedStay, IInv, Orders, Care, Telling, [Next]_vars, NEW t \in Threads
  PROVE  NamedOf(t)'
<1>0. /\ TypeOK /\ ListSound /\ LocsOK /\ Voices /\ Named /\ Divided /\ NamedOf(t)
      /\ node \in [Nodes -> ProcessData] /\ Orderly /\ ControlOK
  BY DEF IInv, TypeOK, ControlOK, LocsOK, Threads, Telling, Named, Orderly
<1>c. Careful(t) /\ Careful(t)'
  BY DEF Careful
<1>1. ~Launch(t) => loc'[t] = loc[t] \/ ~Starting(t)'
  BY <1>0, LocRest
<1>2. loc'[t].pc \in {"load", "insert"} /\ loc'[t].at = 0 => loc'[t].title = loc'[t].req.title
  <2>1. CASE Launch(t)
    BY <2>1, <1>0, TitleSought
  <2>2. CASE loc'[t] = loc[t]
    BY <2>2, <1>0 DEF NamedOf
  <2>3. CASE ~Starting(t)'
    BY <2>3 DEF Starting, LaunchPlaces
  <2> QED BY <1>1, <2>1, <2>2, <2>3
<1>3. ASSUME OuterIn(t)'
      PROVE  kern'[node'[loc'[t].proc].handle].title = loc'[t].req.title
  <2>1. \/ OuterIn(t) /\ loc'[t].proc = loc[t].proc /\ loc'[t].req = loc[t].req
        \/ Enters(t) /\ loc[t].at = 0
    <3>1. CASE Launch(t)
      <4>1. loc'[t] # Returned(t)
        BY <1>3, ReturnedFacts, RoleFacts DEF OuterIn, Starting
      <4>2. loc'[t].req = loc[t].req
        BY <4>1, <3>1, <1>0, LaunchLoc
      <4> QED BY <4>2, <3>1, <1>3, LaunchKeeps
    <3>2. CASE ~Launch(t)
      <4>1. loc'[t] = loc[t]
        BY <3>2, <1>1, <1>3 DEF OuterIn
      <4> QED BY <4>1, <1>3 DEF OuterIn, Starting
    <3> QED BY <3>1, <3>2
  <2>2. CASE OuterIn(t) /\ loc'[t].proc = loc[t].proc /\ loc'[t].req = loc[t].req
    <3> DEFINE n == loc[t].proc
    <3>1. Firm(n)
      BY <2>2, <1>c DEF Care, CareOf, OuterOK
    <3>2. /\ n \in Nodes /\ n \in ToSet(processList) /\ node[n].handle \in Pids
          /\ kern[node[n].handle].st \in {"loaded", "running"}
      BY <3>1, FirmFacts
    <3>p. PICK p \in Pids : p = node[n].handle
      BY <3>2
    <3>3. node'[n].handle = node[n].handle
      <4>1. CASE Kept(node, node')
        BY <4>1, <3>2 DEF Kept, SameProcess
      <4>2. CASE \E u \in Threads : Enters(u)
        <5>1. PICK u \in Threads : Enters(u)
          BY <4>2
        <5>2. node' = [node EXCEPT ![Head(freeList)] = Process(loc[u].pid, loc[u].title, {})]
          BY <5>1 DEF Enters, Insert, ProcessList_New
        <5>3. n # Head(freeList)
          BY <5>1, <3>2, <1>0, EnteredLists
        <5> QED BY <5>2, <5>3, <3>2, <1>0
      <4> QED BY <4>1, <4>2, <1>0, NodesStep
    <3>4. kern'[p].title = kern[p].title
      BY <3>2, <3>p, KernGoesOn
    <3>5. kern[p].title = loc[t].req.title
      BY <2>2, <3>p, <1>0 DEF NamedOf
    <3> QED BY <2>2, <3>p, <3>3, <3>4, <3>5
  <2>3. CASE Enters(t) /\ loc[t].at = 0
    <3> DEFINE h == Head(freeList)
    <3>1. /\ loc[t].pc = "insert" /\ loc'[t].proc = h /\ loc'[t].req = loc[t].req
          /\ h \in Nodes /\ UNCHANGED kern
      <4>1. UNCHANGED kern
        BY <2>3 DEF Enters, Insert, Panic, kernelVars
      <4> QED BY <4>1, <2>3, <1>0, InsertLoc, EnteredLists
    <3>2. node' = [node EXCEPT ![h] = Process(loc[t].pid, loc[t].title, {})]
      BY <2>3 DEF Enters, Insert, ProcessList_New
    <3>3. loc[t].pid \in Pids /\ loc[t].title \in Titles
      BY <3>1, <1>0 DEF LocsOK, PlaceOK, LaunchPlaces
    <3>4. Process(loc[t].pid, loc[t].title, {}).handle = loc[t].pid
      BY <3>3, ProcessTyped
    <3>5. node'[h].handle = loc[t].pid
      BY <3>1, <3>2, <3>4, <1>0
    <3>6. kern[loc[t].pid].title = loc[t].title /\ loc[t].title = loc[t].req.title
      BY <2>3, <3>1, <1>0 DEF Care, LoadedOK, LoadedOf, Entering, NamedOf
    <3> QED BY <3>1, <3>5, <3>6
  <2> QED BY <2>1, <2>2, <2>3
<1>4. ASSUME loc'[t].pc = "markDep", "notify" \in node'[loc'[t].cur].flags
      PROVE  FALSE
  <2>1. Care' /\ LocsOK'
    <3>1. Care'
      BY <1>0, CaringStep
    <3>2. IInv'
      BY InductiveStep
    <3> QED BY <3>1, <3>2 DEF IInv, TypeOK, ControlOK, LocsOK, Threads
  <2>2. CurIn(t)'
    BY <1>4, <2>1 DEF CurIn, LocsOK, PlaceOK
  <2>3. OuterIn(t)'
    BY <1>4 DEF OuterIn, Starting, LaunchPlaces
  <2>n. PICK n : n = loc'[t].cur
    OBVIOUS
  <2>4. n \in ToSet(processList') /\ Awaited(n)'
    BY <2>1, <2>2, <1>c, <1>4, <2>n DEF Care, CareOf, CurOK, Firm, Listed, Awaited
  <2>5. CurIn(t) /\ n = loc[t].cur
    <3>1. CASE Launch(t)
      <4>1. ~Enters(t)
        BY <1>4, <1>0, InsertLoc
      <4> QED BY <4>1, <3>1, <2>2, <2>n, LaunchKeeps
    <3>2. CASE ~Launch(t)
      <4>1. loc'[t] = loc[t]
        BY <3>2, <1>1, <2>3 DEF OuterIn
      <4> QED BY <4>1, <2>2, <2>n DEF CurIn
    <3> QED BY <3>1, <3>2
  <2>6. /\ CurOK(loc[t]) /\ Launches(t)
    BY <2>5, <1>c DEF Care, CareOf, CurIn, Launches, LaunchPlaces
  <2>7. ~Awaited(n)
    <3>1. loc[t].pc \in {"register", "run"} => kern[node[n].handle].st = "loaded"
      BY <2>5, <2>6 DEF CurOK
    <3>2. Awaited(n) => Begins(kern[node[n].handle])
      BY <1>0 DEF Voices, VoiceOK
    <3>3. loc[t].pc = "markDep" => "notify" \notin node[n].flags
      BY <2>5, <1>0 DEF NamedOf
    <3> QED BY <2>5, <3>1, <3>2, <3>3 DEF CurIn, Begins, Awaited
  <2>8. PICK u \in Threads : Heard(u, n)
    BY <1>0, <2>4, <2>7, AwaitedStep
  <2>9. Launches(u) /\ loc'[u] = Returned(u)
    BY <1>0, <2>8, HeardFacts
  <2>10. u = t
    BY <2>6, <2>9, OnlyOne
  <2> QED BY <2>9, <2>10, <1>4, ReturnedFacts, RoleFacts
<1> QED BY <1>2, <1>3, <1>4 DEF NamedOf

(* What becomes of a task, in main's hands and in the runner's slot         *)
LEMMA QueueStep ==
  ASSUME IInv, [Next]_vars
  PROVE  /\ parametersSet' => \/ parametersSet /\ task' = task
                              \/ loc["main"].pc = "runTask" /\ task' = loc["main"].req
         /\ loc'["main"].pc = "runTask" => \/ loc'["main"] = loc["main"]
                                           \/ TakeCommand
<1>0. LocsOK /\ "main" \in Threads /\ "runner" \in Threads
  BY DEF IInv, TypeOK, ControlOK, LocsOK, Threads
<1>1. CASE TakeCommand
  BY <1>1, <1>0, TakeLoc DEF taskVars
<1>2. CASE RunTask
  BY <1>2, <1>0, ReturnsFacts, RoleFacts DEF RunTask, At
<1>3. CASE RunnerReady \/ RunnerTakesTask
  <2>1. loc'["main"] = loc["main"]
    BY <1>3, <1>0, GoesFacts DEF RunnerReady, RunnerTakesTask, Others, LocsOK, Threads
  <2> QED BY <1>3, <2>1 DEF RunnerReady, RunnerTakesTask
<1>4. CASE UNCHANGED vars
  BY <1>4 DEF vars, taskVars
<1>5. CASE (\E t \in Threads : Terminate(t) \/ Launch(t)) \/ Monitor \/ (\E p \in Pids : Exit(p)) \/ FoundRunning
  <2>1. UNCHANGED <<parametersSet, task>>
    BY <1>5, TasksRest
  <2>2. loc'["main"].pc = "runTask" => loc'["main"] = loc["main"]
    <3>1. Returned("main").pc # "runTask"
      BY ReturnedFacts, RoleFacts
    <3>2. "runTask" \notin Ending \cup LaunchPlaces
      BY RoleFacts
    <3>3. ASSUME NEW t \in Threads, Terminate(t) \/ Launch(t), loc'["main"].pc = "runTask"
          PROVE  loc'["main"] = loc["main"]
      <4>1. CASE t = "main"
        BY <4>1, <3>1, <3>2, <3>3, <1>0, EndLoc, LaunchLoc
      <4>2. CASE t # "main"
        BY <4>2, <3>3, <1>0, EndLoc, LaunchLoc DEF Others
      <4> QED BY <4>1, <4>2
    <3>4. Monitor => loc'["main"] = loc["main"] \/ loc'["main"].pc = "disarm"
      BY <1>0, MonitorLoc
    <3>5. FoundRunning => loc'["main"] = Returned("main")
      BY <1>0, ReturnsFacts DEF FoundRunning
    <3>6. (\E p \in Pids : Exit(p)) => UNCHANGED loc
      BY DEF Exit
    <3> QED BY <1>5, <3>1, <3>3, <3>4, <3>5, <3>6
  <2> QED BY <2>1, <2>2
<1> QED BY <1>0, <1>1, <1>2, <1>3, <1>4, <1>5 DEF Next, Main, Runner

LEMMA TakenTask ==
  ASSUME LocsOK, TakeCommand, loc'["main"].pc = "runTask"
  PROVE  LET r == loc'["main"].req
         IN  \/ r.op = "Reboot" /\ preparingForReboot'
             \/ r.op \in EndOps /\ StillWanted(r) /\ UNCHANGED node
             \/ r.op = "LaunchTitle"
<1>0. loc["main"].pc = "idle" /\ loc' # loc
  BY TakeLoc
<1>1. ASSUME NEW q, NEW pc, MainGoes(q, pc) PROVE loc'["main"].req = q /\ loc'["main"].pc = pc
  BY <1>1, MainGoesFacts
<1>2. CASE TakeTerminateApplication
  <2>1. PICK q \in Of({"TerminateApplication"}) : MainGoes(q, StartPc(q))
    BY <1>0, <1>2 DEF TakeTerminateApplication
  <2>2. StartPc(q) = "clear"
    BY DEF Of, StartPc
  <2> QED BY <2>1, <2>2, <1>1
<1>3. CASE TakeTerminate
  <2>1. PICK q \in Of({"TerminateProcess", "TerminateTitle"}) : StillWanted(q) /\ MainGoes(q, "runTask")
    BY <1>0, <1>3 DEF TakeTerminate
  <2>2. UNCHANGED node
    BY <1>3 DEF TakeTerminate, listVars
  <2>3. loc'["main"].req = q
    BY <2>1, <1>1
  <2> QED BY <2>1, <2>2, <2>3 DEF Of, EndOps
<1>4. CASE TakePrepareForReboot
  <2>1. PICK q \in Of({"Reboot"}) : MainGoes(q, "runTask") /\ preparingForReboot'
    BY <1>0, <1>4 DEF TakePrepareForReboot
  <2> QED BY <2>1, <1>1 DEF Of
<1>5. CASE TakeUnregisterProcess
  BY <1>0, <1>5 DEF TakeUnregisterProcess
<1>6. CASE TakeLaunchTitle
  <2>1. PICK q \in Of({"LaunchTitle"}) :
          \/ loc' = [loc EXCEPT !["main"].pc = "found", !["main"].proc = FindProcessByTitleId(q.title)]
          \/ \E pc : MainGoes(q, pc)
    BY <1>0, <1>6, Zenon DEF TakeLaunchTitle
  <2>2. loc' # [loc EXCEPT !["main"].pc = "found", !["main"].proc = FindProcessByTitleId(q.title)]
    BY DEF LocsOK, Thread, Threads
  <2> QED BY <2>1, <2>2, <1>1 DEF Of
<1>7. CASE TakeLaunchAppDebug
  <2>1. PICK q \in Of({"LaunchAppDebug"}) : MainGoes(q, StartPc(q))
    BY <1>0, <1>7 DEF TakeLaunchAppDebug
  <2>2. StartPc(q) = "check"
    BY DEF Of, StartPc
  <2> QED BY <2>1, <2>2, <1>1
<1> QED BY <1>2, <1>3, <1>4, <1>5, <1>6, <1>7 DEF TakeCommand

(* A thread that ends processes has been asked to, by a command or a task   *)
(* that is no reboot.                                                       *)
LEMMA DividedStep ==
  ASSUME IInv, Divided, ~preparingForReboot', [Next]_vars
  PROVE  Divided'
<1>0. LocsOK /\ "main" \in Threads /\ "runner" \in Threads
  BY DEF IInv, TypeOK, ControlOK, LocsOK, Threads
<1>1. /\ parametersSet' => \/ parametersSet /\ task' = task
                           \/ loc["main"].pc = "runTask" /\ task' = loc["main"].req
      /\ loc'["main"].pc = "runTask" => \/ loc'["main"] = loc["main"]
                                        \/ TakeCommand
  BY QueueStep
<1>2. parametersSet' => task'.op \notin {"Reboot", "TerminateApplication"}
  BY <1>1 DEF Divided
<1>3. loc'["main"].pc = "runTask" => loc'["main"].req.op \notin {"Reboot", "TerminateApplication"}
  <2>1. CASE loc'["main"] = loc["main"]
    BY <2>1 DEF Divided
  <2>2. CASE TakeCommand
    BY <2>2, <1>0, TakenTask DEF EndOps
  <2> QED BY <1>1, <2>1, <2>2
<1>4. ASSUME NEW t \in Threads
      PROVE  /\ loc'[t].pc \notin {"caller", "all", "last"}
             /\ t = "main" /\ loc'[t].pc \in Ending => loc'[t].req.op = "TerminateApplication" /\ loc'[t].pc # "loop"
             /\ t = "runner" /\ loc'[t].pc \in Ending => loc'[t].req.op \in EndOps
  <2>0. /\ loc[t].pc \notin {"caller", "all", "last"}
        /\ t = "main" /\ loc[t].pc \in Ending => loc[t].req.op = "TerminateApplication" /\ loc[t].pc # "loop"
        /\ t = "runner" /\ loc[t].pc \in Ending => loc[t].req.op \in EndOps
    BY DEF Divided
  <2>1. CASE Rests(loc[t], loc'[t])
    BY <2>1 DEF Rests, Ending
  <2>2. CASE GoesOn(loc[t], loc'[t])
    BY <2>0, <2>2 DEF GoesOn, EndOps
  <2>3. CASE LoopNext(t)
    <3>1. loc[t].pc = "loop" /\ loc'[t].pc = "loop" /\ loc'[t].req = loc[t].req
      BY <2>3, <1>0, LoopFacts DEF IInv
    <3> QED BY <2>0, <3>1 DEF Ending
  <2>4. CASE Asked(t)
    BY <2>4 DEF Asked
  <2>5. CASE Tasked(t)
    <3>1. t = "runner" /\ loc'[t].req = task /\ loc'[t].pc \in {"clear", "notify"} /\ parametersSet
      BY <2>5 DEF Tasked
    <3>2. loc'[t].pc = StartPc(task)
      <4>1. loc' = [loc EXCEPT !["runner"].pc = StartPc(task), !["runner"].req = task]
        BY <2>5 DEF Tasked, RunnerTakesTask
      <4> QED BY <4>1, <3>1, <1>0 DEF LocsOK, Thread
    <3>3. task.op \in Terminations
      BY <3>1, <3>2 DEF StartPc, Terminations
    <3> QED BY <3>1, <3>3 DEF Divided, Terminations, EndOps
  <2> QED BY <2>1, <2>2, <2>3, <2>4, <2>5, Moves
<1> QED BY <1>0, <1>2, <1>3, <1>4 DEF Divided

---------------------------------------------------------------------------
(* While a client's command to end a process is on its way                  *)

(* The nodes r asks for, in the state after the step                        *)
WantedNext(r, n) == IF r.op = "TerminateTitle" THEN node'[n].title = r.title
                    ELSE node'[n].handle = r.pid
StillUnheard(r) == r.op \in EndOps => \A n : Awaited(n)' /\ WantedNext(r, n) => node'[n].status = "running"

LEMMA UnheardStays ==
  ASSUME IInv, Care, Telling, [Next]_vars, NEW r, Unheard(r),
         \A t \in Threads : ~TerminateApplication(t) /\ \A n : ~Heard(t, n)
  PROVE  StillUnheard(r)
<1> SUFFICES ASSUME NEW n, Awaited(n)', WantedNext(r, n), r.op \in EndOps
             PROVE  node'[n].status = "running"
  BY DEF StillUnheard
<1>0. Named /\ Divided /\ Voices /\ node \in [Nodes -> ProcessData]
  BY DEF Telling, IInv, TypeOK
<1>1. /\ n \in ToSet(processList) /\ n \in Nodes
      /\ node'[n].handle = node[n].handle /\ node'[n].title = node[n].title
      /\ Awaited(n) /\ (Hushed(node[n], node'[n]) \/ Reaps(n))
  <2>1. ~\E t \in Threads : AsksApp(t, n) \/ Heard(t, n)
    BY DEF AsksApp
  <2> QED BY <1>0, <2>1, AwaitedStep
<1>2. Wanted(r, n)
  BY <1>1 DEF Wanted, WantedNext
<1>3. node[n].status = "running" /\ VoiceOK(n)
  BY <1>0, <1>1, <1>2 DEF Unheard, Voices
<1>4. ~Reaps(n)
  BY <1>3, ReapedDead DEF VoiceOK, Dead
<1> QED BY <1>1, <1>3, <1>4 DEF Hushed, VoiceOK, Awaited

LEMMA HeardLaunches ==
  ASSUME NEW t \in Threads
  PROVE  /\ \A n : Heard(t, n) => Launches(t)
         /\ TerminateApplication(t) => loc[t].pc = "notify" /\ loc[t].pc \in Ending
                                       /\ loc[t].req.op = "TerminateApplication"
         /\ \A n : AsksApp(t, n) => TerminateApplication(t)
BY DEF Heard, RunSucceeds, At, Launches, LaunchPlaces, TerminateApplication, Ending, AsksApp

(* pm takes a command from patient clients when nothing that is awaited is  *)
(* about to end.                                                            *)
LEMMA SettledAwaited ==
  ASSUME IInv, Telling, Settled, NEW n, Awaited(n)
  PROVE  /\ ~Announces(node[n].handle) /\ node[n].status \in {"running", "terminated"}
         /\ node[n].status = "terminated" => told[node[n].handle] > 0
<1>0. /\ TypeOK /\ ListSound /\ n \in ToSet(processList) /\ Voices /\ VoiceOK(n)
      /\ node[n] \in ProcessData /\ node[n].handle \in Pids
  BY ListedHandles DEF IInv, Telling, Voices, Awaited
<1>1. ~Announces(node[n].handle)
  BY DEF Settled, Announces, BlankProcess
<1>2. node[n].status \notin {"sent", "failed"}
  BY <1>0 DEF Settled, NodesOf
<1> QED BY <1>0, <1>1, <1>2 DEF VoiceOK, Ended, ProcessData

LEMMA CommandUnheard ==
  ASSUME Patient, IInv, Orders, Care, Telling, ~preparingForReboot', [Next]_vars,
         loc'["main"].pc = "runTask", NEW r, r = loc'["main"].req
  PROVE  StillUnheard(r)
<1>0. /\ LocsOK /\ "main" \in Threads /\ Unhurried /\ Divided /\ Named
  BY DEF IInv, TypeOK, ControlOK, LocsOK, Threads, Telling
<1>1. CASE loc'["main"] = loc["main"]
  <2>1. loc["main"].pc = "runTask" /\ Unheard(r)
    BY <1>0, <1>1 DEF Unhurried
  <2>2. RunnerRests
    BY <2>1 DEF Orders, Single
  <2>3. \A t \in Threads : ~Launches(t) /\ loc[t].pc \notin Ending
    BY <2>1, <2>2, OnlyOne, EndsAlone
  <2> QED BY <2>1, <2>3, HeardLaunches, UnheardStays
<1>2. CASE TakeCommand
  <2> SUFFICES ASSUME NEW n, Awaited(n)', WantedNext(r, n), r.op \in EndOps
               PROVE  node'[n].status = "running"
    BY DEF StillUnheard
  <2>1. StillWanted(r) /\ UNCHANGED node
    BY <1>0, <1>2, TakenTask DEF EndOps
  <2>2. n \in ToSet(processList)
    BY <1>0, AwaitedStep
  <2>3. Awaited(n) /\ Wanted(r, n)
    BY <2>1, <2>2 DEF Awaited, Wanted, WantedNext
  <2>4. told[node[n].handle] = 0
    BY <2>1, <2>2, <2>3 DEF StillWanted
  <2>5. Settled
    BY <1>0, <1>2, TakeLoc
  <2> QED BY <2>1, <2>3, <2>4, <2>5, SettledAwaited
<1> QED BY <1>1, <1>2, QueueStep

(* Nothing else happens that a command on its way would have to wait for.   *)
LEMMA UnhurriedStep ==
  ASSUME Patient, IInv, Orders, Care, Telling, ~preparingForReboot', [Next]_vars
  PROVE  Unhurried'
<1>0. /\ LocsOK /\ "main" \in Threads /\ "runner" \in Threads /\ Unhurried /\ Divided /\ TypeOK
  BY DEF IInv, TypeOK, ControlOK, LocsOK, Threads, Telling
<1>1. ASSUME NEW r, StillUnheard(r)
      PROVE  /\ r = task' => Unheard(task)'
             /\ r = loc'["main"].req => Unheard(loc["main"].req)'
             /\ \A t \in Threads : r = loc'[t].req => Unheard(loc[t].req)'
  BY <1>1 DEF StillUnheard, Unheard, WantedNext, Wanted, Awaited
<1>2. ASSUME parametersSet \/ loc["main"].pc = "runTask", NEW r, Unheard(r)
      PROVE  StillUnheard(r)
  <2>1. \A t \in Threads : ~Launches(t) /\ loc[t].pc \notin Ending
    BY <1>2, OnlyOne, EndsAlone
  <2> QED BY <1>2, <2>1, HeardLaunches, UnheardStays
<1>3. ASSUME parametersSet' PROVE Unheard(task)'
  <2>1. PICK r : r = task'
    OBVIOUS
  <2>2. (parametersSet \/ loc["main"].pc = "runTask") /\ Unheard(r)
    BY <1>0, <1>3, <2>1, QueueStep DEF Unhurried
  <2> QED BY <2>1, <2>2, <1>1, <1>2
<1>4. ASSUME loc'["main"].pc = "runTask" PROVE Unheard(loc["main"].req)'
  <2>1. PICK r : r = loc'["main"].req
    OBVIOUS
  <2>2. StillUnheard(r)
    BY <1>4, <2>1, CommandUnheard
  <2> QED BY <2>1, <2>2, <1>1
<1>5. ASSUME NEW t \in Threads, loc'[t].pc \in Arming \cup {"loop"}
      PROVE  Unheard(loc[t].req)'
  <2>1. PICK r : r = loc'[t].req
    OBVIOUS
  <2>2. ASSUME loc[t].pc \in Arming \cup {"loop"}, loc'[t].req = loc[t].req
        PROVE  StillUnheard(r)
    <3>1. Unheard(r) /\ loc[t].pc \in Ending
      BY <1>0, <2>1, <2>2 DEF Unhurried, Arming, Ending
    <3>2. \A u \in Threads : ~Launches(u) /\ (loc[u].pc \in Ending => u = t)
      BY <3>1, EndsAlone
    <3>3. ~TerminateApplication(t)
      <4> SUFFICES ASSUME TerminateApplication(t) PROVE FALSE
        OBVIOUS
      <4>1. loc[t].req.op # "Reboot"
        BY HeardLaunches
      <4>2. Terminate(t)
        BY DEF Terminate
      <4> QED BY <1>0, <1>5, <4>1, <4>2, EndMoves DEF Arming
    <3> QED BY <3>1, <3>2, <3>3, HeardLaunches, UnheardStays
  <2>3. CASE Rests(loc[t], loc'[t])
    BY <2>3, <1>5 DEF Rests, Arming, Ending
  <2>4. CASE GoesOn(loc[t], loc'[t])
    <3>1. loc[t].pc \in Arming \cup {"loop"} /\ loc'[t].req = loc[t].req
      BY <2>4, <1>5 DEF GoesOn, Arming
    <3> QED BY <3>1, <2>1, <2>2, <1>1
  <2>5. CASE LoopNext(t)
    <3>1. loc[t].pc = "loop" /\ loc'[t].req = loc[t].req
      BY <2>5, <1>0, LoopFacts
    <3> QED BY <3>1, <2>1, <2>2, <1>1
  <2>6. CASE Asked(t)
    <3>1. r.op \notin EndOps
      BY <2>1, <2>6 DEF Asked, EndOps
    <3>2. StillUnheard(r)
      BY <3>1 DEF StillUnheard
    <3> QED BY <2>1, <3>2, <1>1
  <2>7. CASE Tasked(t)
    <3>1. parametersSet /\ r = task
      BY <2>1, <2>7 DEF Tasked
    <3>2. Unheard(r)
      BY <1>0, <3>1 DEF Unhurried
    <3> QED BY <2>1, <3>1, <3>2, <1>1, <1>2
  <2> QED BY <1>0, <2>3, <2>4, <2>5, <2>6, <2>7, Moves DEF Telling
<1> QED BY <1>3, <1>4, <1>5 DEF Unhurried

(* The slot's process ends only after the monitor has begun to announce it, *)
(* and is still running when main is about to ask it to end.                *)
LEMMA SlotUnheardStep ==
  ASSUME Patient, NotifiedStay, IInv, Orders, Care, Telling, [Next]_vars
  PROVE  SlotUnheard'
<1>n. PICK n : n = running'
  OBVIOUS
<1>h. PICK h : h = node[n].handle
  OBVIOUS
<1>0. /\ TypeOK /\ ListSound /\ LocsOK /\ Voices /\ Named /\ SlotUnheard /\ Divided
      /\ "main" \in Threads /\ "runner" \in Threads
  BY DEF IInv, TypeOK, ControlOK, LocsOK, Threads, Telling
<1> SUFFICES ASSUME Awaited(n)'
             PROVE  /\ Ended(n)' => Announces(h)'
                    /\ \A t \in Threads : loc'[t].pc \in Arming /\ loc'[t].req.op = "TerminateApplication" =>
                         node'[n].status = "running"
  <2>1. Awaited(n)' => node'[n].handle = h
    BY <1>0, <1>h, AwaitedStep
  <2>2. /\ Awaited(running)' <=> Awaited(n)'
        /\ Ended(running)' <=> Ended(n)'
        /\ node'[running'] = node'[n]
    BY <1>n DEF Awaited, Ended
  <2>3. node'[n].handle = h => (Announces(node[running].handle)' <=> Announces(h)')
    BY <2>2 DEF Announces
  <2> QED BY <2>1, <2>2, <2>3 DEF SlotUnheard
<1>1. /\ n \in ToSet(processList) /\ n \in Nodes
      /\ \/ Awaited(n) /\ Hushed(node[n], node'[n])
         \/ Awaited(n) /\ Reaps(n)
         \/ Awaited(n) /\ \E t \in Threads : AsksApp(t, n)
         \/ \E t \in Threads : Heard(t, n)
  BY <1>0, AwaitedStep
<1>2. Awaited(n) => VoiceOK(n)
  BY <1>0 DEF Voices
<1>3. \A t \in Threads : Heard(t, n) => node'[n].status = "running"
  BY <1>0, HeardFacts DEF Heard, Firm, Unasked
<1>4. Awaited(n) /\ Hushed(node[n], node'[n]) => node'[n].status = node[n].status
  BY <1>2 DEF VoiceOK, Hushed, Awaited
<1>5. CASE running' = running
  <2>1. Ended(n)' => Announces(h)'
    <3>1. CASE Awaited(n) /\ Hushed(node[n], node'[n])
      <4>1. Ended(n)' => Announces(h)
        BY <1>0, <1>4, <1>5, <1>n, <1>h, <3>1 DEF SlotUnheard, Ended
      <4>2. ~(MonitorFinish /\ Announces(h))
        BY <1>1, <1>5, <1>n, <1>h DEF MonitorFinish, Announces, IsExitedApp, Nodes, NoNode
      <4> QED BY <4>1, <4>2, AnnounceStep
    <3>2. CASE Awaited(n) /\ Reaps(n)
      BY <1>0, <1>1, <1>h, <3>2 DEF Reaps, TypeOK, Awaited, Announces
    <3>3. CASE \E t \in Threads : AsksApp(t, n)
      BY <3>3 DEF AsksApp, Ended
    <3>4. CASE \E t \in Threads : Heard(t, n)
      BY <3>4, <1>3 DEF Ended
    <3> QED BY <1>1, <3>1, <3>2, <3>3, <3>4
  <2>2. ASSUME Awaited(n) => node[n].status = "running", \A t \in Threads : ~AsksApp(t, n)
        PROVE  node'[n].status = "running"
    <3>1. Awaited(n) => ~Reaps(n)
      BY <1>0, <1>2, <2>2, ReapedDead DEF VoiceOK, Dead
    <3> QED BY <1>1, <1>3, <1>4, <2>2, <3>1
  <2>3. ASSUME NEW t \in Threads, loc'[t].pc \in Arming, loc'[t].req.op = "TerminateApplication"
        PROVE  node'[n].status = "running"
    <3>1. CASE Rests(loc[t], loc'[t])
      BY <2>3, <3>1 DEF Rests, Arming, Ending
    <3>2. CASE GoesOn(loc[t], loc'[t])
      <4>1. loc[t].pc \in Arming /\ loc[t].pc \in Ending /\ loc[t].req.op = "TerminateApplication"
        BY <2>3, <3>2 DEF GoesOn
      <4>2. Awaited(n) => node[n].status = "running"
        BY <1>0, <1>5, <1>n, <4>1 DEF SlotUnheard
      <4>3. ASSUME NEW u \in Threads, AsksApp(u, n) PROVE FALSE
        <5>1. TerminateApplication(u) /\ u = t
          BY <4>1, <4>3, EndsAlone, HeardLaunches
        <5>2. Terminate(t) /\ loc[t].req.op # "Reboot"
          BY <4>1, <5>1 DEF Terminate
        <5> QED BY <1>0, <2>3, <5>1, <5>2, EndMoves DEF Arming
      <4> QED BY <2>2, <4>2, <4>3
    <3>3. CASE LoopNext(t)
      <4>1. loc'[t].pc = "loop"
        BY <1>0, <3>3, LoopFacts
      <4> QED BY <2>3, <4>1 DEF Arming
    <3>4. CASE Asked(t)
      <4>1. TakeCommand /\ loc["main"].pc = "idle"
        BY <3>4 DEF Asked
      <4>2. Settled
        BY <1>0, <4>1, TakeLoc
      <4>3. Awaited(n) => node[n].status = "running"
        BY <1>0, <1>5, <1>n, <4>2, SettledAwaited DEF SlotUnheard, Ended
      <4>4. \A u \in Threads : loc[u].pc \notin Ending
        BY <4>1, <4>2 DEF Settled, Ending, Threads
      <4>5. \A u \in Threads : ~AsksApp(u, n)
        BY <4>4, HeardLaunches
      <4> QED BY <2>2, <4>3, <4>5
    <3>5. CASE Tasked(t)
      BY <1>0, <2>3, <3>5 DEF Tasked, Divided
    <3> QED BY <1>0, <3>1, <3>2, <3>3, <3>4, <3>5, Moves
  <2> QED BY <2>1, <2>3
<1>6. CASE running' # running
  <2>1. n # NoNode
    BY <1>1 DEF Nodes, NoNode
  <2>2. PICK t \in Threads : RunSucceeds(t) /\ loc[t].at = 0 /\ n = loc[t].cur
    BY <1>6, <1>n, <2>1, RunningStep
  <2>3. loc[t].pc = "run" /\ OuterIn(t) /\ Careful(t)
    BY <2>2 DEF RunSucceeds, At, OuterIn, Starting, LaunchPlaces, Careful
  <2>4. kern[h].st = "loaded"
    BY <1>h, <2>2, <2>3 DEF Care, CareOf, OuterOK
  <2>5. ~Awaited(n)
    BY <1>2, <1>h, <2>4 DEF VoiceOK, Begins
  <2> QED BY <1>1, <1>3, <2>5 DEF Ended
<1> QED BY <1>5, <1>6

---------------------------------------------------------------------------
(* Every end is told of once                                                *)

LEMMA VoicedInit ==
  ASSUME Init
  PROVE  Voiced
<1>1. /\ ~parametersSet /\ mon.pc = "scan" /\ told = [p \in Pids |-> 0]
      /\ \A t \in Threads : loc[t].pc \in {"idle", "top"} /\ loc[t].tell = NoPid
  BY ReturnedFacts DEF Init, Threads, Home
<1>2. \A n : ~Awaited(n)
  <2> SUFFICES ASSUME NEW n, n \in ToSet(processList) PROVE "notify" \notin node[n].flags
    BY DEF Awaited
  <2>1. processList = [k \in KipPids |-> k] /\ KipPids = DOMAIN Kips
    BY DEF Init, KipPids
  <2>2. n \in KipPids /\ n \in Nodes
    BY <2>1, PmAssumption DEF ToSet, Nodes
  <2>3. node[n] = Process(n, Kips[n], {"kip"})
    BY <2>2 DEF Init
  <2> QED BY <2>3 DEF Process, BlankProcess
<1>3. Voices /\ SlotUnheard
  BY <1>2 DEF Voices, SlotUnheard
<1>4. Tellers /\ ToldOK
  BY <1>1 DEF Tellers, TellerOK, ToldOK
<1>5. "main" \in Threads /\ "runner" \in Threads
  BY DEF Threads
<1>6. Named
  BY <1>1, RoleFacts DEF Named, NamedOf, OuterIn, Starting
<1>7. Unhurried /\ Divided
  BY <1>1, <1>5 DEF Unhurried, Divided, Arming, Ending
<1> QED BY <1>3, <1>4, <1>6, <1>7 DEF Voiced, Telling

LEMMA VoicedStep ==
  ASSUME Patient, DepsStay, NotifiedStay, IInv, Orders, Care, Voiced, [Next]_vars
  PROVE  Voiced'
<1> SUFFICES ASSUME ~preparingForReboot'
             PROVE  Telling'
  BY DEF Voiced
<1>1. ~preparingForReboot /\ Telling
  BY RebootStays DEF Voiced
<1>2. \A n : Awaited(n)' => VoiceOK(n)'
  BY <1>1, VoiceStep
<1>3. \A t \in Threads : TellerOK(loc[t])' /\ NamedOf(t)'
  BY <1>1, TellerStep, NamedStep
<1>4. Voices' /\ Tellers' /\ Named'
  BY <1>2, <1>3 DEF Voices, Tellers, Named
<1>5. ToldOK' /\ Unhurried' /\ SlotUnheard' /\ Divided'
  BY <1>1, ToldOKStep, UnhurriedStep, SlotUnheardStep, DividedStep DEF Telling
<1> QED BY <1>4, <1>5 DEF Telling

(* Until a reboot is prepared, the end of a process is announced at most    *)
(* once, by the monitor or by the thread that ends the process, if every    *)
(* client waits until pm has carried out its command and what is launched   *)
(* with an announcement of its end, or is a dependency, ends only when it   *)
(* is asked to.                                                             *)
THEOREM EndIsToldOnce ==
  ASSUME Patient, DepsStay, NotifiedStay
  PROVE  Spec => []ToldOnce
<1>0. Orderly
  BY DEF Orderly
<1>1. Init => Voiced
  BY VoicedInit
<1>2. IInv /\ Orders /\ Care /\ Voiced /\ [Next]_vars => Voiced'
  BY VoicedStep
<1>3. Voiced => ToldOnce
  BY DEF Voiced, Telling, ToldOK, ToldOnce
<1>4. Spec => [](IInv /\ Orders /\ Care)
  BY <1>0, CareIsTaken
<1> QED BY <1>1, <1>2, <1>3, <1>4, PTL DEF Spec
=============================================================================
