------------------------------ MODULE PmProofs -----------------------------
(***************************************************************************)
(* The process list of pm for every number of nodes, processes and titles,  *)
(* whatever pm's clients ask for: types, and the soundness of the list.     *)
(***************************************************************************)
EXTENDS PmManager, SequenceLemmas

---------------------------------------------------------------------------
(* The first listed node of a set is one of the set and listed.             *)
LEMMA FirstListedProperties ==
  ASSUME processList \in Seq(Nodes), NEW ns \in SUBSET Nodes, FirstListed(ns) # NoNode
  PROVE  FirstListed(ns) \in ns /\ Listed(FirstListed(ns))
<1> DEFINE ks == {k \in DOMAIN processList : processList[k] \in ns}
<1>1. ks # {}
  BY DEF FirstListed
<1>2. \E k \in ks : \A j \in ks : k <= j
  <2>1. ks \subseteq Nat
    OBVIOUS
  <2> HIDE DEF ks
  <2> QED BY <2>1, <1>1, LeastElement
<1>3. FirstListed(ns) = processList[CHOOSE k \in ks : \A j \in ks : k <= j]
  BY <1>1 DEF FirstListed
<1> DEFINE k == CHOOSE i \in ks : \A j \in ks : i <= j
<1>4. k \in ks
  <2> HIDE DEF ks
  <2> QED BY <1>2
<1>5. FirstListed(ns) = processList[k]
  BY <1>3
<1> HIDE DEF k
<1> QED BY <1>4, <1>5 DEF Listed, ToSet
---------------------------------------------------------------------------
(* What the operations on nodes change: never the process of a node         *)

SameProcess(p, q) == q \in ProcessData /\ q.handle = p.handle /\ q.title = p.title
Kept(nd, md) == md \in [Nodes -> ProcessData] /\ \A n \in Nodes : SameProcess(nd[n], md[n])

LEMMA KeptItself ==
  ASSUME NEW nd \in [Nodes -> ProcessData]
  PROVE  Kept(nd, nd)
BY DEF Kept, SameProcess

LEMMA KeptTwice ==
  ASSUME NEW nd, NEW md, NEW od, Kept(nd, md), Kept(md, od)
  PROVE  Kept(nd, od)
BY DEF Kept, SameProcess

(* One node is written; a pointer that is NULL writes nothing.              *)
LEMMA KeptOne ==
  ASSUME NEW nd \in [Nodes -> ProcessData], NEW n, NEW p, n \in Nodes => SameProcess(nd[n], p)
  PROVE  Kept(nd, [nd EXCEPT ![n] = p])
BY DEF Kept, SameProcess

LEMMA FlagsKept ==
  ASSUME NEW p \in ProcessData, NEW f \in SUBSET Flags
  PROVE  SameProcess(p, [p EXCEPT !.flags = f])
BY DEF SameProcess, ProcessData

LEMMA NotifiedKept ==
  ASSUME NEW p \in ProcessData
  PROVE  SameProcess(p, Notified(p))
BY DEF SameProcess, ProcessData, Notified

LEMMA IncrefKept ==
  ASSUME NEW p \in ProcessData, NEW amount \in Nat, ~Overflows(p, amount)
  PROVE  SameProcess(p, Incref(p, amount))
<1>1. CASE "autoloaded" \in p.flags
  <2>1. p.refcount \in 0..255 /\ ~(p.refcount + amount > 255)
    BY <1>1 DEF Overflows, ProcessData
  <2>2. \A a \in 0..255, b \in Nat : ~(a + b > 255) => a + b \in 0..255
    OBVIOUS
  <2>5. p.refcount + amount \in 0..255
    BY <2>1, <2>2
  <2>3. Incref(p, amount) = [p EXCEPT !.refcount = p.refcount + amount]
    BY <1>1 DEF Incref
  <2> QED BY <2>5, <2>3 DEF SameProcess, ProcessData
<1>2. CASE "autoloaded" \notin p.flags
  BY <1>2 DEF Incref, SameProcess
<1> QED BY <1>1, <1>2

LEMMA DecrefKept ==
  ASSUME NEW p \in ProcessData
  PROVE  SameProcess(p, Decref(p))
<1> DEFINE r == (p.refcount + 255) % 256
           z == [p EXCEPT !.refcount = 0]
           y == [p EXCEPT !.refcount = r]
<1>1. p.refcount \in 0..255
  BY DEF ProcessData
<1>2. r \in 0..255
  BY <1>1
<1>3. z \in ProcessData /\ z.handle = p.handle /\ z.title = p.title
  BY DEF ProcessData
<1>4. y \in ProcessData /\ y.handle = p.handle /\ y.title = p.title
  <2> HIDE DEF r
  <2> QED BY <1>2 DEF ProcessData
<1>5. SameProcess(z, Notified(z))
  BY <1>3, NotifiedKept
<1>6. Decref(p) = IF r > 0 THEN y ELSE Notified(z)
  BY DEF Decref
<1> HIDE DEF r, y, z
<1> QED BY <1>3, <1>4, <1>5, <1>6 DEF SameProcess

LEMMA DropKept ==
  ASSUME NEW nd \in [Nodes -> ProcessData], NEW ttl
  PROVE  Kept(nd, DependenciesDropped(nd, ttl))
<1>1. \A n \in Nodes : SameProcess(nd[n], Decref(nd[n])) /\ SameProcess(nd[n], nd[n])
  BY DecrefKept DEF SameProcess
<1>2. \A n \in Nodes : DependenciesDropped(nd, ttl)[n] \in {Decref(nd[n]), nd[n]}
  BY DEF DependenciesDropped
<1>3. DependenciesDropped(nd, ttl) = [n \in Nodes |-> DependenciesDropped(nd, ttl)[n]]
  BY DEF DependenciesDropped
<1> QED BY <1>1, <1>2, <1>3 DEF Kept, SameProcess

LEMMA TerminatingKept ==
  ASSUME NEW nd \in [Nodes -> ProcessData], NEW n
  PROVE  Kept(nd, Terminating(nd, n))
<1> DEFINE q == WithoutDeps(nd[n])
           md == [nd EXCEPT ![n] = Notified(q)]
<1>1. n \in Nodes => SameProcess(nd[n], Notified(q)) /\ SameProcess(nd[n], Notified(nd[n]))
  <2> SUFFICES ASSUME n \in Nodes
               PROVE  SameProcess(nd[n], Notified(q)) /\ SameProcess(nd[n], Notified(nd[n]))
    OBVIOUS
  <2>1. nd[n] \in ProcessData /\ nd[n].flags \ {"depsLoaded"} \in SUBSET Flags
    BY DEF ProcessData
  <2>2. SameProcess(nd[n], q)
    BY <2>1, FlagsKept DEF WithoutDeps
  <2>3. SameProcess(q, Notified(q)) /\ SameProcess(nd[n], Notified(nd[n]))
    BY <2>1, <2>2, NotifiedKept DEF SameProcess
  <2> HIDE DEF q
  <2> QED BY <2>2, <2>3 DEF SameProcess
<1>2. Kept(nd, md)
  <2> HIDE DEF q
  <2> QED BY <1>1, KeptOne
<1>3. Kept(nd, [nd EXCEPT ![n] = Notified(nd[n])])
  BY <1>1, KeptOne
<1>4. Kept(md, DependenciesDropped(md, nd[n].title))
  <2>1. md \in [Nodes -> ProcessData]
    BY <1>2 DEF Kept
  <2> HIDE DEF md
  <2> QED BY <2>1, DropKept
<1>5. Kept(nd, DependenciesDropped(md, nd[n].title))
  <2> HIDE DEF md
  <2> QED BY <1>2, <1>4, KeptTwice
<1>6. CASE "depsLoaded" \in nd[n].flags
  <2>1. Terminating(nd, n) = DependenciesDropped(md, nd[n].title)
    BY <1>6 DEF Terminating
  <2> HIDE DEF md
  <2> QED BY <2>1, <1>5
<1>7. CASE "depsLoaded" \notin nd[n].flags
  BY <1>7, <1>3 DEF Terminating
<1> QED BY <1>6, <1>7

---------------------------------------------------------------------------
(* The invariant                                                            *)

Threads == {"main", "runner"}
LaunchPlaces == {"load", "insert", "register", "merge", "mark", "run", "markDep", "mergeDep", "abandon"}
LoadPlaces == {"load", "insert", "register", "run", "markDep"}

(* What a thread has on its stack at each place: it enters a launch with a  *)
(* title and no dependency, and works on one dependency without a process   *)
(* at a time.                                                               *)
PlaceOK(l) ==
  /\ l.pc \in {"idle", "top", "parameters", "check"} => l.at = 0
  /\ l.pc = "runTask" => l.req \in Requests
  /\ l.pc = "check" => l.req.title \in Titles
  /\ l.pc \in LaunchPlaces => l.title \in Titles
  /\ l.pc \in {"insert", "register"} => l.pid \in Pids
  /\ l.pc = "markDep" => l.at # 0
  /\ l.pc \in LoadPlaces /\ l.at # 0 => l.at \in DOMAIN l.array /\ l.array[l.at].proc = NoNode
  /\ l.pc \in {"register", "run", "markDep"} /\ l.at # 0 => l.cur \in Nodes
ControlOK == (\A t \in Threads : PlaceOK(loc[t])) /\ (parametersSet => task \in Requests)

(* A process a thread is about to enter in the list is open and not yet     *)
(* listed; one whose handle the monitor is about to close is not listed.    *)
ListedTitles == \A n \in ToSet(processList) : node[n].title \in Titles
HeldBorn == \A p \in held : kern[p].st # "none"
Entering(t) == loc[t].pc = "insert"
ListedPids == HandlesOf(ToSet(processList))
EnteringOK ==
  /\ \A t \in Threads : Entering(t) => loc[t].pid \in held \ ListedPids
  /\ Entering("main") /\ Entering("runner") => loc["main"].pid # loc["runner"].pid
Closing == mon.pc \in {"drop", "unregister", "finish"} /\ "notifyTerminated" \notin mon.backup.flags
ClosingOK ==
  Closing => /\ mon.backup.handle \in Pids /\ kern[mon.backup.handle].st # "none"
             /\ mon.backup.handle \notin ListedPids
             /\ \A t \in Threads : Entering(t) => loc[t].pid # mon.backup.handle

IInv == TypeOK /\ ControlOK /\ ListSound /\ ListedTitles /\ HeldBorn /\ EnteringOK /\ ClosingOK

Enters(t) == Insert(t) /\ freeList # <<>>

---------------------------------------------------------------------------
(* The nodes: every step but Insert leaves each node to its process         *)

LEMMA NodeUnchanged ==
  ASSUME TypeOK, UNCHANGED node
  PROVE  Kept(node, node')
BY KeptItself DEF TypeOK

LEMMA NodesOfTermination ==
  ASSUME TypeOK, NEW t \in Threads, Terminate(t)
  PROVE  Kept(node, node')
<1>0. node \in [Nodes -> ProcessData] /\ processList \in Seq(Nodes)
  BY DEF TypeOK
<1>1. CASE ClearEvent(t) \/ Arm(t) \/ LoopBegin(t) \/ LoopEnd(t) \/ FindCaller(t)
  <2>1. UNCHANGED node
    BY <1>1 DEF ClearEvent, Arm, LoopBegin, LoopEnd, FindCaller, listVars
  <2> QED BY <2>1, NodeUnchanged
<1>2. CASE \/ Commit(t) \/ WaitUntilTimeout(t) \/ WaitForever(t) \/ Timeout(t) \/ KillOverdue(t)
           \/ Disarm(t)
  <2>1. UNCHANGED node
    BY <1>2 DEF Commit, WaitUntilTimeout, WaitForever, WaitFor, Timeout, KillOverdue, Disarm, listVars
  <2> QED BY <2>1, NodeUnchanged
<1>3. CASE TerminateApplication(t)
  <2>1. node' = Terminating(node, running) \/ node' = node
    BY <1>3 DEF TerminateApplication
  <2> QED BY <2>1, <1>0, TerminatingKept, KeptItself
<1>4. CASE LoopNext(t)
  <2> DEFINE k == CHOOSE j \in Remaining(t) : \A i \in Remaining(t) : j <= i
             n == processList[k]
             md == [node EXCEPT ![n].flags = TakenOver(@)]
  <2>1. node' = Terminating(md, n)
    BY <1>4 DEF LoopNext
  <2>2. Kept(node, md)
    <3> HIDE DEF n
    <3>1. md = [node EXCEPT ![n] = [node[n] EXCEPT !.flags = TakenOver(node[n].flags)]]
      OBVIOUS
    <3>2. n \in Nodes => SameProcess(node[n], [node[n] EXCEPT !.flags = TakenOver(node[n].flags)])
      <4> SUFFICES ASSUME n \in Nodes
                   PROVE  SameProcess(node[n], [node[n] EXCEPT !.flags = TakenOver(node[n].flags)])
        OBVIOUS
      <4>1. node[n] \in ProcessData /\ TakenOver(node[n].flags) \in SUBSET Flags
        BY <1>0 DEF ProcessData, TakenOver, Flags
      <4> QED BY <4>1, FlagsKept
    <3> QED BY <3>1, <3>2, <1>0, KeptOne
  <2>3. Kept(md, Terminating(md, n))
    <3>1. md \in [Nodes -> ProcessData]
      BY <2>2 DEF Kept
    <3> HIDE DEF md, n
    <3> QED BY <3>1, TerminatingKept
  <2> HIDE DEF md, n
  <2> QED BY <2>1, <2>2, <2>3, KeptTwice
<1>5. CASE NotifyAll(t)
  <2> DEFINE app == IF running = NoNode THEN node
                    ELSE [node EXCEPT ![running] = Notified(WithoutDeps(@))]
  <2>1. CASE Panic
    <3>1. UNCHANGED node
      BY <2>1 DEF Panic, listVars
    <3> QED BY <3>1, NodeUnchanged
  <2>2. CASE ~Panic
    <3>1. /\ \A n \in ToSet(processList) : Has(n, "kip") \/ ~Spared(t, n) \/ ~Overflows(node[n], 1)
          /\ node' = [n \in Nodes |-> IF ~Listed(n) \/ Has(n, "kip") THEN app[n]
                                      ELSE IF Spared(t, n) THEN KeptForCaller(app[n])
                                      ELSE Notified(app[n])]
      BY <1>5, <2>2 DEF NotifyAll
    <3>2. \A n \in Nodes : /\ SameProcess(node[n], app[n])
                           /\ "autoloaded" \in app[n].flags => "autoloaded" \in node[n].flags
                           /\ app[n].refcount = node[n].refcount
      <4> SUFFICES ASSUME NEW n \in Nodes
                   PROVE  /\ SameProcess(node[n], app[n])
                          /\ "autoloaded" \in app[n].flags => "autoloaded" \in node[n].flags
                          /\ app[n].refcount = node[n].refcount
        OBVIOUS
      <4>1. app[n] = node[n] \/ app[n] = Notified(WithoutDeps(node[n]))
        BY <1>0
      <4>2. node[n] \in ProcessData
        BY <1>0
      <4>3. SameProcess(node[n], WithoutDeps(node[n]))
        BY <4>2, FlagsKept DEF WithoutDeps, ProcessData
      <4>4. SameProcess(WithoutDeps(node[n]), Notified(WithoutDeps(node[n])))
        BY <4>3, NotifiedKept DEF SameProcess
      <4>5. /\ "autoloaded" \in Notified(WithoutDeps(node[n])).flags => "autoloaded" \in node[n].flags
            /\ Notified(WithoutDeps(node[n])).refcount = node[n].refcount
        BY <4>2 DEF Notified, WithoutDeps, ProcessData
      <4> HIDE DEF app
      <4> QED BY <4>1, <4>2, <4>3, <4>4, <4>5 DEF SameProcess
    <3> HIDE DEF app
    <3>3. \A n \in Nodes : SameProcess(node[n], node'[n])
      <4> SUFFICES ASSUME NEW n \in Nodes PROVE SameProcess(node[n], node'[n])
        OBVIOUS
      <4>1. app[n] \in ProcessData
        BY <3>2 DEF SameProcess
      <4>2. SameProcess(app[n], Notified(app[n]))
        BY <4>1, NotifiedKept
      <4>3. Listed(n) /\ ~Has(n, "kip") /\ Spared(t, n) => SameProcess(app[n], KeptForCaller(app[n]))
        <5> SUFFICES ASSUME Listed(n), ~Has(n, "kip"), Spared(t, n)
                     PROVE  SameProcess(app[n], Incref(app[n], 1))
          BY DEF KeptForCaller
        <5>1. ~Overflows(node[n], 1)
          BY <3>1 DEF Listed
        <5>2. ~Overflows(app[n], 1)
          BY <5>1, <3>2 DEF Overflows
        <5> QED BY <4>1, <5>2, IncrefKept
      <4>4. node'[n] = IF ~Listed(n) \/ Has(n, "kip") THEN app[n]
                       ELSE IF Spared(t, n) THEN KeptForCaller(app[n])
                       ELSE Notified(app[n])
        BY <3>1
      <4> QED BY <4>2, <4>3, <4>4, <3>2 DEF SameProcess
    <3>4. node' = [n \in Nodes |-> node'[n]]
      BY <3>1
    <3> QED BY <3>3, <3>4 DEF Kept, SameProcess
  <2> QED BY <2>1, <2>2
<1>6. CASE NotifyLast(t)
  <2> DEFINE last == {FindProcessById(LastPids[k]) : k \in DOMAIN LastPids}
  <2>1. \/ UNCHANGED node
        \/ node' = [n \in Nodes |-> IF n \in last THEN Notified(node[n]) ELSE node[n]]
    BY <1>6 DEF NotifyLast, Panic, listVars
  <2> HIDE DEF last
  <2>2. \A n \in Nodes : SameProcess(node[n], Notified(node[n])) /\ SameProcess(node[n], node[n])
    BY <1>0, NotifiedKept DEF SameProcess
  <2> QED BY <2>1, <2>2, NodeUnchanged DEF Kept, SameProcess
<1> QED BY <1>1, <1>2, <1>3, <1>4, <1>5, <1>6 DEF Terminate

LEMMA FlagAdded ==
  ASSUME NEW nd \in [Nodes -> ProcessData], NEW n, NEW f \in SUBSET Flags
  PROVE  Kept(nd, [nd EXCEPT ![n].flags = @ \cup f]) /\ Kept(nd, [nd EXCEPT ![n].flags = @ \ f])
<1> DEFINE p == [nd[n] EXCEPT !.flags = nd[n].flags \cup f]
           q == [nd[n] EXCEPT !.flags = nd[n].flags \ f]
<1>1. n \in Nodes => SameProcess(nd[n], p) /\ SameProcess(nd[n], q)
  <2> SUFFICES ASSUME n \in Nodes PROVE SameProcess(nd[n], p) /\ SameProcess(nd[n], q)
    OBVIOUS
  <2>1. nd[n] \in ProcessData /\ nd[n].flags \cup f \in SUBSET Flags /\ nd[n].flags \ f \in SUBSET Flags
    BY DEF ProcessData
  <2> QED BY <2>1, FlagsKept
<1>2. /\ [nd EXCEPT ![n].flags = @ \cup f] = [nd EXCEPT ![n] = p]
      /\ [nd EXCEPT ![n].flags = @ \ f] = [nd EXCEPT ![n] = q]
  OBVIOUS
<1> HIDE DEF p, q
<1> QED BY <1>1, <1>2, KeptOne

(* The array after a merge: its titles are titles, and a dependency without *)
(* a process has somebody who wants it.                                     *)
LEMMA MergedTyped ==
  ASSUME TypeOK, NEW t \in Threads, loc[t].title \in Titles
  PROVE  /\ Extended(loc[t].array, loc[t].title) \in Seq([title : Titles, proc : Nodes \cup {NoNode}, rem : Nat])
         /\ Merged(t) \in Seq(Dependency)
<1> DEFINE ttl == loc[t].title
           array == loc[t].array
           ks == {i \in DOMAIN Deps[ttl] : \A k \in DOMAIN array : array[k].title # Deps[ttl][i]}
           new == NewTitles(array, ttl)
           entry(k) == [title |-> new[k], proc |-> FindProcessByTitleId(new[k]), rem |-> 0]
           more == [k \in DOMAIN new |-> entry(k)]
           Entry == [title : Titles, proc : Nodes \cup {NoNode}, rem : Nat]
           ext == array \o more
<1>1. Deps[ttl] \in Seq(Titles) /\ array \in Seq(Dependency) /\ processList \in Seq(Nodes)
  BY PmAssumption DEF TypeOK, Thread, Threads
<1>2. new \in Seq(Titles) /\ \A i \in DOMAIN new : \E k \in ks : new[i] = Deps[ttl][k]
  <2>1. ks \in SUBSET (DOMAIN Deps[ttl])
    OBVIOUS
  <2>2. new = Chosen(Deps[ttl], ks)
    BY DEF NewTitles
  <2> HIDE DEF ks, new, ttl
  <2> QED BY <2>1, <2>2, <1>1, ChosenProperties
<1>3. \A i \in DOMAIN new : new[i] \in Titles /\ Wants(ttl, new[i])
  <2>1. \A i \in DOMAIN new : \E k \in DOMAIN Deps[ttl] : new[i] = Deps[ttl][k]
    BY <1>2
  <2> HIDE DEF ks, new, ttl
  <2> QED BY <2>1, <1>1, <1>2 DEF Wants, ToSet
<1>4. \A i \in DOMAIN new : FindProcessByTitleId(new[i]) \in Nodes \cup {NoNode}
  <2> SUFFICES ASSUME NEW i \in DOMAIN new PROVE FindProcessByTitleId(new[i]) \in Nodes \cup {NoNode}
    OBVIOUS
  <2> DEFINE ns == {n \in Nodes : node[n].title = new[i]}
  <2>1. ns \in SUBSET Nodes
    OBVIOUS
  <2>2. FindProcessByTitleId(new[i]) = FirstListed(ns)
    BY DEF FindProcessByTitleId
  <2> HIDE DEF ns, new
  <2> QED BY <2>1, <2>2, <1>1, FirstListedProperties
<1>5. more \in Seq(Entry) /\ DOMAIN more = DOMAIN new /\ \A k \in DOMAIN more : more[k] = entry(k)
  <2>1. \A k \in DOMAIN new : entry(k) \in Entry
    BY <1>3, <1>4
  <2>2. Len(new) \in Nat /\ DOMAIN new = 1..Len(new)
    BY <1>2
  <2> HIDE DEF new, entry, Entry
  <2> QED BY <2>1, <2>2
<1>6. array \in Seq(Entry)
  <2>1. Dependency \subseteq Entry
    BY DEF Dependency
  <2> HIDE DEF Entry, array
  <2> QED BY <2>1, <1>1
<1>7. /\ ext \in Seq(Entry) /\ Len(ext) = Len(array) + Len(more)
      /\ \A k \in 1..Len(array) + Len(more) :
           ext[k] = IF k <= Len(array) THEN array[k] ELSE more[k - Len(array)]
  <2> HIDE DEF array, more, Entry
  <2> QED BY <1>5, <1>6, ConcatProperties
<1>8. ext = Extended(array, ttl)
  BY DEF Extended
<1>9. \A k \in DOMAIN ext : ext[k] \in Dependency \/ (\E i \in DOMAIN new : ext[k] = entry(i))
  <2> SUFFICES ASSUME NEW k \in DOMAIN ext
               PROVE  ext[k] \in Dependency \/ (\E i \in DOMAIN new : ext[k] = entry(i))
    OBVIOUS
  <2>1. k \in 1..Len(array) + Len(more) /\ Len(array) \in Nat /\ Len(more) \in Nat
    <3> HIDE DEF array, more, Entry, ext
    <3> QED BY <1>7, <1>5, <1>6
  <2>2. CASE k <= Len(array)
    <3>1. k \in DOMAIN array
      <4> HIDE DEF array, more
      <4> QED BY <2>1, <2>2, <1>1
    <3> HIDE DEF array, more, ext, new, entry
    <3> QED BY <3>1, <2>1, <2>2, <1>1, <1>7
  <2>3. CASE ~(k <= Len(array))
    <3> DEFINE j == k - Len(array)
    <3>1. j \in DOMAIN more /\ ext[k] = more[j]
      <4> HIDE DEF array, more, ext, Entry
      <4> QED BY <2>1, <2>3, <1>7, <1>5
    <3> HIDE DEF j, array, more, ext, new, entry
    <3> QED BY <3>1, <1>5
  <2> QED BY <2>2, <2>3
<1> DEFINE res == [k \in DOMAIN ext |-> IF ext[k].proc = NoNode /\ Wants(ttl, ext[k].title)
                                        THEN [ext[k] EXCEPT !.rem = @ + 1] ELSE ext[k]]
<1>10. \A k \in DOMAIN ext : res[k] \in Dependency
  <2> SUFFICES ASSUME NEW k \in DOMAIN ext PROVE res[k] \in Dependency
    OBVIOUS
  <2> DEFINE e == ext[k]
  <2>1. res[k] = IF e.proc = NoNode /\ Wants(ttl, e.title) THEN [e EXCEPT !.rem = e.rem + 1] ELSE e
    OBVIOUS
  <2>2. CASE e \in Dependency
    <3> HIDE DEF e, res
    <3> QED BY <2>1, <2>2 DEF Dependency, Nodes
  <2>3. CASE \E i \in DOMAIN new : e = entry(i)
    <3>1. PICK i \in DOMAIN new : e = entry(i)
      BY <2>3
    <3>2. e.title \in Titles /\ e.proc \in Nodes \cup {NoNode} /\ Wants(ttl, e.title) /\ e.rem = 0
          /\ e = [title |-> e.title, proc |-> e.proc, rem |-> 0]
      <4> DEFINE x == new[i]
                 y == FindProcessByTitleId(x)
      <4>1. x \in Titles /\ y \in Nodes \cup {NoNode} /\ Wants(ttl, x)
        BY <1>3, <1>4
      <4>2. e = [title |-> x, proc |-> y, rem |-> 0]
        BY <3>1
      <4> HIDE DEF x, y, e, ttl
      <4> QED BY <4>1, <4>2
    <3> HIDE DEF e, res
    <3> QED BY <3>2, <2>1 DEF Dependency
  <2> QED BY <2>2, <2>3, <1>9
<1>11. res \in Seq(Dependency)
  <2>1. Len(ext) \in Nat /\ DOMAIN ext = 1..Len(ext) /\ DOMAIN res = DOMAIN ext
    <3> HIDE DEF ext, Entry
    <3> QED BY <1>7
  <2>2. res = [k \in 1..Len(ext) |-> res[k]]
    BY <2>1
  <2> HIDE DEF res, ext
  <2> QED BY <2>1, <2>2, <1>10
<1>12. Merged(t) = res
  BY <1>8, Zenon DEF Merged, Counted
<1> QED BY <1>7, <1>8, <1>11, <1>12

LEMMA MergeKept ==
  ASSUME TypeOK, NEW t \in Threads, loc[t].title \in Titles, MergeOwn(t) \/ MergeDependency(t)
  PROVE  Kept(node, node')
<1> DEFINE array == Merged(t)
           ttl == loc[t].title
<1>1. Panic \/ (~MergePanics(array, ttl) /\ node' = Increfed(node, array, ttl))
  BY Zenon DEF MergeOwn, MergeDependency, Merge
<1>2. CASE Panic
  <2>1. UNCHANGED node
    BY <1>2 DEF Panic, listVars
  <2> QED BY <2>1, NodeUnchanged
<1>3. CASE ~MergePanics(array, ttl) /\ node' = Increfed(node, array, ttl)
  <2> HIDE DEF array, ttl
  <2>1. node \in [Nodes -> ProcessData]
    BY DEF TypeOK
  <2>2. \A n \in Nodes : SameProcess(node[n], node[n])
    BY <2>1 DEF SameProcess
  <2>3. ASSUME NEW n \in Nodes, NEW k \in DOMAIN array, array[k].proc = n, Wants(ttl, array[k].title)
        PROVE  SameProcess(node[n], Incref(node[n], 1))
    <3>1. n # NoNode
      BY DEF Nodes, NoNode
    <3>2. ~Overflows(node[n], 1)
      BY <1>3, <2>3, <3>1 DEF MergePanics
    <3> QED BY <2>1, <3>2, IncrefKept
  <2>4. \A n \in Nodes : SameProcess(node[n], Increfed(node, array, ttl)[n])
    BY <2>2, <2>3 DEF Increfed
  <2>5. Increfed(node, array, ttl) = [n \in Nodes |-> Increfed(node, array, ttl)[n]]
    BY DEF Increfed
  <2> QED BY <1>3, <2>4, <2>5 DEF Kept, SameProcess
<1> QED BY <1>1, <1>2, <1>3

LEMMA NodesOfLaunch ==
  ASSUME TypeOK, ControlOK, NEW t \in Threads, Launch(t)
  PROVE  Kept(node, node') \/ Enters(t)
<1>0. node \in [Nodes -> ProcessData] /\ loc[t] \in Thread
  BY DEF TypeOK, Threads
<1>1. CASE CheckLaunch(t) \/ Load(t) \/ LoadFails(t) \/ RunFails(t) \/ Abandon(t)
  <2>1. UNCHANGED node
    BY <1>1 DEF CheckLaunch, Load, LoadFails, RunFails, Abandon, listVars
  <2> QED BY <2>1, NodeUnchanged
<1>2. CASE Insert(t)
  <2>1. CASE freeList = <<>>
    <3>1. UNCHANGED node
      BY <1>2, <2>1 DEF Insert, Panic, listVars
    <3> QED BY <3>1, NodeUnchanged
  <2>2. CASE freeList # <<>>
    BY <1>2, <2>2 DEF Enters
  <2> QED BY <2>1, <2>2
<1>3. CASE Register(t)
  <2>1. node' = node \/ node' = [node EXCEPT ![loc[t].cur].flags = @ \cup {"app"}]
    BY <1>3 DEF Register
  <2>2. {"app"} \in SUBSET Flags
    BY DEF Flags
  <2>3. Kept(node, [node EXCEPT ![loc[t].cur].flags = @ \cup {"app"}])
    BY <2>2, <1>0, FlagAdded
  <2> QED BY <2>1, <2>3, <1>0, KeptItself
<1>4. CASE MergeOwn(t) \/ MergeDependency(t)
  <2>1. loc[t].title \in Titles
    BY <1>4 DEF MergeOwn, MergeDependency, At, ControlOK, PlaceOK, LaunchPlaces
  <2> QED BY <1>4, <2>1, MergeKept
<1>5. CASE Mark(t)
  <2>1. node' = node \/ node' = [node EXCEPT ![loc[t].proc].flags = @ \cup {"depsLoaded"}]
    BY <1>5 DEF Mark
  <2>2. {"depsLoaded"} \in SUBSET Flags
    BY DEF Flags
  <2>3. Kept(node, [node EXCEPT ![loc[t].proc].flags = @ \cup {"depsLoaded"}])
    BY <2>2, <1>0, FlagAdded
  <2> QED BY <2>1, <2>3, <1>0, KeptItself
<1>6. CASE RunSucceeds(t)
  <2>1. node' = node \/ node' = [node EXCEPT ![loc[t].cur].flags = @ \cup {"notify"}]
    BY <1>6 DEF RunSucceeds
  <2>2. {"notify"} \in SUBSET Flags
    BY DEF Flags
  <2>3. Kept(node, [node EXCEPT ![loc[t].cur].flags = @ \cup {"notify"}])
    BY <2>2, <1>0, FlagAdded
  <2> QED BY <2>1, <2>3, <1>0, KeptItself
<1>7. CASE MarkDependency(t)
  <2> DEFINE n == loc[t].cur
             k == loc[t].at
             dependency == [node[n] EXCEPT !.flags = @ \cup {"autoloaded", "depsLoaded"}]
             amount == loc[t].array[k].rem - 1
  <2>1. \/ Panic
        \/ ~Overflows(dependency, amount) /\ node' = [node EXCEPT ![n] = Incref(dependency, amount)]
    BY <1>7 DEF MarkDependency
  <2>2. amount \in Nat
    <3> DEFINE e == loc[t].array[k]
    <3>1. loc[t].pc = "markDep" /\ PlaceOK(loc[t])
      BY <1>7 DEF MarkDependency, At, ControlOK
    <3>2. k \in DOMAIN loc[t].array /\ e.proc = NoNode
      BY <3>1 DEF PlaceOK, LoadPlaces
    <3>3. e \in Dependency
      BY <3>2, <1>0 DEF Thread
    <3>4. e.rem \in Nat \ {0}
      <4> HIDE DEF e
      <4> QED BY <3>2, <3>3 DEF Dependency, Nodes, NoNode
    <3>5. amount = e.rem - 1
      OBVIOUS
    <3> HIDE DEF e, amount
    <3> QED BY <3>4, <3>5
  <2>3. n \in Nodes /\ ~Overflows(dependency, amount) => SameProcess(node[n], Incref(dependency, amount))
    <3> SUFFICES ASSUME n \in Nodes, ~Overflows(dependency, amount)
                 PROVE  SameProcess(node[n], Incref(dependency, amount))
      OBVIOUS
    <3>1. node[n] \in ProcessData /\ node[n].flags \cup {"autoloaded", "depsLoaded"} \in SUBSET Flags
      BY <1>0 DEF ProcessData, Flags
    <3>2. SameProcess(node[n], dependency)
      BY <3>1, FlagsKept
    <3>3. dependency \in ProcessData
      BY <3>2 DEF SameProcess
    <3> HIDE DEF dependency, amount, n
    <3>4. SameProcess(dependency, Incref(dependency, amount))
      BY <3>3, <2>2, IncrefKept
    <3> QED BY <3>2, <3>4 DEF SameProcess
  <2>4. CASE Panic
    <3>1. UNCHANGED node
      BY <2>4 DEF Panic, listVars
    <3> QED BY <3>1, NodeUnchanged
  <2> HIDE DEF n, dependency, amount
  <2> QED BY <2>1, <2>3, <2>4, <1>0, KeptOne
<1> QED BY <1>1, <1>2, <1>3, <1>4, <1>5, <1>6, <1>7 DEF Launch

LEMMA NodesOfMonitor ==
  ASSUME TypeOK, Monitor
  PROVE  Kept(node, node')
<1>0. node \in [Nodes -> ProcessData] /\ processList \in Seq(Nodes)
  BY DEF TypeOK
<1>1. CASE \/ MonitorScan \/ MonitorCheck \/ MonitorSignal \/ MonitorWait
           \/ MonitorWakesForNewProcess \/ MonitorWakesForExit \/ MonitorUnregister \/ MonitorFinish
  <2>1. UNCHANGED node
    BY <1>1 DEF MonitorScan, MonitorCheck, MonitorSignal, MonitorWait, MonitorWakesForNewProcess,
       MonitorWakesForExit, MonitorUnregister, MonitorFinish, listVars
  <2> QED BY <2>1, NodeUnchanged
<1>2. CASE MonitorReap
  <2> DEFINE n == FindProcessById(mon.exited)
             p == [node[n] EXCEPT !.status = "terminated", !.flags = ExitFlags(@)]
  <2>1. UNCHANGED node \/ node' = [node EXCEPT ![n] = p]
    BY <1>2 DEF MonitorReap, listVars
  <2>2. n \in Nodes => SameProcess(node[n], p)
    <3> SUFFICES ASSUME n \in Nodes PROVE SameProcess(node[n], p)
      OBVIOUS
    <3>1. node[n] \in ProcessData /\ ExitFlags(node[n].flags) \in SUBSET Flags
      BY <1>0 DEF ProcessData, ExitFlags, Flags
    <3> HIDE DEF n
    <3> QED BY <3>1 DEF ProcessData, SameProcess
  <2> HIDE DEF n, p
  <2> QED BY <2>1, <2>2, <1>0, KeptOne, NodeUnchanged
<1>3. CASE MonitorDropDependencies
  <2>1. node' = DependenciesDropped(node, mon.backup.title)
    BY <1>3 DEF MonitorDropDependencies
  <2> QED BY <2>1, <1>0, DropKept
<1> QED BY <1>1, <1>2, <1>3 DEF Monitor

LEMMA NodesStep ==
  ASSUME TypeOK, ControlOK, [Next]_vars
  PROVE  Kept(node, node') \/ \E t \in Threads : Enters(t)
<1>1. CASE TakeCommand
  <2>1. UNCHANGED node
    BY <1>1 DEF TakeCommand, TakeTerminateApplication, TakeTerminate, TakePrepareForReboot,
       TakeUnregisterProcess, TakeLaunchTitle, TakeLaunchAppDebug, listVars
  <2> QED BY <2>1, NodeUnchanged
<1>2. CASE RunTask \/ RunnerReady \/ RunnerTakesTask \/ (\E p \in Pids : Exit(p)) \/ UNCHANGED vars
  <2>1. UNCHANGED node
    BY <1>2 DEF RunTask, RunnerReady, RunnerTakesTask, Exit, vars, listVars
  <2> QED BY <2>1, NodeUnchanged
<1>3. CASE FoundRunning
  <2>1. node' = [node EXCEPT ![loc["main"].proc].flags = @ \ {"autoloaded"}]
    BY <1>3 DEF FoundRunning
  <2>2. {"autoloaded"} \in SUBSET Flags /\ node \in [Nodes -> ProcessData]
    BY DEF Flags, TypeOK
  <2> QED BY <2>1, <2>2, FlagAdded
<1>4. CASE \E t \in Threads : Terminate(t)
  BY <1>4, NodesOfTermination
<1>5. CASE \E t \in Threads : Launch(t)
  BY <1>5, NodesOfLaunch
<1>6. CASE Monitor
  BY <1>6, NodesOfMonitor
<1>7. "main" \in Threads /\ "runner" \in Threads
  BY DEF Threads
<1> QED BY <1>1, <1>2, <1>3, <1>4, <1>5, <1>6, <1>7 DEF Next, Main, Runner

---------------------------------------------------------------------------
(* The threads                                                              *)

LocsOK == loc \in [Threads -> Thread] /\ \A t \in Threads : PlaceOK(loc[t])

(* The places of a termination, where nothing is asked of the stack         *)
EasyPlaces ==
  {"runTask", "found", "clear", "arm", "notify", "loop", "caller", "all", "last", "commit", "wait",
   "blocked", "kill", "waitAgain", "blockedForever", "disarm"}

LEMMA EasyPlaceOK ==
  ASSUME NEW l \in Thread, NEW pc \in EasyPlaces, pc # "runTask"
  PROVE  [l EXCEPT !.pc = pc] \in Thread /\ PlaceOK([l EXCEPT !.pc = pc])
<1> DEFINE m == [l EXCEPT !.pc = pc]
<1>1. m \in Thread /\ m.pc = pc
  BY DEF Thread, EasyPlaces, Places
<1> HIDE DEF m
<1>2. PlaceOK(m)
  BY <1>1 DEF PlaceOK, EasyPlaces, LaunchPlaces, LoadPlaces
<1> QED BY <1>1, <1>2 DEF m

LEMMA ReturnedOK ==
  ASSUME NEW t
  PROVE  Returned(t) \in Thread /\ PlaceOK(Returned(t)) /\ Returned(t).pc \in {"idle", "top"}
<1>1. <<>> \in Seq(Dependency)
  OBVIOUS
<1>2. Returned(t) = [pc |-> Home(t), req |-> NoRequest, at |-> 0, proc |-> NoNode, spared |-> {},
                     tell |-> NoPid, pid |-> NoPid, title |-> NoTitle, cur |-> NoNode, array |-> <<>>]
  <2> DEFINE h == Home(t)
  <2>1. Returned(t) = [Idle EXCEPT !.pc = h]
    BY DEF Returned
  <2> HIDE DEF h
  <2>2. [Idle EXCEPT !.pc = h] =
          [pc |-> h, req |-> NoRequest, at |-> 0, proc |-> NoNode, spared |-> {}, tell |-> NoPid,
           pid |-> NoPid, title |-> NoTitle, cur |-> NoNode, array |-> <<>>]
    <3>1. \A s, a :
            [[pc |-> "idle", req |-> NoRequest, at |-> 0, proc |-> NoNode, spared |-> s,
              tell |-> NoPid, pid |-> NoPid, title |-> NoTitle, cur |-> NoNode, array |-> a]
              EXCEPT !.pc = h]
            = [pc |-> h, req |-> NoRequest, at |-> 0, proc |-> NoNode, spared |-> s, tell |-> NoPid,
               pid |-> NoPid, title |-> NoTitle, cur |-> NoNode, array |-> a]
      OBVIOUS
    <3> QED BY <3>1, Zenon DEF Idle
  <2> QED BY <2>1, <2>2 DEF h
<1>3. Home(t) \in {"idle", "top"}
  BY DEF Home
<1> QED BY <1>1, <1>2, <1>3 DEF Thread, Places, PlaceOK, LaunchPlaces, LoadPlaces

LEMMA OneThread ==
  ASSUME LocsOK, NEW t \in Threads, NEW l \in Thread, PlaceOK(l), loc' = [loc EXCEPT ![t] = l]
  PROVE  LocsOK'
BY DEF LocsOK

LEMMA ThreadGoes ==
  ASSUME LocsOK, NEW t \in Threads, NEW pc \in EasyPlaces, pc # "runTask", Goes(t, pc)
  PROVE  LocsOK'
<1>1. loc' = [loc EXCEPT ![t] = [loc[t] EXCEPT !.pc = pc]] /\ loc[t] \in Thread
  BY DEF Goes, LocsOK
<1>2. [loc[t] EXCEPT !.pc = pc] \in Thread /\ PlaceOK([loc[t] EXCEPT !.pc = pc])
  BY <1>1, EasyPlaceOK
<1> QED BY <1>1, <1>2, OneThread

LEMMA ThreadReturns ==
  ASSUME LocsOK, NEW t \in Threads, Returns(t)
  PROVE  LocsOK'
BY ReturnedOK, OneThread DEF Returns

LEMMA ThreadsRest ==
  ASSUME LocsOK, UNCHANGED loc
  PROVE  LocsOK'
BY DEF LocsOK, PlaceOK

LEMMA ThreadsOfTermination ==
  ASSUME TypeOK, ListedTitles, LocsOK, NEW t \in Threads, Terminate(t)
  PROVE  LocsOK'
<1>0. loc[t] \in Thread /\ processList \in Seq(Nodes) /\ node \in [Nodes -> ProcessData]
  BY DEF TypeOK, LocsOK
<1>1. CASE \/ ClearEvent(t) \/ Arm(t) \/ TerminateApplication(t) \/ Commit(t)
           \/ WaitUntilTimeout(t) \/ WaitForever(t) \/ Timeout(t) \/ KillOverdue(t)
  <2>1. \E pc \in EasyPlaces : pc # "runTask" /\ Goes(t, pc)
    BY <1>1, Zenon DEF ClearEvent, Arm, TerminateApplication, Commit, WaitUntilTimeout, WaitForever, WaitFor,
       Timeout, KillOverdue, EasyPlaces
  <2> QED BY <2>1, ThreadGoes
<1>2. CASE NotifyAll(t) \/ NotifyLast(t)
  <2>1. UNCHANGED loc \/ Goes(t, "commit")
    BY <1>2 DEF NotifyAll, NotifyLast, Panic
  <2>2. "commit" \in EasyPlaces
    BY DEF EasyPlaces
  <2> QED BY <2>1, <2>2, ThreadGoes, ThreadsRest
<1>3. CASE LoopBegin(t)
  <2> DEFINE l == [loc[t] EXCEPT !.pc = "loop", !.at = 0]
  <2>1. loc' = [loc EXCEPT ![t] = l]
    BY <1>3 DEF LoopBegin
  <2>2. l \in Thread /\ l.pc = "loop"
    BY <1>0 DEF Thread, Places
  <2> HIDE DEF l
  <2>3. PlaceOK(l)
    BY <2>2 DEF PlaceOK, LaunchPlaces, LoadPlaces
  <2> QED BY <2>1, <2>2, <2>3, OneThread
<1>4. CASE LoopNext(t)
  <2> DEFINE k == CHOOSE j \in Remaining(t) : \A i \in Remaining(t) : j <= i
             n == processList[k]
             at == IF loc[t].req.op = "TerminateTitle" THEN k ELSE Len(processList)
             tell == IF Has(n, "notify") THEN node[n].handle ELSE loc[t].tell
             l == [loc[t] EXCEPT !.at = at, !.tell = tell]
  <2>1. k \in Remaining(t)
    <3>1. Remaining(t) # {}
      BY <1>4 DEF LoopNext
    <3>2. Remaining(t) \subseteq Nat
      BY <1>0 DEF Remaining
    <3> QED BY <3>1, <3>2, LeastElement
  <2>2. k \in DOMAIN processList
    BY <2>1 DEF Remaining
  <2>3. loc' = [loc EXCEPT ![t] = l] /\ loc[t].pc = "loop"
    <3>1. loc' = [loc EXCEPT ![t].at = at, ![t].tell = tell] /\ loc[t].pc = "loop"
      BY <1>4, Zenon DEF LoopNext, At
    <3> HIDE DEF at, tell
    <3> QED BY <3>1 DEF LocsOK
  <2> HIDE DEF k
  <2>4. k \in Nat /\ n \in Nodes /\ Len(processList) \in Nat
    BY <2>2, <1>0
  <2>5. node[n].handle \in Pids \cup {NoPid}
    BY <2>4, <1>0 DEF ProcessData
  <2> HIDE DEF n
  <2>6. at \in Nat /\ tell \in Pids \cup {NoPid}
    BY <2>4, <2>5, <1>0 DEF Thread
  <2> HIDE DEF at, tell
  <2>7. l \in Thread /\ l.pc = "loop"
    BY <2>6, <2>3, <1>0 DEF Thread
  <2> HIDE DEF l
  <2>8. PlaceOK(l)
    BY <2>7 DEF PlaceOK, LaunchPlaces, LoadPlaces
  <2> QED BY <2>3, <2>7, <2>8, OneThread
<1>5. CASE LoopEnd(t)
  <2>1. Goes(t, "commit") \/ Returns(t)
    BY <1>5 DEF LoopEnd
  <2>2. "commit" \in EasyPlaces
    BY DEF EasyPlaces
  <2> QED BY <2>1, <2>2, ThreadGoes, ThreadReturns
<1>6. CASE FindCaller(t)
  <2> DEFINE n == FindProcessById(loc[t].req.pid)
             spared == IF n = NoNode THEN {} ELSE ToSet(Deps[node[n].title])
             l == [loc[t] EXCEPT !.pc = "all", !.proc = n, !.spared = spared]
  <2>1. loc' = [loc EXCEPT ![t] = l]
    BY <1>6, <1>0 DEF FindCaller, LocsOK
  <2>2. n = NoNode \/ (n \in Nodes /\ Listed(n))
    <3> DEFINE ns == {m \in Nodes : node[m].handle = loc[t].req.pid}
    <3>1. n = FirstListed(ns) /\ ns \in SUBSET Nodes
      BY DEF FindProcessById
    <3> HIDE DEF ns, n
    <3> QED BY <3>1, <1>0, FirstListedProperties
  <2> HIDE DEF n
  <2>3. spared \in SUBSET Titles
    <3>1. CASE n = NoNode
      BY <3>1
    <3>2. CASE Listed(n)
      <4>1. node[n].title \in Titles
        BY <3>2 DEF Listed, ListedTitles
      <4>2. Deps[node[n].title] \in Seq(Titles)
        BY <4>1, PmAssumption
      <4>3. ToSet(Deps[node[n].title]) \subseteq Titles
        BY <4>2 DEF ToSet
      <4> QED BY <4>3
    <3> QED BY <3>1, <3>2, <2>2
  <2> HIDE DEF spared
  <2>4. l \in Thread /\ l.pc = "all"
    BY <2>2, <2>3, <1>0 DEF Thread, Places
  <2> HIDE DEF l
  <2>5. PlaceOK(l)
    BY <2>4 DEF PlaceOK, LaunchPlaces, LoadPlaces
  <2> QED BY <2>1, <2>4, <2>5, OneThread
<1>7. CASE Disarm(t)
  <2> DEFINE l == [loc[t] EXCEPT !.pc = "clear", !.at = 1]
  <2>1. loc' = [loc EXCEPT ![t] = l] \/ Returns(t)
    BY <1>7, <1>0 DEF Disarm, LocsOK, Returns
  <2>2. l \in Thread /\ l.pc = "clear"
    BY <1>0 DEF Thread, Places
  <2> HIDE DEF l
  <2>3. PlaceOK(l)
    BY <2>2 DEF PlaceOK, LaunchPlaces, LoadPlaces
  <2> QED BY <2>1, <2>2, <2>3, OneThread, ThreadReturns
<1> QED BY <1>1, <1>2, <1>3, <1>4, <1>5, <1>6, <1>7 DEF Terminate

(* The next dependency without a process, or the title itself               *)
LEMMA OnwardOK ==
  ASSUME NEW l \in Thread, l.title \in Titles
  PROVE  Onward(l) \in Thread /\ PlaceOK(Onward(l)) /\ Onward(l).pc \in {"run", "load"}
<1>1. CASE Missing(l) = {}
  <2> DEFINE m == [l EXCEPT !.pc = "run", !.at = 0, !.cur = l.proc]
  <2>1. Onward(l) = m
    BY <1>1 DEF Onward
  <2>2. m \in Thread /\ m.pc = "run" /\ m.at = 0 /\ m.title \in Titles
    BY DEF Thread, Places
  <2> HIDE DEF m
  <2>3. PlaceOK(m)
    BY <2>2 DEF PlaceOK, LaunchPlaces, LoadPlaces
  <2> QED BY <2>1, <2>2, <2>3
<1>2. CASE Missing(l) # {}
  <2> DEFINE k == CHOOSE j \in Missing(l) : \A i \in Missing(l) : j <= i
             m == [l EXCEPT !.pc = "load", !.at = k, !.title = l.array[k].title]
  <2>1. Onward(l) = m
    BY <1>2 DEF Onward
  <2>2. l.array \in Seq(Dependency)
    BY DEF Thread
  <2>3. k \in Missing(l)
    <3>1. Missing(l) \subseteq Nat
      BY <2>2 DEF Missing
    <3> QED BY <3>1, <1>2, LeastElement
  <2> HIDE DEF k
  <2>4. k \in DOMAIN l.array /\ l.array[k].proc = NoNode /\ k \in Nat
    BY <2>2, <2>3 DEF Missing
  <2>5. l.array[k].title \in Titles
    BY <2>2, <2>4 DEF Dependency
  <2>6. m \in Thread /\ m.pc = "load" /\ m.at = k /\ m.title \in Titles /\ m.array = l.array
    BY <2>4, <2>5 DEF Thread, Places
  <2> HIDE DEF m
  <2>7. PlaceOK(m)
    BY <2>4, <2>6 DEF PlaceOK, LaunchPlaces, LoadPlaces
  <2> QED BY <2>1, <2>6, <2>7
<1> QED BY <1>1, <1>2

LEMMA NextPidOK ==
  ASSUME NewPids # {}
  PROVE  NextPid \in Pids /\ kern[NextPid].st = "none"
<1>1. NewPids \subseteq Nat
  BY DEF NewPids, Pids
<1>2. NextPid \in NewPids
  BY <1>1, LeastElement DEF NextPid
<1> QED BY <1>2 DEF NewPids

LEMMA ThreadsOfLaunch ==
  ASSUME TypeOK, LocsOK, NEW t \in Threads, Launch(t)
  PROVE  LocsOK'
<1>0. loc[t] \in Thread /\ PlaceOK(loc[t]) /\ freeList \in Seq(Nodes) /\ DOMAIN loc = Threads
  BY DEF TypeOK, LocsOK
<1>1. CASE CheckLaunch(t)
  <2> DEFINE l == [loc[t] EXCEPT !.pc = "load", !.title = loc[t].req.title]
  <2>1. Returns(t) \/ loc' = [loc EXCEPT ![t] = l]
    BY <1>1, <1>0 DEF CheckLaunch, LocsOK
  <2>2. loc[t].at = 0 /\ loc[t].req.title \in Titles
    BY <1>1, <1>0 DEF CheckLaunch, At, PlaceOK
  <2>3. l \in Thread /\ l.pc = "load" /\ l.at = 0 /\ l.title \in Titles
    BY <2>2, <1>0 DEF Thread, Places
  <2> HIDE DEF l
  <2>4. PlaceOK(l)
    BY <2>3 DEF PlaceOK, LaunchPlaces, LoadPlaces
  <2> QED BY <2>1, <2>3, <2>4, OneThread, ThreadReturns
<1>2. CASE Load(t)
  <2> DEFINE l == [loc[t] EXCEPT !.pc = "insert", !.pid = NextPid]
  <2>1. loc' = [loc EXCEPT ![t] = l]
    BY <1>2, <1>0 DEF Load, LocsOK
  <2>2. NextPid \in Pids
    BY <1>2, NextPidOK DEF Load
  <2>3. loc[t].pc = "load"
    BY <1>2 DEF Load, At
  <2>4. /\ l \in Thread /\ l.pc = "insert" /\ l.at = loc[t].at /\ l.title = loc[t].title
        /\ l.array = loc[t].array /\ l.pid \in Pids
    BY <2>2, <1>0 DEF Thread, Places
  <2> HIDE DEF l
  <2>5. PlaceOK(l)
    BY <2>3, <2>4, <1>0 DEF PlaceOK, LaunchPlaces, LoadPlaces
  <2> QED BY <2>1, <2>4, <2>5, OneThread
<1>3. CASE LoadFails(t)
  <2> DEFINE l == [loc[t] EXCEPT !.pc = "abandon"]
  <2>1. loc[t].pc = "load" /\ loc[t].title \in Titles
    BY <1>3, <1>0 DEF LoadFails, At, PlaceOK, LaunchPlaces
  <2>2. Returns(t) \/ loc' = [loc EXCEPT ![t] = Onward(loc[t])] \/ loc' = [loc EXCEPT ![t] = l]
    BY <1>3, <1>0 DEF LoadFails
  <2>3. l \in Thread /\ l.pc = "abandon" /\ l.title \in Titles
    BY <2>1, <1>0 DEF Thread, Places
  <2> HIDE DEF l
  <2>4. PlaceOK(l)
    BY <2>3 DEF PlaceOK, LaunchPlaces, LoadPlaces
  <2>5. Onward(loc[t]) \in Thread /\ PlaceOK(Onward(loc[t]))
    BY <2>1, <1>0, OnwardOK
  <2> QED BY <2>2, <2>3, <2>4, <2>5, OneThread, ThreadReturns
<1>4. CASE Insert(t)
  <2> DEFINE p == IF Outer(t) THEN Head(freeList) ELSE loc[t].proc
             l == [loc[t] EXCEPT !.pc = "register", !.cur = Head(freeList), !.proc = p]
  <2>1. CASE freeList = <<>>
    <3>1. UNCHANGED loc
      BY <1>4, <2>1 DEF Insert, Panic
    <3> QED BY <3>1, ThreadsRest
  <2>2. CASE freeList # <<>>
    <3>1. loc' = [loc EXCEPT ![t] = l] /\ loc[t].pc = "insert"
      <4>1. /\ loc' = [loc EXCEPT ![t].pc = "register", ![t].cur = Head(freeList), ![t].proc = p]
            /\ loc[t].pc = "insert"
        BY <1>4, <2>2, Zenon DEF Insert, At
      <4> HIDE DEF p
      <4> QED BY <4>1, <1>0
    <3>2. Head(freeList) \in Nodes
      BY <2>2, <1>0
    <3>3. p \in Nodes \cup {NoNode}
      BY <3>2, <1>0 DEF Thread
    <3> HIDE DEF p
    <3>4. /\ l \in Thread /\ l.pc = "register" /\ l.at = loc[t].at /\ l.title = loc[t].title
          /\ l.array = loc[t].array /\ l.cur \in Nodes /\ l.pid = loc[t].pid
      BY <3>2, <3>3, <1>0 DEF Thread, Places
    <3> HIDE DEF l
    <3>5. PlaceOK(l)
      BY <3>1, <3>4, <1>0 DEF PlaceOK, LaunchPlaces, LoadPlaces
    <3> QED BY <3>1, <3>4, <3>5, OneThread
  <2> QED BY <2>1, <2>2
<1>5. CASE Register(t)
  <2> DEFINE pc == IF Outer(t) /\ WithDeps(t) THEN "merge" ELSE "run"
             l == [loc[t] EXCEPT !.pc = pc]
  <2>1. loc' = [loc EXCEPT ![t] = l] /\ loc[t].pc = "register"
    BY <1>5, <1>0 DEF Register, At, Goes
  <2>2. pc \in {"merge", "run"}
    OBVIOUS
  <2> HIDE DEF pc
  <2>3. /\ l \in Thread /\ l.pc = pc /\ l.at = loc[t].at /\ l.title = loc[t].title
        /\ l.array = loc[t].array /\ l.cur = loc[t].cur
    BY <2>2, <1>0 DEF Thread, Places
  <2> HIDE DEF l
  <2>4. PlaceOK(l)
    BY <2>1, <2>2, <2>3, <1>0 DEF PlaceOK, LaunchPlaces, LoadPlaces
  <2> QED BY <2>1, <2>3, <2>4, OneThread
<1>6. CASE MergeOwn(t) \/ MergeDependency(t)
  <2> DEFINE a == Merged(t)
             m == [loc[t] EXCEPT !.pc = "mark", !.array = a]
             d == [loc[t] EXCEPT !.array = a]
  <2>1. loc[t].title \in Titles
    BY <1>6, <1>0 DEF MergeOwn, MergeDependency, At, PlaceOK, LaunchPlaces
  <2>2. a \in Seq(Dependency)
    BY <2>1, MergedTyped
  <2>3. UNCHANGED loc \/ loc' = [loc EXCEPT ![t] = m] \/ loc' = [loc EXCEPT ![t] = Onward(d)]
    BY <1>6, Zenon DEF MergeOwn, MergeDependency, Merge, Panic
  <2> HIDE DEF a
  <2>4. m \in Thread /\ m.pc = "mark" /\ m.title \in Titles /\ d \in Thread /\ d.title \in Titles
    BY <2>1, <2>2, <1>0 DEF Thread, Places
  <2> HIDE DEF m, d
  <2>5. PlaceOK(m)
    BY <2>4 DEF PlaceOK, LaunchPlaces, LoadPlaces
  <2>6. Onward(d) \in Thread /\ PlaceOK(Onward(d))
    BY <2>4, OnwardOK
  <2> QED BY <2>3, <2>4, <2>5, <2>6, OneThread, ThreadsRest
<1>7. CASE Mark(t)
  <2>1. loc' = [loc EXCEPT ![t] = Onward(loc[t])] /\ loc[t].title \in Titles
    BY <1>7, <1>0 DEF Mark, At, PlaceOK, LaunchPlaces
  <2>2. Onward(loc[t]) \in Thread /\ PlaceOK(Onward(loc[t]))
    BY <2>1, <1>0, OnwardOK
  <2> QED BY <2>1, <2>2, OneThread
<1>8. CASE RunSucceeds(t) \/ RunFails(t)
  <2>1. loc[t].pc = "run" /\ (Returns(t) \/ (loc[t].at # 0 /\ (Goes(t, "markDep") \/ Goes(t, "abandon"))))
    BY <1>8 DEF RunSucceeds, RunFails, At, Outer
  <2>2. ASSUME loc[t].pc = "run", loc[t].at # 0, NEW pc \in {"markDep", "abandon"}, Goes(t, pc)
        PROVE  LocsOK'
    <3> DEFINE l == [loc[t] EXCEPT !.pc = pc]
    <3>1. loc' = [loc EXCEPT ![t] = l]
      BY <2>2, <1>0 DEF Goes
    <3>2. /\ l \in Thread /\ l.pc = pc /\ l.at = loc[t].at /\ l.title = loc[t].title
          /\ l.array = loc[t].array /\ l.cur = loc[t].cur
      BY <2>2, <1>0 DEF Thread, Places
    <3> HIDE DEF l
    <3>3. PlaceOK(l)
      BY <2>2, <3>2, <1>0 DEF PlaceOK, LaunchPlaces, LoadPlaces
    <3> QED BY <3>1, <3>2, <3>3, OneThread
  <2> QED BY <2>1, <2>2, ThreadReturns
<1>9. CASE Abandon(t)
  BY <1>9, ThreadReturns DEF Abandon
<1>10. CASE MarkDependency(t)
  <2> DEFINE n == loc[t].cur
             k == loc[t].at
             e == [loc[t].array[k] EXCEPT !.proc = n, !.rem = 0]
             a == [loc[t].array EXCEPT ![k] = e]
             l == [loc[t] EXCEPT !.pc = "mergeDep", !.array = a]
  <2>1. CASE UNCHANGED loc
    BY <2>1, ThreadsRest
  <2>2. CASE ~UNCHANGED loc
    <3>1. loc' = [loc EXCEPT ![t].pc = "mergeDep", ![t].array[k] = e]
      BY <1>10, <2>2 DEF MarkDependency, Panic
    <3>2. loc' = [loc EXCEPT ![t] = l]
      <4> HIDE DEF e, k
      <4> QED BY <3>1, <1>0
    <3>3. loc[t].pc = "markDep"
      BY <1>10 DEF MarkDependency, At
    <3>4. k \in DOMAIN loc[t].array /\ n \in Nodes /\ loc[t].title \in Titles
      BY <3>3, <1>0 DEF PlaceOK, LoadPlaces, LaunchPlaces
    <3>5. loc[t].array \in Seq(Dependency)
      BY <1>0 DEF Thread
    <3>6. e \in Dependency
      <4>1. loc[t].array[k] \in Dependency
        BY <3>4, <3>5
      <4> DEFINE d == loc[t].array[k]
      <4> HIDE DEF n, d
      <4>2. [d EXCEPT !.proc = n, !.rem = 0] \in [title : Titles, proc : Nodes, rem : {0}]
        BY <4>1, <3>4 DEF Dependency, d
      <4> QED BY <4>2 DEF Dependency, d
    <3> HIDE DEF e
    <3>7. a \in Seq(Dependency)
      BY <3>4, <3>5, <3>6
    <3> HIDE DEF a
    <3>8. l \in Thread /\ l.pc = "mergeDep" /\ l.title \in Titles
      BY <3>4, <3>7, <1>0 DEF Thread, Places
    <3> HIDE DEF l
    <3>9. PlaceOK(l)
      BY <3>8 DEF PlaceOK, LaunchPlaces, LoadPlaces
    <3> QED BY <3>2, <3>8, <3>9, OneThread
  <2> QED BY <2>1, <2>2
<1> QED BY <1>1, <1>2, <1>3, <1>4, <1>5, <1>6, <1>7, <1>8, <1>9, <1>10 DEF Launch

(* Where a command starts                                                   *)
LEMMA StartPcTyped ==
  ASSUME NEW r \in Requests
  PROVE  /\ StartPc(r) \in {"clear", "notify", "check"}
         /\ StartPc(r) = "check" => r.title \in Titles
<1>1. r \in Request
  BY RequestsAssumption
<1>2. CASE r \in [op : {"TerminateApplication"}] \cup [op : {"Reboot"}, pid : Int]
  BY <1>2 DEF StartPc
<1>3. CASE \/ r \in [op : {"TerminateProcess"}, pid : Pids, wait : BOOLEAN]
           \/ r \in [op : {"TerminateTitle"}, title : Titles, wait : BOOLEAN]
  <2>1. r.op \in {"TerminateProcess", "TerminateTitle"} /\ r.wait \in BOOLEAN
    BY <1>3
  <2>2. CASE r.wait
    <3>1. StartPc(r) = "clear"
      BY <2>1, <2>2 DEF StartPc
    <3> QED BY <3>1
  <2>3. CASE ~r.wait
    <3>1. StartPc(r) = "notify"
      BY <2>1, <2>3 DEF StartPc
    <3> QED BY <3>1
  <2> QED BY <2>1, <2>2, <2>3
<1>4. CASE r \in [op : {"UnregisterProcess"}, title : Titles]
  BY <1>4 DEF StartPc
<1>5. CASE r \in [op : {"LaunchTitle", "LaunchAppDebug"}, title : Titles, app : BOOLEAN,
                  deps : BOOLEAN, notify : BOOLEAN]
  BY <1>5 DEF StartPc
<1> QED BY <1>1, <1>2, <1>3, <1>4, <1>5 DEF Request

LEMMA BeginOK ==
  ASSUME LocsOK, NEW t \in Threads, loc[t].at = 0, NEW r \in Requests,
         NEW pc \in {"clear", "notify", "check", "runTask"}, pc = "check" => r.title \in Titles,
         loc' = [loc EXCEPT ![t].pc = pc, ![t].req = r]
  PROVE  LocsOK'
<1> DEFINE l == [loc[t] EXCEPT !.pc = pc, !.req = r]
<1>1. loc' = [loc EXCEPT ![t] = l] /\ loc[t] \in Thread
  BY DEF LocsOK
<1>2. l \in Thread /\ l.pc = pc /\ l.req = r /\ l.at = 0
  <2>1. pc \in Places /\ loc[t].at = 0
    BY DEF Places
  <2> QED BY <1>1, <2>1 DEF Thread
<1> HIDE DEF l
<1>3. PlaceOK(l)
  BY <1>2 DEF PlaceOK, LaunchPlaces, LoadPlaces
<1> QED BY <1>1, <1>2, <1>3, OneThread

LEMMA ThreadsOfCommands ==
  ASSUME TypeOK, LocsOK, TakeCommand
  PROVE  LocsOK'
<1>0. "main" \in Threads /\ loc["main"] \in Thread /\ PlaceOK(loc["main"])
  BY DEF LocsOK, Threads
<1>1. loc["main"].pc = "idle"
  BY DEF TakeCommand, TakeTerminateApplication, TakeTerminate, TakePrepareForReboot,
     TakeUnregisterProcess, TakeLaunchTitle, TakeLaunchAppDebug, Takes
<1>2. loc["main"].at = 0
  BY <1>0, <1>1 DEF PlaceOK
<1>3. ASSUME NEW r \in Requests, MainGoes(r, StartPc(r)) \/ MainGoes(r, "runTask")
      PROVE  LocsOK'
  <2>1. \E pc \in {"clear", "notify", "check", "runTask"} :
          (pc = "check" => r.title \in Titles) /\ MainGoes(r, pc)
    BY <1>3, StartPcTyped
  <2> QED BY <2>1, <1>0, <1>2, BeginOK DEF MainGoes
<1>4. ASSUME NEW r \in Requests, NEW n, n = FindProcessByTitleId(r.title), n # NoNode,
             loc' = [loc EXCEPT !["main"].pc = "found", !["main"].proc = n]
      PROVE  LocsOK'
  <2> DEFINE l == [loc["main"] EXCEPT !.pc = "found", !.proc = n]
             ns == {m \in Nodes : node[m].title = r.title}
  <2>1. n \in Nodes
    <3>1. n = FirstListed(ns) /\ ns \in SUBSET Nodes /\ processList \in Seq(Nodes)
      BY <1>4 DEF FindProcessByTitleId, TypeOK
    <3> HIDE DEF ns
    <3> QED BY <3>1, <1>4, FirstListedProperties
  <2>2. loc' = [loc EXCEPT !["main"] = l]
    BY <1>4 DEF LocsOK
  <2>3. l \in Thread /\ l.pc = "found"
    BY <2>1, <1>0 DEF Thread, Places
  <2> HIDE DEF l
  <2>4. PlaceOK(l)
    BY <2>3 DEF PlaceOK, LaunchPlaces, LoadPlaces
  <2> QED BY <2>2, <2>3, <2>4, <1>0, OneThread
<1>5. CASE TakeTerminateApplication
  BY <1>5, <1>3, ThreadsRest DEF TakeTerminateApplication, Of
<1>6. CASE TakeTerminate
  BY <1>6, <1>3, ThreadsRest DEF TakeTerminate, Of
<1>7. CASE TakePrepareForReboot
  BY <1>7, <1>3, ThreadsRest DEF TakePrepareForReboot, Of
<1>8. CASE TakeUnregisterProcess
  BY <1>8, ThreadsRest DEF TakeUnregisterProcess
<1>9. CASE TakeLaunchTitle
  BY <1>9, <1>3, <1>4, ThreadsRest DEF TakeLaunchTitle, Of
<1>10. CASE TakeLaunchAppDebug
  BY <1>10, <1>3, ThreadsRest DEF TakeLaunchAppDebug, Of
<1> QED BY <1>5, <1>6, <1>7, <1>8, <1>9, <1>10 DEF TakeCommand

LEMMA ThreadsOfMonitor ==
  ASSUME LocsOK, Monitor
  PROVE  LocsOK'
<1>1. CASE UNCHANGED loc
  BY <1>1, ThreadsRest
<1>2. CASE ~UNCHANGED loc
  <2>1. MonitorSignal
    BY <1>2 DEF Monitor, MonitorScan, MonitorCheck, MonitorWait, MonitorWakesForNewProcess,
       MonitorWakesForExit, MonitorReap, MonitorDropDependencies, MonitorUnregister, MonitorFinish
  <2>2. \E t \in Threads : Goes(t, "disarm")
    BY <2>1, <1>2 DEF MonitorSignal, BlockedOnEvent, Goes, LocsOK
  <2>3. "disarm" \in EasyPlaces /\ "disarm" # "runTask"
    BY DEF EasyPlaces
  <2> QED BY <2>2, <2>3, ThreadGoes
<1> QED BY <1>1, <1>2

LEMMA ThreadsStep ==
  ASSUME TypeOK, ControlOK, ListedTitles, [Next]_vars
  PROVE  LocsOK' /\ ControlOK'
<1>0. LocsOK /\ "main" \in Threads /\ "runner" \in Threads
  BY DEF TypeOK, ControlOK, LocsOK, Threads
<1>1. ASSUME LocsOK', UNCHANGED taskVars
      PROVE  ControlOK'
  BY <1>1 DEF LocsOK, ControlOK, taskVars
<1>2. CASE TakeCommand
  <2>1. UNCHANGED taskVars
    BY <1>2 DEF TakeCommand, TakeTerminateApplication, TakeTerminate, TakePrepareForReboot,
       TakeUnregisterProcess, TakeLaunchTitle, TakeLaunchAppDebug
  <2> QED BY <2>1, <1>0, <1>1, <1>2, ThreadsOfCommands
<1>3. CASE \E t \in Threads : Terminate(t)
  <2>1. UNCHANGED taskVars
    BY <1>3 DEF Terminate, ClearEvent, Arm, TerminateApplication, LoopBegin, LoopNext, LoopEnd,
       FindCaller, NotifyAll, NotifyLast, Commit, WaitUntilTimeout, WaitForever, WaitFor, Timeout,
       KillOverdue, Disarm, Panic
  <2> QED BY <2>1, <1>0, <1>1, <1>3, ThreadsOfTermination
<1>4. CASE \E t \in Threads : Launch(t)
  <2>1. UNCHANGED taskVars
    BY <1>4 DEF Launch, CheckLaunch, Load, LoadFails, Insert, Register, MergeOwn, MergeDependency,
       Merge, Mark, RunSucceeds, RunFails, Abandon, MarkDependency, Panic
  <2> QED BY <2>1, <1>0, <1>1, <1>4, ThreadsOfLaunch
<1>5. CASE Monitor
  <2>1. UNCHANGED taskVars
    BY <1>5 DEF Monitor, MonitorScan, MonitorCheck, MonitorSignal, MonitorWait,
       MonitorWakesForNewProcess, MonitorWakesForExit, MonitorReap, MonitorDropDependencies,
       MonitorUnregister, MonitorFinish
  <2> QED BY <2>1, <1>0, <1>1, <1>5, ThreadsOfMonitor
<1>6. CASE FoundRunning
  <2>1. Returns("main") /\ UNCHANGED taskVars
    BY <1>6 DEF FoundRunning
  <2> QED BY <2>1, <1>0, <1>1, ThreadReturns
<1>7. CASE RunTask
  <2>1. Returns("main") /\ task' = loc["main"].req /\ loc["main"].pc = "runTask"
    BY <1>7 DEF RunTask, At
  <2>2. task' \in Requests
    BY <2>1, <1>0 DEF LocsOK, PlaceOK
  <2>3. LocsOK'
    BY <2>1, <1>0, ThreadReturns
  <2> QED BY <2>2, <2>3 DEF ControlOK, LocsOK
<1>8. CASE RunnerReady
  <2> DEFINE l == [loc["runner"] EXCEPT !.pc = "parameters"]
  <2>1. /\ loc' = [loc EXCEPT !["runner"] = l] /\ loc["runner"].pc = "top"
        /\ UNCHANGED <<parametersSet, task>>
    BY <1>8 DEF RunnerReady, At, Goes
  <2>2. l \in Thread /\ l.pc = "parameters" /\ l.at = 0
    <3>1. loc["runner"] \in Thread /\ loc["runner"].at = 0
      BY <2>1, <1>0 DEF LocsOK, PlaceOK
    <3> QED BY <3>1 DEF Thread, Places
  <2> HIDE DEF l
  <2>3. PlaceOK(l)
    BY <2>2 DEF PlaceOK, LaunchPlaces, LoadPlaces
  <2>4. LocsOK'
    BY <2>1, <2>2, <2>3, <1>0, OneThread
  <2> QED BY <2>1, <2>4 DEF ControlOK, LocsOK
<1>9. CASE RunnerTakesTask
  <2>1. /\ loc' = [loc EXCEPT !["runner"].pc = StartPc(task), !["runner"].req = task]
        /\ loc["runner"].pc = "parameters" /\ parametersSet /\ parametersSet' = FALSE
    BY <1>9 DEF RunnerTakesTask, At
  <2>2. task \in Requests /\ loc["runner"].at = 0
    BY <2>1, <1>0 DEF ControlOK, LocsOK, PlaceOK
  <2> DEFINE pc == StartPc(task)
  <2>3. pc \in {"clear", "notify", "check", "runTask"} /\ (pc = "check" => task.title \in Titles)
    BY <2>2, StartPcTyped
  <2>4. loc' = [loc EXCEPT !["runner"].pc = pc, !["runner"].req = task]
    BY <2>1
  <2> HIDE DEF pc
  <2>5. LocsOK'
    BY <2>2, <2>3, <2>4, <1>0, BeginOK
  <2> QED BY <2>1, <2>5 DEF ControlOK, LocsOK
<1>10. CASE (\E p \in Pids : Exit(p)) \/ UNCHANGED vars
  <2>1. UNCHANGED loc /\ UNCHANGED taskVars
    BY <1>10 DEF Exit, vars, taskVars
  <2> QED BY <2>1, <1>0, <1>1, ThreadsRest
<1> QED BY <1>0, <1>2, <1>3, <1>4, <1>5, <1>6, <1>7, <1>8, <1>9, <1>10 DEF Next, Main, Runner

---------------------------------------------------------------------------
(* Sequences without repetitions                                            *)

LEMMA Concatenated ==
  ASSUME NEW A, NEW a \in Seq(A), NEW b \in Seq(A)
  PROVE  /\ a \o b \in Seq(A) /\ ToSet(a \o b) = ToSet(a) \cup ToSet(b)
         /\ IsInjective(a \o b)
              <=> IsInjective(a) /\ IsInjective(b) /\ ToSet(a) \cap ToSet(b) = {}
<1> DEFINE c == a \o b
<1>1. /\ c \in Seq(A) /\ Len(c) = Len(a) + Len(b) /\ Len(a) \in Nat /\ Len(b) \in Nat
      /\ \A k \in 1..Len(a) + Len(b) : c[k] = IF k <= Len(a) THEN a[k] ELSE b[k - Len(a)]
  BY ConcatProperties
<1> HIDE DEF c
<1>2. DOMAIN a = 1..Len(a) /\ DOMAIN b = 1..Len(b) /\ DOMAIN c = 1..Len(a) + Len(b)
  BY <1>1
<1>3. \A i \in DOMAIN a : i \in DOMAIN c /\ c[i] = a[i]
  BY <1>1, <1>2
<1>4. \A j \in DOMAIN b : Len(a) + j \in DOMAIN c /\ c[Len(a) + j] = b[j]
  BY <1>1, <1>2
<1>5. \A k \in DOMAIN c : \/ k \in DOMAIN a
                          \/ k - Len(a) \in DOMAIN b /\ k = Len(a) + (k - Len(a))
  BY <1>1, <1>2
<1>6. ToSet(c) = ToSet(a) \cup ToSet(b)
  <2>1. ToSet(c) \subseteq ToSet(a) \cup ToSet(b)
    <3> SUFFICES ASSUME NEW k \in DOMAIN c PROVE c[k] \in ToSet(a) \cup ToSet(b)
      BY DEF ToSet
    <3> QED BY <1>3, <1>4, <1>5 DEF ToSet
  <2>2. ToSet(a) \cup ToSet(b) \subseteq ToSet(c)
    BY <1>3, <1>4 DEF ToSet
  <2> QED BY <2>1, <2>2
<1>7. ASSUME IsInjective(c)
      PROVE  IsInjective(a) /\ IsInjective(b) /\ ToSet(a) \cap ToSet(b) = {}
  <2>1. \A i, j \in DOMAIN a : a[i] = a[j] => i = j
    BY <1>3, <1>7 DEF IsInjective
  <2>2. \A i, j \in DOMAIN b : b[i] = b[j] => i = j
    <3> SUFFICES ASSUME NEW i \in DOMAIN b, NEW j \in DOMAIN b, b[i] = b[j] PROVE i = j
      OBVIOUS
    <3>1. Len(a) + i = Len(a) + j
      BY <1>4, <1>7 DEF IsInjective
    <3> QED BY <3>1, <1>1, <1>2
  <2>3. \A i \in DOMAIN a, j \in DOMAIN b : a[i] # b[j]
    <3> SUFFICES ASSUME NEW i \in DOMAIN a, NEW j \in DOMAIN b, a[i] = b[j] PROVE FALSE
      OBVIOUS
    <3>1. i = Len(a) + j
      BY <1>3, <1>4, <1>7 DEF IsInjective
    <3> QED BY <3>1, <1>1, <1>2
  <2> QED BY <2>1, <2>2, <2>3 DEF IsInjective, ToSet
<1>8. ASSUME IsInjective(a), IsInjective(b), ToSet(a) \cap ToSet(b) = {}
      PROVE  IsInjective(c)
  <2> SUFFICES ASSUME NEW i \in DOMAIN c, NEW j \in DOMAIN c, c[i] = c[j] PROVE i = j
    BY DEF IsInjective
  <2>1. CASE i \in DOMAIN a /\ j \in DOMAIN a
    BY <2>1, <1>3, <1>8 DEF IsInjective
  <2>5. \A k \in DOMAIN c : IF k \in DOMAIN a THEN c[k] \in ToSet(a) ELSE c[k] \in ToSet(b)
    <3> SUFFICES ASSUME NEW k \in DOMAIN c
                 PROVE  IF k \in DOMAIN a THEN c[k] \in ToSet(a) ELSE c[k] \in ToSet(b)
      OBVIOUS
    <3>1. CASE k \in DOMAIN a
      BY <3>1, <1>3 DEF ToSet
    <3>2. CASE k \notin DOMAIN a
      <4>1. c[k] = b[k - Len(a)] /\ k - Len(a) \in DOMAIN b
        BY <3>2, <1>4, <1>5
      <4> QED BY <4>1, <3>2 DEF ToSet
    <3> QED BY <3>1, <3>2
  <2>2. CASE i \in DOMAIN a /\ j \notin DOMAIN a
    BY <2>2, <2>5, <1>8
  <2>3. CASE i \notin DOMAIN a /\ j \in DOMAIN a
    BY <2>3, <2>5, <1>8
  <2>4. CASE i \notin DOMAIN a /\ j \notin DOMAIN a
    <3>1. /\ i - Len(a) \in DOMAIN b /\ c[i] = b[i - Len(a)]
          /\ j - Len(a) \in DOMAIN b /\ c[j] = b[j - Len(a)]
      BY <2>4, <1>4, <1>5
    <3>2. i - Len(a) = j - Len(a)
      BY <3>1, <1>8 DEF IsInjective
    <3> QED BY <3>2, <1>1, <1>2
  <2> QED BY <2>1, <2>2, <2>3, <2>4
<1> QED BY <1>1, <1>6, <1>7, <1>8 DEF c

LEMMA Appended ==
  ASSUME NEW A, NEW q \in Seq(A), NEW x \in A, IsInjective(q), x \notin ToSet(q)
  PROVE  /\ Append(q, x) \in Seq(A) /\ ToSet(Append(q, x)) = ToSet(q) \cup {x}
         /\ IsInjective(Append(q, x))
<1> DEFINE y == Append(q, x)
<1>1. /\ y \in Seq(A) /\ DOMAIN y = 1..Len(q)+1 /\ DOMAIN q = 1..Len(q) /\ Len(q) \in Nat
      /\ (\A i \in 1..Len(q) : y[i] = q[i]) /\ y[Len(q)+1] = x
  OBVIOUS
<1> HIDE DEF y
<1>2. \A i \in DOMAIN y : i \in DOMAIN q \/ i = Len(q) + 1
  BY <1>1
<1>3. \A i \in DOMAIN q : i \in DOMAIN y
  BY <1>1
<1>4. Len(q) + 1 \in DOMAIN y
  BY <1>1
<1>5. ToSet(y) = ToSet(q) \cup {x}
  BY <1>1, <1>2, <1>3, <1>4 DEF ToSet
<1>6. IsInjective(y)
  BY <1>1, <1>2 DEF IsInjective, ToSet
<1> QED BY <1>1, <1>5, <1>6 DEF y

LEMMA Tailed ==
  ASSUME NEW A, NEW q \in Seq(A), q # <<>>, IsInjective(q)
  PROVE  /\ Tail(q) \in Seq(A) /\ IsInjective(Tail(q)) /\ Head(q) \in ToSet(q) /\ Head(q) \in A
         /\ ToSet(Tail(q)) = ToSet(q) \ {Head(q)}
<1> DEFINE y == Tail(q)
<1>1. /\ y \in Seq(A) /\ DOMAIN y = 1..Len(q)-1 /\ DOMAIN q = 1..Len(q) /\ Len(q) \in Nat
      /\ Len(q) # 0 /\ Head(q) = q[1] /\ \A i \in 1..Len(q)-1 : y[i] = q[i+1]
  OBVIOUS
<1> HIDE DEF y
<1>2. 1 \in DOMAIN q
  BY <1>1
<1>3. \A i \in DOMAIN y : i + 1 \in DOMAIN q /\ i + 1 # 1 /\ y[i] = q[i+1]
  BY <1>1
<1>4. \A k \in DOMAIN q : k # 1 => k - 1 \in DOMAIN y /\ y[k - 1] = q[k]
  <2> SUFFICES ASSUME NEW k \in DOMAIN q, k # 1 PROVE k - 1 \in DOMAIN y /\ y[k - 1] = q[k]
    OBVIOUS
  <2>1. k - 1 \in DOMAIN y /\ (k - 1) + 1 = k
    BY <1>1
  <2> QED BY <2>1, <1>3
<1>5. ToSet(y) = ToSet(q) \ {Head(q)}
  <2>1. \A i \in DOMAIN y : y[i] \in ToSet(q) \ {Head(q)}
    BY <1>1, <1>2, <1>3 DEF IsInjective, ToSet
  <2>2. \A k \in DOMAIN q : q[k] # Head(q) => q[k] \in ToSet(y)
    BY <1>1, <1>4 DEF ToSet
  <2> QED BY <2>1, <2>2 DEF ToSet
<1>6. IsInjective(y)
  <2> SUFFICES ASSUME NEW i \in DOMAIN y, NEW j \in DOMAIN y, y[i] = y[j] PROVE i = j
    BY DEF IsInjective
  <2>1. i + 1 = j + 1
    BY <1>3 DEF IsInjective
  <2> QED BY <2>1, <1>1
<1>7. Head(q) \in ToSet(q) /\ Head(q) \in A
  <2>1. q[1] \in ToSet(q) /\ q[1] \in A
    BY <1>2 DEF ToSet
  <2> QED BY <2>1, <1>1
<1> QED BY <1>1, <1>5, <1>6, <1>7 DEF y

LEMMA ErasedProperties ==
  ASSUME NEW A, NEW q \in Seq(A), NEW n \in ToSet(q), IsInjective(q)
  PROVE  /\ Erased(q, n) \in Seq(A) /\ IsInjective(Erased(q, n))
         /\ ToSet(Erased(q, n)) = ToSet(q) \ {n}
<1> DEFINE k == CHOOSE j \in DOMAIN q : q[j] = n
           a == SubSeq(q, 1, k-1)
           b == SubSeq(q, k+1, Len(q))
<1>1. k \in DOMAIN q /\ q[k] = n
  BY DEF ToSet
<1>2. Erased(q, n) = a \o b
  BY DEF Erased, RemoveAt
<1> HIDE DEF k
<1>3. Len(q) \in Nat /\ DOMAIN q = 1..Len(q) /\ k \in Nat /\ k # 0
  BY <1>1
<1>4. a \in Seq(A) /\ DOMAIN a = 1..k-1 /\ \A i \in 1..k-1 : a[i] = q[i]
  BY <1>1
<1>5. b \in Seq(A) /\ DOMAIN b = 1..Len(q)-k /\ \A i \in 1..Len(q)-k : b[i] = q[k+i]
  BY <1>1
<1> HIDE DEF a, b
<1>6. \A i \in DOMAIN a : i \in DOMAIN q /\ i < k /\ a[i] = q[i]
  BY <1>1, <1>3, <1>4
<1>7. \A i \in DOMAIN b : k + i \in DOMAIN q /\ k + i > k /\ b[i] = q[k+i] /\ i \in Nat
  BY <1>1, <1>3, <1>5
<1>8. \A i \in DOMAIN q : \/ i = k \/ i \in DOMAIN a
                          \/ i - k \in DOMAIN b /\ k + (i - k) = i
  BY <1>1, <1>3, <1>4, <1>5
<1>9. ToSet(a) \cup ToSet(b) = ToSet(q) \ {n}
  <2>1. \A i \in DOMAIN a : a[i] \in ToSet(q) \ {n}
    BY <1>1, <1>3, <1>6 DEF IsInjective, ToSet
  <2>2. \A i \in DOMAIN b : b[i] \in ToSet(q) \ {n}
    BY <1>1, <1>3, <1>7 DEF IsInjective, ToSet
  <2>3. \A i \in DOMAIN q : q[i] # n => q[i] \in ToSet(a) \cup ToSet(b)
    BY <1>1, <1>6, <1>7, <1>8 DEF ToSet
  <2> QED BY <2>1, <2>2, <2>3 DEF ToSet
<1>10. IsInjective(a)
  BY <1>6 DEF IsInjective
<1>11. IsInjective(b)
  <2> SUFFICES ASSUME NEW i \in DOMAIN b, NEW j \in DOMAIN b, b[i] = b[j] PROVE i = j
    BY DEF IsInjective
  <2>1. k + i = k + j
    BY <1>7 DEF IsInjective
  <2> QED BY <2>1, <1>3, <1>7
<1>12. ToSet(a) \cap ToSet(b) = {}
  <2> SUFFICES ASSUME NEW i \in DOMAIN a, NEW j \in DOMAIN b, a[i] = b[j] PROVE FALSE
    BY DEF ToSet
  <2>1. i = k + j /\ i < k /\ k + j > k
    BY <1>6, <1>7 DEF IsInjective
  <2> QED BY <2>1, <1>3, <1>7
<1> QED BY <1>2, <1>4, <1>5, <1>9, <1>10, <1>11, <1>12, Concatenated

LEMMA SecondPlaceProperties ==
  ASSUME NEW A, NEW q \in Seq(A), NEW n \in A, n \notin ToSet(q), IsInjective(q)
  PROVE  /\ SecondPlace(q, n) \in Seq(A) /\ IsInjective(SecondPlace(q, n))
         /\ ToSet(SecondPlace(q, n)) = ToSet(q) \cup {n}
<1>1. CASE q = <<>>
  <2>1. SecondPlace(q, n) = <<n>>
    BY <1>1 DEF SecondPlace
  <2>2. <<n>> \in Seq(A) /\ IsInjective(<<n>>) /\ ToSet(<<n>>) = {n}
    BY DEF IsInjective, ToSet
  <2>3. ToSet(q) = {}
    BY <1>1 DEF ToSet
  <2> QED BY <2>1, <2>2, <2>3
<1>2. CASE q # <<>>
  <2> DEFINE h == <<Head(q), n>>
  <2>1. SecondPlace(q, n) = h \o Tail(q)
    BY <1>2 DEF SecondPlace
  <2>2. /\ Tail(q) \in Seq(A) /\ IsInjective(Tail(q)) /\ Head(q) \in ToSet(q) /\ Head(q) \in A
        /\ ToSet(Tail(q)) = ToSet(q) \ {Head(q)}
    BY <1>2, Tailed
  <2>3. h \in Seq(A) /\ IsInjective(h) /\ ToSet(h) = {Head(q), n}
    <3> DEFINE x == Head(q)
    <3>1. x \in A /\ x # n
      BY <2>2
    <3> HIDE DEF x
    <3>2. <<x, n>> \in Seq(A) /\ IsInjective(<<x, n>>) /\ ToSet(<<x, n>>) = {x, n}
      BY <3>1 DEF IsInjective, ToSet
    <3> QED BY <3>2 DEF x
  <2> HIDE DEF h
  <2>4. ToSet(h) \cap ToSet(Tail(q)) = {}
    BY <2>2, <2>3
  <2> DEFINE y == Tail(q)
  <2>5. h \o y \in Seq(A) /\ IsInjective(h \o y) /\ ToSet(h \o y) = ToSet(h) \cup ToSet(y)
    <3>1. y \in Seq(A) /\ IsInjective(y) /\ ToSet(h) \cap ToSet(y) = {}
      BY <2>2, <2>4
    <3> HIDE DEF y
    <3> QED BY <3>1, <2>3, Concatenated
  <2>6. ToSet(h) \cup ToSet(y) = ToSet(q) \cup {n}
    BY <2>2, <2>3
  <2> QED BY <2>1, <2>5, <2>6
<1> QED BY <1>1, <1>2

---------------------------------------------------------------------------
(* The kernel: processes are born and then only change their state          *)

KernType == [Pids -> [st : {"none", "loaded", "running", "dead"}, title : Titles \cup {NoTitle}]]
Grown(k, m) == m \in KernType /\ \A p \in Pids : k[p].st # "none" => m[p].st # "none"

LEMMA GrownByState ==
  ASSUME NEW k \in KernType, NEW p, NEW s \in {"running", "dead"}
  PROVE  Grown(k, k) /\ Grown(k, [k EXCEPT ![p].st = s])
<1>1. Grown(k, k)
  BY DEF Grown
<1> DEFINE m == [k EXCEPT ![p].st = s]
<1>2. m \in KernType
  BY DEF KernType
<1>3. \A q \in Pids : m[q].st = k[q].st \/ m[q].st = s
  BY DEF KernType
<1> HIDE DEF m
<1>4. Grown(k, m)
  BY <1>2, <1>3 DEF Grown
<1> QED BY <1>1, <1>4 DEF m

LEMMA TerminatedGrown ==
  ASSUME NEW k \in KernType, NEW pids
  PROVE  Grown(k, Terminated(k, pids))
<1> DEFINE m == Terminated(k, pids)
<1>1. \A p \in Pids : m[p] = k[p] \/ m[p] = [k[p] EXCEPT !.st = "dead"]
  BY DEF Terminated
<1>2. m = [p \in Pids |-> m[p]]
  BY DEF Terminated
<1> HIDE DEF m
<1>3. \A p \in Pids :
        /\ m[p] \in [st : {"none", "loaded", "running", "dead"}, title : Titles \cup {NoTitle}]
        /\ k[p].st # "none" => m[p].st # "none"
  BY <1>1 DEF KernType
<1> QED BY <1>2, <1>3 DEF Grown, KernType, m

LEMMA LoadGrown ==
  ASSUME TypeOK, ControlOK, NEW t \in Threads, Load(t)
  PROVE  /\ Grown(kern, kern') /\ NextPid \in Pids /\ kern[NextPid].st = "none"
         /\ kern'[NextPid].st # "none" /\ held' = held \cup {NextPid}
         /\ loc'[t].pid = NextPid /\ loc'[t].pc = "insert" /\ \A u \in Threads : u # t => loc'[u] = loc[u]
<1>1. NextPid \in Pids /\ kern[NextPid].st = "none"
  BY NextPidOK DEF Load
<1>2. /\ kern' = [kern EXCEPT ![NextPid] = [st |-> "loaded", title |-> loc[t].title]]
      /\ held' = held \cup {NextPid} /\ loc[t].pc = "load"
      /\ loc' = [loc EXCEPT ![t].pc = "insert", ![t].pid = NextPid]
  BY DEF Load, At
<1>3. loc[t].title \in Titles
  BY <1>2 DEF ControlOK, PlaceOK, LaunchPlaces
<1>4. kern \in KernType /\ loc \in [Threads -> Thread]
  BY DEF TypeOK, KernType, Threads
<1> DEFINE q == NextPid
<1> HIDE DEF q
<1> DEFINE e == [st |-> "loaded", title |-> loc[t].title]
<1>7. /\ e \in [st : {"none", "loaded", "running", "dead"}, title : Titles \cup {NoTitle}]
      /\ e.st # "none" /\ kern' = [kern EXCEPT ![q] = e] /\ q \in Pids
  BY <1>1, <1>2, <1>3 DEF q
<1> HIDE DEF e
<1>8. kern' \in KernType
  BY <1>4, <1>7 DEF KernType
<1>9. \A p \in Pids : kern'[p] = kern[p] \/ kern'[p] = e
  BY <1>4, <1>7 DEF KernType
<1>5. Grown(kern, kern') /\ kern'[q].st # "none"
  <2>1. kern'[q] = e
    BY <1>4, <1>7 DEF KernType
  <2> QED BY <2>1, <1>7, <1>8, <1>9 DEF Grown
<1>6. loc'[t].pid = q /\ loc'[t].pc = "insert" /\ \A u \in Threads : u # t => loc'[u] = loc[u]
  BY <1>2, <1>4 DEF Thread, q
<1> QED BY <1>1, <1>2, <1>5, <1>6 DEF q

LEMMA KernStep ==
  ASSUME TypeOK, ControlOK, [Next]_vars
  PROVE  Grown(kern, kern')
<1>0. kern \in KernType
  BY DEF TypeOK, KernType
<1>1. CASE UNCHANGED kern
  BY <1>0, <1>1 DEF Grown
<1>2. CASE \E pids : kern' = Terminated(kern, pids)
  BY <1>0, <1>2, TerminatedGrown
<1>3. CASE \E p, s : s \in {"running", "dead"} /\ kern' = [kern EXCEPT ![p].st = s]
  <2>1. PICK p, s : s \in {"running", "dead"} /\ kern' = [kern EXCEPT ![p].st = s]
    BY <1>3
  <2>2. Grown(kern, [kern EXCEPT ![p].st = s])
    BY <2>1, <1>0, GrownByState
  <2> QED BY <2>1, <2>2
<1>4. CASE TakeCommand
  BY <1>4, <1>1, <1>2 DEF TakeCommand, TakeTerminateApplication, TakeTerminate, TakePrepareForReboot,
     TakeUnregisterProcess, TakeLaunchTitle, TakeLaunchAppDebug, kernelVars
<1>5. CASE RunTask \/ FoundRunning \/ RunnerReady \/ RunnerTakesTask \/ UNCHANGED vars
  BY <1>5, <1>1 DEF RunTask, FoundRunning, RunnerReady, RunnerTakesTask, kernelVars, vars
<1>6. CASE \E t \in Threads : Terminate(t)
  BY <1>6, <1>1, <1>2 DEF Terminate, ClearEvent, Arm, TerminateApplication, LoopBegin, LoopNext, LoopEnd,
     FindCaller, NotifyAll, NotifyLast, Commit, WaitUntilTimeout, WaitForever, WaitFor, Timeout,
     KillOverdue, Disarm, Panic, kernelVars
<1>7. CASE \E t \in Threads : Launch(t)
  <2> SUFFICES ASSUME NEW t \in Threads, Launch(t) PROVE Grown(kern, kern')
    BY <1>7
  <2>1. CASE Load(t)
    BY <2>1, LoadGrown
  <2>2. CASE RunSucceeds(t)
    BY <2>2, <1>3 DEF RunSucceeds
  <2>3. CASE ~Load(t) /\ ~RunSucceeds(t)
    BY <2>3, <1>1, <1>2 DEF Launch, CheckLaunch, LoadFails, Insert, Register, MergeOwn, MergeDependency,
       Merge, Mark, RunFails, Abandon, MarkDependency, Panic, kernelVars
  <2> QED BY <2>1, <2>2, <2>3
<1>8. CASE Monitor
  BY <1>8, <1>1 DEF Monitor, MonitorScan, MonitorCheck, MonitorSignal, MonitorWait,
     MonitorWakesForNewProcess, MonitorWakesForExit, MonitorReap, MonitorDropDependencies,
     MonitorUnregister, MonitorFinish, kernelVars
<1>9. CASE \E p \in Pids : Exit(p)
  BY <1>9, <1>3 DEF Exit
<1>10. "main" \in Threads /\ "runner" \in Threads
  BY DEF Threads
<1> QED BY <1>4, <1>5, <1>6, <1>7, <1>8, <1>9, <1>10 DEF Next, Main, Runner

---------------------------------------------------------------------------
(* The two lists of nodes                                                   *)

LEMMA ListsApart ==
  ASSUME TypeOK, ListSound
  PROVE  /\ processList \in Seq(Nodes) /\ freeList \in Seq(Nodes)
         /\ IsInjective(processList) /\ IsInjective(freeList)
         /\ ToSet(processList) \cap ToSet(freeList) = {}
         /\ ToSet(processList) \cup ToSet(freeList) = Nodes
BY Concatenated DEF TypeOK, ListSound

Parted == /\ processList \in Seq(Nodes) /\ freeList \in Seq(Nodes)
          /\ IsInjective(processList \o freeList) /\ ToSet(processList \o freeList) = Nodes

LEMMA EnteredLists ==
  ASSUME TypeOK, ListSound, NEW t, Enters(t)
  PROVE  /\ Parted' /\ Head(freeList) \in Nodes \ ToSet(processList)
         /\ ToSet(processList') = ToSet(processList) \cup {Head(freeList)}
<1>1. freeList # <<>> /\ processList' = Append(processList, Head(freeList)) /\ freeList' = Tail(freeList)
  BY DEF Enters, Insert, ProcessList_New
<1>2. /\ Tail(freeList) \in Seq(Nodes) /\ IsInjective(Tail(freeList))
      /\ Head(freeList) \in ToSet(freeList) /\ Head(freeList) \in Nodes
      /\ ToSet(Tail(freeList)) = ToSet(freeList) \ {Head(freeList)}
  BY <1>1, ListsApart, Tailed
<1> DEFINE n == Head(freeList)
<1>3. n \in Nodes /\ n \notin ToSet(processList)
  BY <1>2, ListsApart
<1> HIDE DEF n
<1>4. /\ Append(processList, n) \in Seq(Nodes) /\ IsInjective(Append(processList, n))
      /\ ToSet(Append(processList, n)) = ToSet(processList) \cup {n}
  BY <1>3, ListsApart, Appended
<1>5. /\ processList' \in Seq(Nodes) /\ freeList' \in Seq(Nodes) /\ IsInjective(processList')
      /\ IsInjective(freeList') /\ ToSet(processList') = ToSet(processList) \cup {n}
      /\ ToSet(freeList') = ToSet(freeList) \ {n} /\ n \in ToSet(freeList)
  BY <1>1, <1>2, <1>4 DEF n
<1>6. /\ ToSet(processList') \cap ToSet(freeList') = {}
      /\ ToSet(processList') \cup ToSet(freeList') = Nodes
  BY <1>5, ListsApart
<1>7. Parted'
  BY <1>5, <1>6, Concatenated DEF Parted
<1> QED BY <1>3, <1>5, <1>7 DEF n

LEMMA DeletedLists ==
  ASSUME TypeOK, ListSound, NEW n \in ToSet(processList), ProcessList_Delete(n)
  PROVE  Parted' /\ ToSet(processList') = ToSet(processList) \ {n} /\ n \in Nodes
<1>1. processList' = Erased(processList, n) /\ freeList' = SecondPlace(freeList, n)
  BY DEF ProcessList_Delete
<1>2. /\ processList' \in Seq(Nodes) /\ IsInjective(processList')
      /\ ToSet(processList') = ToSet(processList) \ {n}
  BY <1>1, ListsApart, ErasedProperties
<1>3. n \in Nodes /\ n \notin ToSet(freeList)
  BY ListsApart
<1>4. /\ freeList' \in Seq(Nodes) /\ IsInjective(freeList')
      /\ ToSet(freeList') = ToSet(freeList) \cup {n}
  BY <1>1, <1>3, ListsApart, SecondPlaceProperties
<1>5. /\ ToSet(processList') \cap ToSet(freeList') = {}
      /\ ToSet(processList') \cup ToSet(freeList') = Nodes
  BY <1>2, <1>3, <1>4, ListsApart
<1>6. Parted'
  BY <1>2, <1>4, <1>5, Concatenated DEF Parted
<1> QED BY <1>2, <1>3, <1>6

---------------------------------------------------------------------------
(* The types of the other variables                                         *)

LockType == [tag : {Nobody, "main", "runner", "monitor"}, count : Int]

LEMMA LockTyped ==
  ASSUME lock \in LockType, NEW t \in {"main", "runner", "monitor"},
         Section(t) \/ Lock(t) \/ Unlock \/ UNCHANGED lock
  PROVE  lock' \in LockType
<1>1. \A l \in LockType : Unlocked(l) \in LockType
  BY DEF LockType, Unlocked
<1>2. Locked(lock, t) \in LockType
  BY DEF LockType, Locked
<1> QED BY <1>1, <1>2 DEF Section, Lock, Unlock

LEMMA LockStep ==
  ASSUME TypeOK, [Next]_vars
  PROVE  lock' \in LockType
<1>0. lock \in LockType
  BY DEF TypeOK, LockType
<1>1. CASE TakeCommand
  <2>1. Section("main") \/ UNCHANGED lock
    BY <1>1 DEF TakeCommand, TakeTerminateApplication, TakeTerminate, TakePrepareForReboot,
       TakeUnregisterProcess, TakeLaunchTitle, TakeLaunchAppDebug
  <2> QED BY <2>1, <1>0, LockTyped
<1>2. CASE RunTask \/ FoundRunning \/ RunnerReady \/ RunnerTakesTask \/ UNCHANGED vars
  <2>1. UNCHANGED lock
    BY <1>2 DEF RunTask, FoundRunning, RunnerReady, RunnerTakesTask, vars
  <2> QED BY <2>1, <1>0
<1>3. CASE \E t \in Threads : Terminate(t) \/ Launch(t)
  <2>1. PICK t \in Threads : Terminate(t) \/ Launch(t)
    BY <1>3
  <2>2. Terminate(t) => Section(t) \/ Lock(t) \/ Unlock \/ UNCHANGED lock
    BY DEF Terminate, ClearEvent, Arm, TerminateApplication, LoopBegin, LoopNext, LoopEnd,
       FindCaller, NotifyAll, NotifyLast, Commit, WaitUntilTimeout, WaitForever, WaitFor, Timeout,
       KillOverdue, Disarm, Panic
  <2>3. Launch(t) => Section(t) \/ Lock(t) \/ Unlock \/ UNCHANGED lock
    BY DEF Launch, CheckLaunch, Load, LoadFails, Insert, Register, MergeOwn, MergeDependency,
       Merge, Mark, RunSucceeds, RunFails, Abandon, MarkDependency, Panic
  <2>4. t \in {"main", "runner", "monitor"}
    BY DEF Threads
  <2> QED BY <2>1, <2>2, <2>3, <2>4, <1>0, LockTyped
<1>4. CASE Monitor
  <2>1. Section("monitor") \/ UNCHANGED lock
    BY <1>4 DEF Monitor, MonitorScan, MonitorCheck, MonitorSignal, MonitorWait,
       MonitorWakesForNewProcess, MonitorWakesForExit, MonitorReap, MonitorDropDependencies,
       MonitorUnregister, MonitorFinish
  <2> QED BY <2>1, <1>0, LockTyped
<1>5. CASE \E p \in Pids : Exit(p)
  BY <1>5, <1>0 DEF Exit
<1>6. "main" \in Threads /\ "runner" \in Threads
  BY DEF Threads
<1> QED BY <1>1, <1>2, <1>3, <1>4, <1>5, <1>6 DEF Next, Main, Runner

(* The listed processes are open, so the monitor waits for processes.       *)
LEMMA ListedHandles ==
  ASSUME TypeOK, ListSound, NEW n \in ToSet(processList)
  PROVE  n \in Nodes /\ node[n].handle \in held /\ node[n].handle \in Pids /\ node[n] \in ProcessData
<1>1. n \in Nodes
  BY ListsApart
<1>2. node[n].handle \in held
  BY DEF ListSound, HandlesOf
<1> QED BY <1>1, <1>2 DEF TypeOK

LEMMA MonStep ==
  ASSUME TypeOK, ListSound, [Next]_vars
  PROVE  mon' \in MonitorState
<1>0. mon \in MonitorState /\ node \in [Nodes -> ProcessData]
  BY DEF TypeOK
<1>1. CASE UNCHANGED mon
  BY <1>0, <1>1
<1>2. CASE MonitorScan
  <2> DEFINE live == {k \in DOMAIN processList : node[processList[k]].status # "terminated"}
             q == [k \in DOMAIN processList |-> node[processList[k]].handle]
             hs == Chosen(q, live)
             b == \E k \in live : node[processList[k]].status = "sent"
  <2>1. mon' = [mon EXCEPT !.pc = "check", !.handles = hs, !.terminating = b]
    BY <1>2, Zenon DEF MonitorScan
  <2>2. q \in Seq(Pids) /\ DOMAIN q = DOMAIN processList
    <3>1. \A k \in DOMAIN processList : node[processList[k]].handle \in Pids
      BY ListedHandles DEF ToSet
    <3>2. Len(processList) \in Nat /\ DOMAIN processList = 1..Len(processList)
      BY ListsApart
    <3> QED BY <3>1, <3>2
  <2>3. hs \in Seq(Pids)
    <3>1. live \in SUBSET (DOMAIN q)
      BY <2>2
    <3> HIDE DEF q, live
    <3> QED BY <2>2, <3>1, ChosenProperties
  <2>4. b \in BOOLEAN
    OBVIOUS
  <2> HIDE DEF hs, b
  <2> QED BY <2>1, <2>3, <2>4, <1>0 DEF MonitorState
<1>3. CASE MonitorCheck \/ MonitorSignal \/ MonitorWait \/ MonitorWakesForNewProcess
           \/ MonitorDropDependencies \/ MonitorUnregister
  <2>1. \E pc \in {"signal", "wait", "asleep", "scan", "unregister", "finish"} :
          mon' = [mon EXCEPT !.pc = pc]
    BY <1>3 DEF MonitorCheck, MonitorSignal, MonitorWait, MonitorWakesForNewProcess,
       MonitorDropDependencies, MonitorUnregister
  <2> QED BY <2>1, <1>0 DEF MonitorState
<1>4. CASE MonitorWakesForExit
  <2>1. PICK k \in DOMAIN mon.handles : mon' = [mon EXCEPT !.pc = "reap", !.exited = mon.handles[k]]
    BY <1>4 DEF MonitorWakesForExit
  <2>2. mon.handles[k] \in Pids
    BY <1>0 DEF MonitorState
  <2> QED BY <2>1, <2>2, <1>0 DEF MonitorState
<1>5. CASE MonitorReap
  <2> DEFINE n == FindProcessById(mon.exited)
             p == [node[n] EXCEPT !.status = "terminated", !.flags = ExitFlags(@)]
             pc == IF "depsLoaded" \in p.flags THEN "drop" ELSE "unregister"
  <2>1. \/ mon' = [mon EXCEPT !.pc = "scan", !.exited = NoPid]
        \/ n # NoNode /\ mon' = [mon EXCEPT !.backup = p, !.exited = NoPid, !.pc = pc]
    BY <1>5, Zenon DEF MonitorReap
  <2>2. n # NoNode => p \in ProcessData
    <3> SUFFICES ASSUME n # NoNode PROVE p \in ProcessData
      OBVIOUS
    <3> DEFINE ns == {m \in Nodes : node[m].handle = mon.exited}
    <3>1. n = FirstListed(ns) /\ ns \in SUBSET Nodes
      BY DEF FindProcessById
    <3>2. n \in Nodes
      <4> HIDE DEF ns, n
      <4> QED BY <3>1, ListsApart, FirstListedProperties
    <3>3. node[n] \in ProcessData /\ ExitFlags(node[n].flags) \in SUBSET Flags
      BY <3>2, <1>0 DEF ProcessData, ExitFlags, Flags
    <3> HIDE DEF n
    <3> QED BY <3>3 DEF ProcessData
  <2>3. pc \in {"drop", "unregister"}
    OBVIOUS
  <2> HIDE DEF n, p, pc
  <2> QED BY <2>1, <2>2, <2>3, <1>0 DEF MonitorState
<1>6. CASE MonitorFinish
  <2>1. mon' = [mon EXCEPT !.pc = "scan", !.backup = BlankProcess]
    BY <1>6 DEF MonitorFinish
  <2>2. BlankProcess \in ProcessData
    BY DEF BlankProcess, ProcessData
  <2> QED BY <2>1, <2>2, <1>0 DEF MonitorState
<1>7. CASE TakeCommand
  BY <1>7, <1>1 DEF TakeCommand, TakeTerminateApplication, TakeTerminate, TakePrepareForReboot,
     TakeUnregisterProcess, TakeLaunchTitle, TakeLaunchAppDebug
<1>8. CASE RunTask \/ FoundRunning \/ RunnerReady \/ RunnerTakesTask \/ UNCHANGED vars
           \/ \E p \in Pids : Exit(p)
  BY <1>8, <1>1 DEF RunTask, FoundRunning, RunnerReady, RunnerTakesTask, vars, Exit
<1>9. CASE \E t \in Threads : Terminate(t)
  BY <1>9, <1>1 DEF Terminate, ClearEvent, Arm, TerminateApplication, LoopBegin, LoopNext, LoopEnd,
     FindCaller, NotifyAll, NotifyLast, Commit, WaitUntilTimeout, WaitForever, WaitFor, Timeout,
     KillOverdue, Disarm, Panic
<1>10. CASE \E t \in Threads : Launch(t)
  BY <1>10, <1>1 DEF Launch, CheckLaunch, Load, LoadFails, Insert, Register, MergeOwn, MergeDependency,
     Merge, Mark, RunSucceeds, RunFails, Abandon, MarkDependency, Panic
<1>11. "main" \in Threads /\ "runner" \in Threads
  BY DEF Threads
<1> QED BY <1>2, <1>3, <1>4, <1>5, <1>6, <1>7, <1>8, <1>9, <1>10, <1>11 DEF Next, Main, Runner, Monitor

(* What only takes values of a small set, and the counters                  *)
Scalars ==
  /\ newProcessEvent \in BOOLEAN /\ allNotifiedTerminationEvent \in BOOLEAN
  /\ running \in Nodes \cup {NoNode}
  /\ waitingForTermination \in BOOLEAN /\ preparingForReboot \in BOOLEAN
  /\ ready \in BOOLEAN /\ parametersSet \in BOOLEAN /\ task \in Requests \cup {NoRequest}
  /\ served \in 0..MaxRequests /\ told \in [Pids -> Nat] /\ panicked \in BOOLEAN

LEMMA ScalarStep ==
  ASSUME TypeOK, [Next]_vars
  PROVE  Scalars'
<1>0. Scalars /\ loc \in [Threads -> Thread] /\ MaxRequests \in Nat
  BY RequestsAssumption DEF TypeOK, Scalars, Threads
<1>1. \A p : [told EXCEPT ![p] = @ + 1] \in [Pids -> Nat]
  <2> SUFFICES ASSUME NEW p PROVE [told EXCEPT ![p] = @ + 1] \in [Pids -> Nat]
    OBVIOUS
  <2>1. told \in [Pids -> Nat]
    BY <1>0 DEF Scalars
  <2>2. CASE p \in Pids
    <3> DEFINE v == told[p] + 1
    <3>1. v \in Nat
      BY <2>1, <2>2
    <3> HIDE DEF v
    <3>2. [told EXCEPT ![p] = v] \in [Pids -> Nat]
      BY <2>1, <3>1
    <3> QED BY <3>2 DEF v
  <2>3. CASE p \notin Pids
    <3> DEFINE v == told[p] + 1
    <3> HIDE DEF v
    <3>1. [told EXCEPT ![p] = v] \in [Pids -> Nat]
      BY <2>1, <2>3
    <3> QED BY <3>1 DEF v
  <2> QED BY <2>2, <2>3
<1>2. CASE TakeCommand
  <2>1. served' \in 0..MaxRequests
    <3>1. served' = served + 1 /\ served < MaxRequests
      BY <1>2 DEF TakeCommand, TakeTerminateApplication, TakeTerminate, TakePrepareForReboot,
         TakeUnregisterProcess, TakeLaunchTitle, TakeLaunchAppDebug, Takes
    <3> QED BY <3>1, <1>0 DEF Scalars
  <2>2. CASE TakeTerminateApplication \/ TakeTerminate \/ TakeLaunchTitle \/ TakeLaunchAppDebug
    BY <2>1, <2>2, <1>0 DEF Scalars, TakeTerminateApplication, TakeTerminate,
       TakeLaunchTitle, TakeLaunchAppDebug, kernelVars, managerVars, taskVars
  <2>3. CASE TakePrepareForReboot
    BY <2>1, <2>3, <1>0 DEF Scalars, TakePrepareForReboot, kernelVars, taskVars
  <2>4. CASE TakeUnregisterProcess
    BY <2>1, <2>4, <1>0 DEF Scalars, TakeUnregisterProcess, taskVars
  <2> QED BY <1>2, <2>2, <2>3, <2>4 DEF TakeCommand
<1>3. CASE RunTask
  <2>1. loc["main"].req \in Requests \cup {NoRequest}
    BY <1>0 DEF Threads, Thread
  <2> QED BY <1>3, <2>1, <1>0 DEF RunTask, Scalars, kernelVars, managerVars
<1>4. CASE FoundRunning \/ RunnerReady \/ RunnerTakesTask
  BY <1>4, <1>0 DEF FoundRunning, RunnerReady, RunnerTakesTask, Scalars, kernelVars, managerVars, taskVars
<1>5. CASE \E t \in Threads : Terminate(t)
  <2> SUFFICES ASSUME NEW t \in Threads, Terminate(t) PROVE Scalars'
    BY <1>5
  <2>1. CASE ClearEvent(t) \/ Arm(t)
    BY <2>1, <1>0 DEF ClearEvent, Arm, Cleared, Scalars, kernelVars, managerVars, taskVars
  <2>2. CASE TerminateApplication(t) \/ LoopBegin(t) \/ LoopNext(t) \/ LoopEnd(t) \/ FindCaller(t)
    BY <2>2, <1>0 DEF TerminateApplication, LoopBegin, LoopNext, LoopEnd, FindCaller, Scalars,
       kernelVars, managerVars, taskVars
  <2>3. CASE NotifyAll(t) \/ NotifyLast(t)
    BY <2>3, <1>0 DEF NotifyAll, NotifyLast, Panic, Scalars, kernelVars, managerVars, taskVars
  <2>4. CASE Commit(t) \/ WaitUntilTimeout(t) \/ WaitForever(t) \/ Timeout(t) \/ KillOverdue(t)
    BY <2>4, <1>0 DEF Commit, WaitUntilTimeout, WaitForever, WaitFor, Timeout, KillOverdue, Scalars,
       kernelVars, managerVars, taskVars
  <2>5. CASE Disarm(t)
    BY <2>5, <1>0, <1>1 DEF Disarm, Scalars, kernelVars, managerVars, taskVars
  <2> QED BY <2>1, <2>2, <2>3, <2>4, <2>5 DEF Terminate
<1>6. CASE \E t \in Threads : Launch(t)
  <2> SUFFICES ASSUME NEW t \in Threads, Launch(t) PROVE Scalars'
    BY <1>6
  <2>1. CASE CheckLaunch(t) \/ Load(t) \/ LoadFails(t) \/ Register(t) \/ Mark(t)
    BY <2>1, <1>0 DEF CheckLaunch, Load, LoadFails, Register, Mark, Scalars, kernelVars, managerVars, taskVars
  <2>2. CASE Insert(t) \/ MergeOwn(t) \/ MergeDependency(t) \/ MarkDependency(t)
    BY <2>2, <1>0 DEF Insert, MergeOwn, MergeDependency, Merge, MarkDependency, Panic, Scalars,
       kernelVars, managerVars, taskVars
  <2>3. CASE RunFails(t) \/ Abandon(t)
    BY <2>3, <1>0 DEF RunFails, Abandon, Scalars, managerVars, taskVars
  <2>4. CASE RunSucceeds(t)
    <3>1. loc[t].cur \in Nodes \cup {NoNode}
      BY <1>0 DEF Thread
    <3> QED BY <2>4, <3>1, <1>0 DEF RunSucceeds, Scalars, taskVars
  <2> QED BY <2>1, <2>2, <2>3, <2>4 DEF Launch
<1>7. CASE Monitor
  <2>1. CASE MonitorScan \/ MonitorCheck \/ MonitorWait \/ MonitorWakesForExit
             \/ MonitorReap \/ MonitorDropDependencies
    BY <2>1, <1>0 DEF MonitorScan, MonitorCheck, MonitorWait, MonitorWakesForExit, MonitorReap,
       MonitorDropDependencies, Scalars, kernelVars, managerVars, taskVars
  <2>2. CASE MonitorSignal \/ MonitorWakesForNewProcess \/ MonitorUnregister
    BY <2>2, <1>0 DEF MonitorSignal, MonitorWakesForNewProcess, MonitorUnregister, Scalars, managerVars, taskVars
  <2>3. CASE MonitorFinish
    BY <2>3, <1>0, <1>1 DEF MonitorFinish, Scalars, taskVars
  <2> QED BY <1>7, <2>1, <2>2, <2>3 DEF Monitor
<1>8. CASE (\E p \in Pids : Exit(p)) \/ UNCHANGED vars
  BY <1>8, <1>0 DEF Exit, vars, Scalars, kernelVars, managerVars, taskVars
<1>9. "main" \in Threads /\ "runner" \in Threads
  BY DEF Threads
<1> QED BY <1>2, <1>3, <1>4, <1>5, <1>6, <1>7, <1>8, <1>9 DEF Next, Main, Runner

---------------------------------------------------------------------------
(* The steps that matter to the list: everything else is quiet              *)

Quiet ==
  /\ UNCHANGED <<processList, freeList, held>>
  /\ Closing' => Closing /\ mon'.backup = mon.backup
  /\ \A t \in Threads : Entering(t)' => Entering(t) /\ loc'[t].pid = loc[t].pid

(* A thread starts to enter a process only when it has loaded it.           *)
Stays == \A u \in Threads : Entering(u)' => Entering(u) /\ loc'[u].pid = loc[u].pid

LEMMA StaysOut ==
  ASSUME TypeOK, NEW t \in Threads, NEW l, loc' = [loc EXCEPT ![t] = l], l.pc # "insert"
  PROVE  Stays
BY DEF TypeOK, Threads, Entering, Stays

LEMMA StaysThere ==
  ASSUME UNCHANGED loc
  PROVE  Stays
BY DEF Entering, Stays

LEMMA StaysOutGoing ==
  ASSUME TypeOK, NEW t \in Threads, NEW pc, pc # "insert", Goes(t, pc)
  PROVE  Stays
<1> DEFINE l == [loc[t] EXCEPT !.pc = pc]
<1>1. loc' = [loc EXCEPT ![t] = l] /\ loc[t] \in Thread
  BY DEF TypeOK, Threads, Goes
<1>2. l.pc = pc
  BY <1>1 DEF Thread
<1> HIDE DEF l
<1> QED BY <1>1, <1>2, StaysOut

LEMMA StaysOutReturning ==
  ASSUME TypeOK, NEW t \in Threads, Returns(t)
  PROVE  Stays
<1>1. loc' = [loc EXCEPT ![t] = Returned(t)]
  BY DEF Returns
<1>2. Returned(t).pc # "insert"
  BY ReturnedOK
<1> QED BY <1>1, <1>2, StaysOut

LEMMA TerminationStays ==
  ASSUME TypeOK, NEW t \in Threads, Terminate(t)
  PROVE  Stays
<1>0. loc \in [Threads -> Thread] /\ loc[t] \in Thread
  BY DEF TypeOK, Threads
<1>1. CASE \/ ClearEvent(t) \/ Arm(t) \/ TerminateApplication(t) \/ Commit(t)
           \/ WaitUntilTimeout(t) \/ WaitForever(t) \/ Timeout(t) \/ KillOverdue(t)
  <2>1. \E pc \in EasyPlaces : Goes(t, pc)
    BY <1>1, Zenon DEF ClearEvent, Arm, TerminateApplication, Commit, WaitUntilTimeout, WaitForever, WaitFor,
       Timeout, KillOverdue, EasyPlaces
  <2>2. "insert" \notin EasyPlaces
    BY DEF EasyPlaces
  <2> QED BY <2>1, <2>2, StaysOutGoing
<1>2. CASE NotifyAll(t) \/ NotifyLast(t)
  <2>1. UNCHANGED loc \/ Goes(t, "commit")
    BY <1>2 DEF NotifyAll, NotifyLast, Panic
  <2> QED BY <2>1, StaysOutGoing, StaysThere
<1>3. CASE LoopBegin(t)
  BY <1>3, <1>0 DEF LoopBegin, Stays, Entering, Thread
<1>4. CASE LoopNext(t)
  <2> DEFINE k == CHOOSE j \in Remaining(t) : \A i \in Remaining(t) : j <= i
             n == processList[k]
             at == IF loc[t].req.op = "TerminateTitle" THEN k ELSE Len(processList)
             tell == IF Has(n, "notify") THEN node[n].handle ELSE loc[t].tell
  <2>1. loc' = [loc EXCEPT ![t].at = at, ![t].tell = tell] /\ loc[t].pc = "loop"
    BY <1>4, Zenon DEF LoopNext, At
  <2> HIDE DEF at, tell
  <2> QED BY <2>1, <1>0 DEF Stays, Entering, Thread
<1>5. CASE LoopEnd(t)
  <2>1. Goes(t, "commit") \/ Returns(t)
    BY <1>5 DEF LoopEnd
  <2> QED BY <2>1, StaysOutGoing, StaysOutReturning
<1>6. CASE FindCaller(t)
  <2> DEFINE n == FindProcessById(loc[t].req.pid)
             spared == IF n = NoNode THEN {} ELSE ToSet(Deps[node[n].title])
  <2>1. loc' = [loc EXCEPT ![t].pc = "all", ![t].proc = n, ![t].spared = spared]
    BY <1>6, Zenon DEF FindCaller
  <2> HIDE DEF n, spared
  <2> QED BY <2>1, <1>0 DEF Stays, Entering, Thread
<1>7. CASE Disarm(t)
  <2> DEFINE l == [loc[t] EXCEPT !.pc = "clear", !.at = 1]
  <2>1. loc' = [loc EXCEPT ![t] = l] \/ Returns(t)
    BY <1>7, <1>0 DEF Disarm, Returns
  <2>2. l.pc = "clear"
    BY <1>0 DEF Thread
  <2> HIDE DEF l
  <2> QED BY <2>1, <2>2, StaysOut, StaysOutReturning
<1> QED BY <1>1, <1>2, <1>3, <1>4, <1>5, <1>6, <1>7 DEF Terminate

LEMMA LaunchStays ==
  ASSUME TypeOK, LocsOK, NEW t \in Threads, Launch(t)
  PROVE  Load(t) \/ Stays
<1>0. loc \in [Threads -> Thread] /\ loc[t] \in Thread /\ PlaceOK(loc[t])
  BY DEF TypeOK, Threads, LocsOK
<1>1. CASE CheckLaunch(t)
  <2>1. Returns(t) \/ loc' = [loc EXCEPT ![t].pc = "load", ![t].title = loc[t].req.title]
    BY <1>1 DEF CheckLaunch
  <2>2. CASE Returns(t)
    BY <2>2, StaysOutReturning
  <2>3. CASE ~Returns(t)
    <3> DEFINE x == loc[t].req.title
    <3>1. loc' = [loc EXCEPT ![t].pc = "load", ![t].title = x]
      BY <2>1, <2>3
    <3> HIDE DEF x
    <3> QED BY <3>1, <1>0 DEF Stays, Entering, Thread
  <2> QED BY <2>2, <2>3
<1>2. CASE LoadFails(t)
  <2> DEFINE l == [loc[t] EXCEPT !.pc = "abandon"]
  <2>1. loc[t].title \in Titles
    BY <1>2, <1>0 DEF LoadFails, At, PlaceOK, LaunchPlaces
  <2>2. Returns(t) \/ loc' = [loc EXCEPT ![t] = Onward(loc[t])] \/ loc' = [loc EXCEPT ![t] = l]
    BY <1>2, <1>0 DEF LoadFails
  <2>3. l.pc = "abandon"
    BY <1>0 DEF Thread
  <2> HIDE DEF l
  <2>4. Onward(loc[t]).pc # "insert"
    BY <2>1, <1>0, OnwardOK
  <2> QED BY <2>2, <2>3, <2>4, StaysOut, StaysOutReturning
<1>3. CASE Insert(t)
  <2>1. CASE freeList = <<>>
    <3>1. UNCHANGED loc
      BY <1>3, <2>1 DEF Insert, Panic
    <3> QED BY <3>1, StaysThere
  <2>2. CASE freeList # <<>>
    <3> DEFINE n == Head(freeList)
               p == IF Outer(t) THEN n ELSE loc[t].proc
    <3>1. loc' = [loc EXCEPT ![t].pc = "register", ![t].cur = n, ![t].proc = p]
      BY <1>3, <2>2, Zenon DEF Insert
    <3> HIDE DEF n, p
    <3> QED BY <3>1, <1>0 DEF Stays, Entering, Thread
  <2> QED BY <2>1, <2>2
<1>4. CASE Register(t)
  <2>1. Goes(t, "merge") \/ Goes(t, "run")
    BY <1>4 DEF Register
  <2> QED BY <2>1, StaysOutGoing
<1>5. CASE MergeOwn(t) \/ MergeDependency(t)
  <2> DEFINE a == Merged(t)
             m == [loc[t] EXCEPT !.pc = "mark", !.array = a]
             d == [loc[t] EXCEPT !.array = a]
  <2>1. loc[t].title \in Titles
    BY <1>5, <1>0 DEF MergeOwn, MergeDependency, At, PlaceOK, LaunchPlaces
  <2>2. a \in Seq(Dependency)
    BY <2>1, MergedTyped
  <2>3. UNCHANGED loc \/ loc' = [loc EXCEPT ![t] = m] \/ loc' = [loc EXCEPT ![t] = Onward(d)]
    BY <1>5, Zenon DEF MergeOwn, MergeDependency, Merge, Panic
  <2> HIDE DEF a
  <2>4. m.pc = "mark" /\ d \in Thread /\ d.title \in Titles
    BY <2>1, <2>2, <1>0 DEF Thread, Places
  <2> HIDE DEF m, d
  <2>5. Onward(d).pc # "insert"
    BY <2>4, OnwardOK
  <2> QED BY <2>3, <2>4, <2>5, StaysOut, StaysThere
<1>6. CASE Mark(t)
  <2>1. loc' = [loc EXCEPT ![t] = Onward(loc[t])] /\ loc[t].title \in Titles
    BY <1>6, <1>0 DEF Mark, At, PlaceOK, LaunchPlaces
  <2>2. Onward(loc[t]).pc # "insert"
    BY <2>1, <1>0, OnwardOK
  <2> QED BY <2>1, <2>2, StaysOut
<1>7. CASE RunSucceeds(t) \/ RunFails(t) \/ Abandon(t)
  <2>1. Returns(t) \/ Goes(t, "markDep") \/ Goes(t, "abandon")
    BY <1>7 DEF RunSucceeds, RunFails, Abandon
  <2> QED BY <2>1, StaysOutReturning, StaysOutGoing
<1>8. CASE MarkDependency(t)
  <2> DEFINE n == loc[t].cur
             k == loc[t].at
             e == [loc[t].array[k] EXCEPT !.proc = n, !.rem = 0]
             a == [loc[t].array EXCEPT ![k] = e]
             l == [loc[t] EXCEPT !.pc = "mergeDep", !.array = a]
  <2>1. CASE UNCHANGED loc
    BY <2>1, StaysThere
  <2>2. CASE ~UNCHANGED loc
    <3>1. loc' = [loc EXCEPT ![t].pc = "mergeDep", ![t].array[k] = e]
      BY <1>8, <2>2 DEF MarkDependency, Panic
    <3>2. loc' = [loc EXCEPT ![t] = l]
      <4> HIDE DEF e, k
      <4> QED BY <3>1, <1>0
    <3> HIDE DEF a
    <3>3. l.pc = "mergeDep"
      BY <1>0 DEF Thread
    <3> HIDE DEF l
    <3> QED BY <3>2, <3>3, StaysOut
  <2> QED BY <2>1, <2>2
<1>9. CASE Load(t)
  BY <1>9
<1> QED BY <1>1, <1>2, <1>3, <1>4, <1>5, <1>6, <1>7, <1>8, <1>9 DEF Launch

LEMMA CommandStays ==
  ASSUME TypeOK, LocsOK, TakeCommand
  PROVE  Stays
<1>0. loc \in [Threads -> Thread] /\ "main" \in Threads
  BY DEF TypeOK, Threads
<1>1. CASE UNCHANGED loc
  BY <1>1, StaysThere
<1>2. ASSUME NEW r \in Requests, MainGoes(r, StartPc(r)) \/ MainGoes(r, "runTask")
      PROVE  Stays
  <2>1. PICK pc : pc # "insert" /\ loc' = [loc EXCEPT !["main"].pc = pc, !["main"].req = r]
    BY <1>2, StartPcTyped DEF MainGoes
  <2> QED BY <2>1, <1>0 DEF Stays, Entering, Thread
<1>3. ASSUME NEW n, loc' = [loc EXCEPT !["main"].pc = "found", !["main"].proc = n]
      PROVE  Stays
  BY <1>3, <1>0 DEF Stays, Entering, Thread
<1>4. CASE TakeTerminateApplication \/ TakeTerminate \/ TakePrepareForReboot
  BY <1>4, <1>1, <1>2 DEF TakeTerminateApplication, TakeTerminate, TakePrepareForReboot, Of
<1>5. CASE TakeUnregisterProcess \/ TakeLaunchAppDebug
  BY <1>5, <1>1, <1>2 DEF TakeUnregisterProcess, TakeLaunchAppDebug, Of
<1>6. CASE TakeLaunchTitle
  BY <1>6, <1>1, <1>2, <1>3 DEF TakeLaunchTitle, Of
<1> QED BY <1>4, <1>5, <1>6 DEF TakeCommand

LEMMA MonitorKinds ==
  ASSUME TypeOK, Monitor
  PROVE  MonitorReap \/ MonitorFinish \/ Quiet
<1>0. loc \in [Threads -> Thread] /\ mon \in MonitorState
  BY DEF TypeOK, Threads
<1>1. CASE MonitorSignal
  <2>1. UNCHANGED loc \/ \E t \in Threads : Goes(t, "disarm")
    BY <1>1, <1>0 DEF MonitorSignal, BlockedOnEvent, Goes
  <2>2. Stays
    BY <2>1, StaysThere, StaysOutGoing
  <2>3. UNCHANGED <<processList, freeList, held>> /\ ~Closing'
    BY <1>1, <1>0 DEF MonitorSignal, Closing, MonitorState, listVars
  <2> QED BY <2>2, <2>3 DEF Quiet, Stays
<1>2. CASE \/ MonitorScan \/ MonitorCheck \/ MonitorWait
           \/ MonitorWakesForNewProcess \/ MonitorWakesForExit
  <2>1. UNCHANGED loc /\ UNCHANGED <<processList, freeList, held>>
    BY <1>2 DEF MonitorScan, MonitorCheck, MonitorWait, MonitorWakesForNewProcess,
       MonitorWakesForExit, listVars, kernelVars
  <2>2. mon'.pc \in {"check", "signal", "wait", "asleep", "scan", "reap"}
    <3>1. CASE MonitorScan
      <4>1. \E h, b : mon' = [mon EXCEPT !.pc = "check", !.handles = h, !.terminating = b]
        BY <3>1, Zenon DEF MonitorScan
      <4> QED BY <4>1, <1>0 DEF MonitorState
    <3>2. CASE MonitorCheck \/ MonitorWait \/ MonitorWakesForNewProcess \/ MonitorWakesForExit
      BY <3>2, <1>0 DEF MonitorCheck, MonitorWait, MonitorWakesForNewProcess, MonitorWakesForExit, MonitorState
    <3> QED BY <3>1, <3>2, <1>2
  <2>3. ~Closing'
    BY <2>2 DEF Closing
  <2>4. Stays
    BY <2>1, StaysThere
  <2> QED BY <2>1, <2>3, <2>4 DEF Quiet, Stays
<1>3. CASE MonitorDropDependencies \/ MonitorUnregister
  <2>1. UNCHANGED loc /\ UNCHANGED <<processList, freeList, held>>
    BY <1>3 DEF MonitorDropDependencies, MonitorUnregister, kernelVars, listVars
  <2>2. mon'.backup = mon.backup /\ mon.pc \in {"drop", "unregister"}
    BY <1>3, <1>0 DEF MonitorDropDependencies, MonitorUnregister, MonitorIs, MonitorState
  <2>3. Closing' => Closing
    BY <2>2 DEF Closing
  <2>4. Stays
    BY <2>1, StaysThere
  <2> QED BY <2>1, <2>2, <2>3, <2>4 DEF Quiet, Stays
<1> QED BY <1>1, <1>2, <1>3 DEF Monitor

LEMMA StepKinds ==
  ASSUME TypeOK, ControlOK, [Next]_vars
  PROVE  \/ \E t \in Threads : Enters(t) \/ Load(t)
         \/ MonitorReap \/ MonitorFinish \/ TakeUnregisterProcess \/ Quiet
<1>0. LocsOK /\ "main" \in Threads /\ "runner" \in Threads
  BY DEF TypeOK, ControlOK, LocsOK, Threads
<1>1. ASSUME UNCHANGED <<processList, freeList, held>>, UNCHANGED mon, Stays
      PROVE  Quiet
  BY <1>1 DEF Quiet, Closing, Stays
<1>2. CASE TakeCommand /\ ~TakeUnregisterProcess
  <2>1. UNCHANGED <<processList, freeList, held>> /\ UNCHANGED mon
    BY <1>2 DEF TakeCommand, TakeTerminateApplication, TakeTerminate, TakePrepareForReboot,
       TakeLaunchTitle, TakeLaunchAppDebug, kernelVars, listVars
  <2> QED BY <2>1, <1>0, <1>1, <1>2, CommandStays
<1>3. CASE FoundRunning \/ RunTask
  <2>1. Returns("main") /\ UNCHANGED <<processList, freeList, held>> /\ UNCHANGED mon
    BY <1>3 DEF FoundRunning, RunTask, kernelVars, listVars
  <2> QED BY <2>1, <1>0, <1>1, StaysOutReturning
<1>4. CASE RunnerReady
  <2>1. Goes("runner", "parameters") /\ UNCHANGED <<processList, freeList, held>> /\ UNCHANGED mon
    BY <1>4 DEF RunnerReady, kernelVars, listVars
  <2> QED BY <2>1, <1>0, <1>1, StaysOutGoing
<1>5. CASE RunnerTakesTask
  <2>1. /\ loc' = [loc EXCEPT !["runner"].pc = StartPc(task), !["runner"].req = task]
        /\ UNCHANGED <<processList, freeList, held>> /\ UNCHANGED mon /\ parametersSet
    BY <1>5 DEF RunnerTakesTask, kernelVars, listVars
  <2>2. StartPc(task) # "insert"
    BY <2>1, StartPcTyped DEF ControlOK
  <2> DEFINE pc == StartPc(task)
  <2>3. pc # "insert" /\ loc' = [loc EXCEPT !["runner"].pc = pc, !["runner"].req = task]
    BY <2>1, <2>2
  <2> HIDE DEF pc
  <2>4. Stays
    BY <2>3, <1>0 DEF Stays, Entering, Thread, LocsOK
  <2> QED BY <2>1, <2>4, <1>1
<1>6. CASE \E t \in Threads : Terminate(t)
  <2>1. UNCHANGED <<processList, freeList, held>> /\ UNCHANGED mon
    BY <1>6 DEF Terminate, ClearEvent, Arm, TerminateApplication, LoopBegin, LoopNext, LoopEnd,
       FindCaller, NotifyAll, NotifyLast, Commit, WaitUntilTimeout, WaitForever, WaitFor, Timeout,
       KillOverdue, Disarm, Panic, kernelVars, listVars
  <2> QED BY <2>1, <1>1, <1>6, TerminationStays
<1>7. CASE \E t \in Threads : Launch(t)
  <2>1. PICK t \in Threads : Launch(t)
    BY <1>7
  <2>2. CASE Load(t) \/ Enters(t)
    BY <2>2
  <2>3. CASE ~Load(t) /\ ~Enters(t)
    <3>1. UNCHANGED <<processList, freeList, held>> /\ UNCHANGED mon
      BY <2>1, <2>3 DEF Launch, CheckLaunch, LoadFails, Insert, Enters, Register, MergeOwn,
         MergeDependency, Merge, Mark, RunSucceeds, RunFails, Abandon, MarkDependency, Panic,
         kernelVars, listVars
    <3> QED BY <3>1, <2>1, <2>3, <1>0, <1>1, LaunchStays
  <2> QED BY <2>2, <2>3
<1>8. CASE Monitor
  BY <1>8, MonitorKinds
<1>9. CASE (\E p \in Pids : Exit(p)) \/ UNCHANGED vars
  <2>1. UNCHANGED loc /\ UNCHANGED <<processList, freeList, held>> /\ UNCHANGED mon
    BY <1>9 DEF Exit, vars, kernelVars, listVars
  <2> QED BY <2>1, <1>1, StaysThere
<1> QED BY <1>0, <1>2, <1>3, <1>4, <1>5, <1>6, <1>7, <1>8, <1>9 DEF Next, Main, Runner

---------------------------------------------------------------------------
(* The invariant is inductive                                               *)

ListInv == Parted /\ ListSound /\ ListedTitles /\ HeldBorn /\ EnteringOK /\ ClosingOK

LEMMA QuietStep ==
  ASSUME IInv, Quiet, Kept(node, node'), Grown(kern, kern')
  PROVE  ListInv'
<1>1. /\ ToSet(processList') = ToSet(processList) /\ held' = held
      /\ processList' = processList /\ freeList' = freeList
      /\ ToSet(processList) \subseteq Nodes /\ held \subseteq Pids
      /\ \A n \in Nodes : node'[n].handle = node[n].handle /\ node'[n].title = node[n].title
      /\ \A p \in Pids : kern[p].st # "none" => kern'[p].st # "none"
  BY ListsApart DEF IInv, TypeOK, Quiet, Kept, SameProcess, Grown
<1>2. Parted'
  BY <1>1 DEF IInv, TypeOK, ListSound, Parted
<1>3. ListSound'
  BY <1>1 DEF IInv, ListSound, HandlesOf
<1>4. ListedTitles' /\ HeldBorn'
  BY <1>1 DEF IInv, ListedTitles, HeldBorn
<1>5. ListedPids' = ListedPids
  BY <1>1 DEF ListedPids, HandlesOf
<1>6. EnteringOK'
  BY <1>1, <1>5 DEF IInv, EnteringOK, Quiet, Threads
<1>7. ClosingOK'
  BY <1>1, <1>5 DEF IInv, ClosingOK, Quiet
<1> QED BY <1>2, <1>3, <1>4, <1>6, <1>7 DEF ListInv

LEMMA LoadStep ==
  ASSUME IInv, NEW t \in Threads, Load(t)
  PROVE  ListInv'
<1> DEFINE q == NextPid
<1>1. /\ Grown(kern, kern') /\ q \in Pids /\ kern[q].st = "none" /\ kern'[q].st # "none"
      /\ held' = held \cup {q} /\ loc'[t].pid = q /\ loc'[t].pc = "insert"
      /\ \A u \in Threads : u # t => loc'[u] = loc[u]
  BY LoadGrown DEF IInv
<1> HIDE DEF q
<1>2. /\ UNCHANGED listVars /\ UNCHANGED mon
  BY DEF Load
<1>3. q \notin held /\ held \subseteq Pids
  BY <1>1 DEF IInv, HeldBorn, TypeOK
<1>4. q \notin ListedPids
  BY <1>3, ListedHandles DEF IInv, ListedPids, HandlesOf
<1>5. \A p \in Pids : kern[p].st # "none" => kern'[p].st # "none" /\ p # q
  BY <1>1 DEF Grown
<1>6. Parted'
  BY <1>2 DEF IInv, TypeOK, ListSound, Parted, listVars
<1>7. ListSound'
  BY <1>1, <1>2 DEF IInv, ListSound, HandlesOf, listVars
<1>8. ListedTitles' /\ HeldBorn'
  BY <1>1, <1>2, <1>3, <1>5 DEF IInv, ListedTitles, HeldBorn, listVars
<1>9. ListedPids' = ListedPids
  BY <1>2 DEF ListedPids, HandlesOf, listVars
<1>10. \A u \in Threads : Entering(u)' => IF u = t THEN loc'[u].pid = q
                                          ELSE Entering(u) /\ loc'[u].pid = loc[u].pid
  BY <1>1 DEF Entering
<1>11. \A u \in Threads : Entering(u) => loc[u].pid \in held \ ListedPids
  BY DEF IInv, EnteringOK
<1>12. EnteringOK'
  <2>1. \A u \in Threads : Entering(u)' => loc'[u].pid \in held' \ ListedPids'
    BY <1>1, <1>4, <1>9, <1>10, <1>11
  <2>2. Entering("main")' /\ Entering("runner")' => loc'["main"].pid # loc'["runner"].pid
    <3>1. \A u \in Threads : u # t /\ Entering(u)' => loc'[u].pid # q
      BY <1>3, <1>10, <1>11
    <3>2. loc'[t].pid = q
      BY <1>1
    <3> QED BY <3>1, <3>2 DEF Threads
  <2> QED BY <2>1, <2>2 DEF EnteringOK
<1>13. ClosingOK'
  <2>1. Closing' => Closing
    BY <1>2 DEF Closing
  <2> DEFINE b == mon.backup.handle
  <2>2. Closing => /\ b \in Pids /\ kern[b].st # "none" /\ b \notin ListedPids
                   /\ \A u \in Threads : Entering(u) => loc[u].pid # b
    BY DEF IInv, ClosingOK
  <2>3. mon'.backup.handle = b
    BY <1>2
  <2> HIDE DEF b
  <2>4. Closing => /\ b \in Pids /\ kern'[b].st # "none" /\ b \notin ListedPids' /\ b # q
    BY <2>2, <1>5, <1>9
  <2>5. Closing => \A u \in Threads : Entering(u)' => loc'[u].pid # b
    BY <2>2, <2>4, <1>10
  <2> QED BY <2>1, <2>3, <2>4, <2>5 DEF ClosingOK
<1> QED BY <1>6, <1>7, <1>8, <1>12, <1>13 DEF ListInv

LEMMA ProcessTyped ==
  ASSUME NEW p \in Pids, NEW ttl \in Titles, NEW f \in SUBSET Flags
  PROVE  /\ Process(p, ttl, f) \in ProcessData /\ Process(p, ttl, f).handle = p
         /\ Process(p, ttl, f).title = ttl
<1>1. BlankProcess \in ProcessData /\ 1 \in 0..255
  BY DEF BlankProcess, ProcessData
<1>2. \A b \in ProcessData, r \in 0..255 :
        LET q == [b EXCEPT !.handle = p, !.title = ttl, !.flags = f, !.refcount = r]
        IN  q \in ProcessData /\ q.handle = p /\ q.title = ttl
  BY DEF ProcessData
<1> QED BY <1>1, <1>2, Zenon DEF Process

(* A process is entered: it was loaded, and nobody else has listed it.      *)
LEMMA EnterStep ==
  ASSUME IInv, NEW t \in Threads, Enters(t)
  PROVE  ListInv' /\ node' \in [Nodes -> ProcessData]
<1> DEFINE h == Head(freeList)
           p == loc[t].pid
           e == Process(loc[t].pid, loc[t].title, {})
<1>0. loc \in [Threads -> Thread] /\ loc[t] \in Thread /\ node \in [Nodes -> ProcessData]
  BY DEF IInv, TypeOK, Threads
<1>1. /\ Parted' /\ h \in Nodes /\ h \notin ToSet(processList)
      /\ ToSet(processList') = ToSet(processList) \cup {h}
  <2>1. TypeOK /\ ListSound
    BY DEF IInv
  <2> QED BY <2>1, EnteredLists
<1>2. /\ node' = [node EXCEPT ![h] = e] /\ held' = held /\ kern' = kern /\ mon' = mon
      /\ loc[t].pc = "insert"
  BY DEF Enters, Insert, At, ProcessList_New, kernelVars
<1>3. p \in Pids /\ loc[t].title \in Titles
  BY <1>2 DEF IInv, ControlOK, PlaceOK, LaunchPlaces
<1>4. p \in held /\ p \notin ListedPids
  BY <1>2 DEF IInv, EnteringOK, Entering
<1>5. loc'[t].pc # "insert" /\ \A u \in Threads : u # t => loc'[u] = loc[u]
  <2> DEFINE r == IF Outer(t) THEN h ELSE loc[t].proc
  <2>1. loc' = [loc EXCEPT ![t].pc = "register", ![t].cur = h, ![t].proc = r]
    BY Zenon DEF Enters, Insert
  <2> HIDE DEF h, r
  <2> QED BY <2>1, <1>0 DEF Thread
<1>6. e \in ProcessData /\ e.handle = p /\ e.title = loc[t].title
  BY <1>3, ProcessTyped
<1> HIDE DEF h, e, p
<1>7. /\ node' \in [Nodes -> ProcessData] /\ node'[h] = e
      /\ \A n \in Nodes : n # h => node'[n] = node[n]
  BY <1>0, <1>1, <1>2, <1>6
<1>8. ToSet(processList) \subseteq Nodes
  BY ListsApart DEF IInv
<1>9. ListedPids' = ListedPids \cup {p}
  <2>1. \A n \in ToSet(processList) : node'[n] = node[n]
    BY <1>1, <1>7, <1>8
  <2>2. ListedPids = {node[n].handle : n \in ToSet(processList)}
    BY DEF ListedPids, HandlesOf
  <2>3. ListedPids' = {node'[n].handle : n \in ToSet(processList')}
    BY DEF ListedPids, HandlesOf
  <2>4. {node'[n].handle : n \in ToSet(processList')} =
          {node'[n].handle : n \in ToSet(processList)} \cup {node'[h].handle}
    BY <1>1
  <2>5. {node'[n].handle : n \in ToSet(processList)} = {node[n].handle : n \in ToSet(processList)}
    BY <2>1
  <2> QED BY <2>2, <2>3, <2>4, <2>5, <1>6, <1>7
<1>10. \A n, m \in ToSet(processList') : node'[n].handle = node'[m].handle => n = m
  <2>1. \A n \in ToSet(processList) : node'[n] = node[n] /\ node[n].handle # p
    BY <1>1, <1>4, <1>7, <1>8 DEF ListedPids, HandlesOf
  <2>2. \A n, m \in ToSet(processList) : node[n].handle = node[m].handle => n = m
    BY DEF IInv, ListSound
  <2> QED BY <2>1, <2>2, <1>1, <1>6, <1>7
<1>11. ListedPids \subseteq held
  BY DEF IInv, ListSound, ListedPids
<1>12. ListSound'
  BY <1>1, <1>2, <1>4, <1>9, <1>10, <1>11 DEF ListSound, Parted, ListedPids
<1>13. ListedTitles' /\ HeldBorn'
  <2>1. \A n \in ToSet(processList') : node'[n].title \in Titles
    BY <1>1, <1>3, <1>6, <1>7, <1>8 DEF IInv, ListedTitles
  <2> QED BY <2>1, <1>2 DEF IInv, ListedTitles, HeldBorn
<1>14. \A u \in Threads : Entering(u)' => /\ u # t /\ Entering(u) /\ loc'[u] = loc[u]
                                          /\ loc[u].pid \in held \ ListedPids
                                          /\ loc[u].pid # p
  <2>1. \A u \in Threads : Entering(u)' => u # t /\ Entering(u) /\ loc'[u] = loc[u]
    BY <1>5 DEF Entering
  <2>2. \A u \in Threads : Entering(u) => loc[u].pid \in held \ ListedPids
    BY DEF IInv, EnteringOK
  <2>3. \A u \in Threads : u # t /\ Entering(u) => loc[u].pid # loc[t].pid
    BY <1>2 DEF IInv, EnteringOK, Entering, Threads
  <2> QED BY <2>1, <2>2, <2>3 DEF p
<1>15. EnteringOK'
  <2>1. \A u \in Threads : Entering(u)' => loc'[u].pid \in held' \ ListedPids'
    BY <1>2, <1>9, <1>14
  <2>2. ~(Entering("main")' /\ Entering("runner")')
    BY <1>5 DEF Entering, Threads
  <2> QED BY <2>1, <2>2 DEF EnteringOK
<1>16. ClosingOK'
  <2>1. Closing' => Closing /\ mon' = mon
    BY <1>2 DEF Closing
  <2>2. Closing => mon.backup.handle # p
    BY <1>2 DEF IInv, ClosingOK, Entering, p
  <2> QED BY <2>1, <2>2, <1>2, <1>9, <1>14 DEF IInv, ClosingOK
<1> QED BY <1>1, <1>7, <1>12, <1>13, <1>15, <1>16 DEF ListInv

(* A node leaves the list: its process, and no other, is no longer listed.  *)
LEMMA DeleteStep ==
  ASSUME IInv, NEW n \in ToSet(processList), ProcessList_Delete(n), Kept(node, node')
  PROVE  /\ Parted' /\ ListedTitles' /\ ListedPids' = ListedPids \ {node[n].handle}
         /\ \A i, j \in ToSet(processList') : node'[i].handle = node'[j].handle => i = j
         /\ node[n].handle \in held \cap ListedPids
<1>1. /\ Parted' /\ ToSet(processList') = ToSet(processList) \ {n} /\ ToSet(processList) \subseteq Nodes
  BY DeletedLists, ListsApart DEF IInv
<1>2. \A i \in ToSet(processList) : node'[i].handle = node[i].handle /\ node'[i].title = node[i].title
  BY <1>1 DEF Kept, SameProcess
<1>3. \A i, j \in ToSet(processList) : node[i].handle = node[j].handle => i = j
  BY DEF IInv, ListSound
<1>4. ListedTitles'
  BY <1>1, <1>2 DEF IInv, ListedTitles
<1>5. ListedPids = {node[i].handle : i \in ToSet(processList)}
  BY DEF ListedPids, HandlesOf
<1>6. ListedPids' = {node'[i].handle : i \in ToSet(processList')}
  BY DEF ListedPids, HandlesOf
<1>7. ListedPids' = ListedPids \ {node[n].handle}
  BY <1>1, <1>2, <1>3, <1>5, <1>6
<1>8. \A i, j \in ToSet(processList') : node'[i].handle = node'[j].handle => i = j
  BY <1>1, <1>2, <1>3
<1>9. node[n].handle \in held \cap ListedPids
  BY <1>5, ListedHandles DEF IInv
<1> QED BY <1>1, <1>4, <1>7, <1>8, <1>9

LEMMA ReapStep ==
  ASSUME IInv, MonitorReap, Kept(node, node'), Grown(kern, kern')
  PROVE  ListInv'
<1> DEFINE n == FindProcessById(mon.exited)
           p == [node[n] EXCEPT !.status = "terminated", !.flags = ExitFlags(@)]
           pc == IF "depsLoaded" \in p.flags THEN "drop" ELSE "unregister"
<1>0. mon \in MonitorState /\ node \in [Nodes -> ProcessData]
  BY DEF IInv, TypeOK
<1>1. UNCHANGED <<kern, held>> /\ UNCHANGED loc
  BY DEF MonitorReap, kernelVars
<1>2. \/ n = NoNode /\ mon' = [mon EXCEPT !.pc = "scan", !.exited = NoPid] /\ UNCHANGED listVars
      \/ /\ n # NoNode
         /\ IF "notifyTerminated" \in p.flags THEN UNCHANGED <<processList, freeList>>
                                              ELSE ProcessList_Delete(n)
         /\ mon' = [mon EXCEPT !.backup = p, !.exited = NoPid, !.pc = pc]
  BY Zenon DEF MonitorReap
<1>3. n # NoNode => n \in Nodes /\ n \in ToSet(processList)
  <2> DEFINE ns == {m \in Nodes : node[m].handle = mon.exited}
  <2>1. n = FirstListed(ns) /\ ns \in SUBSET Nodes
    BY DEF FindProcessById
  <2> HIDE DEF ns, n
  <2> QED BY <2>1, ListsApart, FirstListedProperties DEF IInv, Listed
<1>4. n # NoNode => p.handle = node[n].handle
  <2> SUFFICES ASSUME n # NoNode PROVE p.handle = node[n].handle
    OBVIOUS
  <2>1. node[n] \in ProcessData
    BY <1>0, <1>3
  <2> HIDE DEF n
  <2> QED BY <2>1 DEF ProcessData
<1> HIDE DEF n, p, pc
<1>5. CASE n = NoNode \/ "notifyTerminated" \in p.flags
  <2>1. UNCHANGED <<processList, freeList, held>>
    BY <1>1, <1>2, <1>5 DEF listVars
  <2>2. ~Closing'
    BY <1>0, <1>2, <1>5 DEF Closing, MonitorState
  <2>3. Stays
    BY <1>1, StaysThere
  <2>4. Quiet
    BY <2>1, <2>2, <2>3 DEF Quiet, Stays
  <2> QED BY <2>4, QuietStep
<1>6. CASE n # NoNode /\ "notifyTerminated" \notin p.flags
  <2>1. ProcessList_Delete(n) /\ n \in ToSet(processList) /\ mon'.backup = p
    BY <1>0, <1>2, <1>3, <1>6 DEF MonitorState
  <2> DEFINE x == node[n].handle
  <2>2. /\ Parted' /\ ListedTitles' /\ ListedPids' = ListedPids \ {x}
        /\ \A i, j \in ToSet(processList') : node'[i].handle = node'[j].handle => i = j
        /\ x \in held \cap ListedPids
    BY <2>1, DeleteStep
  <2>3. mon'.backup.handle = x
    BY <2>1, <1>4, <1>6
  <2> HIDE DEF x
  <2>4. ListedPids \subseteq held /\ held \subseteq Pids
    BY DEF IInv, TypeOK, ListSound, ListedPids
  <2>5. ListSound'
    BY <2>2, <2>4, <1>1 DEF ListSound, Parted, ListedPids
  <2>6. HeldBorn'
    BY <1>1 DEF IInv, HeldBorn
  <2>7. EnteringOK'
    BY <2>2, <1>1 DEF IInv, EnteringOK, Entering, Threads
  <2>8. ClosingOK'
    <3>1. x \in Pids /\ kern'[x].st # "none" /\ x \notin ListedPids'
      BY <2>2, <2>4, <1>1 DEF IInv, HeldBorn
    <3>2. \A t \in Threads : Entering(t)' => loc'[t].pid # x
      BY <2>2, <1>1 DEF IInv, EnteringOK, Entering
    <3> QED BY <3>1, <3>2, <2>3 DEF ClosingOK
  <2> QED BY <2>2, <2>5, <2>6, <2>7, <2>8 DEF ListInv
<1> QED BY <1>5, <1>6

LEMMA FinishStep ==
  ASSUME IInv, MonitorFinish
  PROVE  ListInv'
<1>0. mon \in MonitorState
  BY DEF IInv, TypeOK
<1>1. /\ held' = held \ Closed(mon.backup) /\ mon.pc = "finish"
      /\ UNCHANGED kern /\ UNCHANGED listVars /\ UNCHANGED loc
      /\ mon' = [mon EXCEPT !.pc = "scan", !.backup = BlankProcess]
  BY DEF MonitorFinish, MonitorIs
<1>2. ListedPids' = ListedPids /\ UNCHANGED <<node, processList, freeList>>
  BY <1>1 DEF ListedPids, HandlesOf, listVars
<1>3. ~Closing'
  BY <1>0, <1>1 DEF Closing, MonitorState
<1>4. \A p \in Closed(mon.backup) : p \notin ListedPids /\ \A t \in Threads : Entering(t) => loc[t].pid # p
  BY <1>1 DEF IInv, ClosingOK, Closing, Closed
<1>5. ListSound'
  BY <1>1, <1>2, <1>4 DEF IInv, ListSound, ListedPids
<1>6. Parted' /\ ListedTitles' /\ HeldBorn'
  BY <1>1, <1>2 DEF IInv, TypeOK, ListSound, Parted, ListedTitles, HeldBorn
<1>7. EnteringOK'
  <2>1. \A t \in Threads : Entering(t)' => Entering(t) /\ loc'[t].pid = loc[t].pid
    BY <1>1 DEF Entering
  <2> QED BY <2>1, <1>1, <1>2, <1>4 DEF IInv, EnteringOK, Threads
<1>8. ClosingOK'
  BY <1>3 DEF ClosingOK
<1> QED BY <1>5, <1>6, <1>7, <1>8 DEF ListInv

LEMMA UnregisterStep ==
  ASSUME IInv, TakeUnregisterProcess, Kept(node, node'), Grown(kern, kern')
  PROVE  ListInv'
<1>1. UNCHANGED kern /\ UNCHANGED loc /\ UNCHANGED mon
  BY DEF TakeUnregisterProcess
<1>2. PICK r \in Requests :
        LET n == FindProcessByTitleId(r.title) IN
        IF n = NoNode THEN UNCHANGED <<held, listVars, running>>
        ELSE held' = held \ {node[n].handle} /\ ProcessList_Delete(n) /\ UNCHANGED node
  BY DEF TakeUnregisterProcess, Of
<1> DEFINE n == FindProcessByTitleId(r.title)
<1>3. n # NoNode => n \in ToSet(processList)
  <2> DEFINE ns == {m \in Nodes : node[m].title = r.title}
  <2>1. n = FirstListed(ns) /\ ns \in SUBSET Nodes
    BY DEF FindProcessByTitleId
  <2> HIDE DEF ns, n
  <2> QED BY <2>1, ListsApart, FirstListedProperties DEF IInv, Listed
<1>4. IF n = NoNode THEN UNCHANGED <<held, listVars, running>>
      ELSE held' = held \ {node[n].handle} /\ ProcessList_Delete(n) /\ UNCHANGED node
  BY <1>2
<1> HIDE DEF n
<1>5. CASE n = NoNode
  <2>1. UNCHANGED <<processList, freeList, held>>
    BY <1>4, <1>5 DEF listVars
  <2>2. Quiet
    BY <2>1, <1>1, StaysThere DEF Quiet, Stays, Closing
  <2> QED BY <2>2, QuietStep
<1>6. CASE n # NoNode
  <2> DEFINE x == node[n].handle
  <2>1. /\ Parted' /\ ListedTitles' /\ ListedPids' = ListedPids \ {x}
        /\ \A i, j \in ToSet(processList') : node'[i].handle = node'[j].handle => i = j
        /\ x \in held \cap ListedPids
    BY <1>3, <1>4, <1>6, DeleteStep
  <2>2. held' = held \ {x}
    BY <1>4, <1>6
  <2> HIDE DEF x
  <2>3. ListedPids \subseteq held
    BY DEF IInv, ListSound, ListedPids
  <2>4. ListSound'
    BY <2>1, <2>2, <2>3 DEF ListSound, Parted, ListedPids
  <2>5. HeldBorn'
    BY <2>2, <1>1 DEF IInv, HeldBorn
  <2>6. EnteringOK'
    <3>1. \A t \in Threads : Entering(t)' => Entering(t) /\ loc'[t].pid = loc[t].pid
      BY <1>1 DEF Entering
    <3> QED BY <3>1, <2>1, <2>2 DEF IInv, EnteringOK, Threads
  <2>7. ClosingOK'
    <3>1. \A t \in Threads : Entering(t)' => Entering(t) /\ loc'[t].pid = loc[t].pid
      BY <1>1 DEF Entering
    <3>2. Closing' => Closing
      BY <1>1 DEF Closing
    <3> QED BY <3>1, <3>2, <2>1, <1>1 DEF IInv, ClosingOK
  <2> QED BY <2>1, <2>4, <2>5, <2>6, <2>7 DEF ListInv
<1> QED BY <1>5, <1>6

LEMMA HandlesStep ==
  ASSUME TypeOK, ControlOK, [Next]_vars
  PROVE  held' \subseteq Pids /\ registered' \subseteq Pids
<1>0. held \subseteq Pids /\ registered \subseteq Pids /\ "main" \in Threads /\ "runner" \in Threads
  BY DEF TypeOK, Threads
<1>1. CASE TakeCommand
  <2>1. UNCHANGED registered /\ (UNCHANGED held \/ \E x : held' = held \ x)
    BY <1>1 DEF TakeCommand, TakeTerminateApplication, TakeTerminate, TakePrepareForReboot,
       TakeUnregisterProcess, TakeLaunchTitle, TakeLaunchAppDebug, kernelVars
  <2> QED BY <2>1, <1>0
<1>2. CASE RunTask \/ FoundRunning \/ RunnerReady \/ RunnerTakesTask \/ UNCHANGED vars
           \/ \E p \in Pids : Exit(p)
  <2>1. UNCHANGED <<held, registered>>
    BY <1>2 DEF RunTask, FoundRunning, RunnerReady, RunnerTakesTask, Exit, kernelVars, vars
  <2> QED BY <2>1, <1>0
<1>3. CASE \E t \in Threads : Terminate(t)
  <2>1. UNCHANGED <<held, registered>>
    BY <1>3 DEF Terminate, ClearEvent, Arm, TerminateApplication, LoopBegin, LoopNext, LoopEnd,
       FindCaller, NotifyAll, NotifyLast, Commit, WaitUntilTimeout, WaitForever, WaitFor, Timeout,
       KillOverdue, Disarm, Panic, kernelVars
  <2> QED BY <2>1, <1>0
<1>4. CASE \E t \in Threads : Launch(t)
  <2>1. PICK t \in Threads : Launch(t)
    BY <1>4
  <2>2. CASE Load(t)
    <3>1. NextPid \in Pids /\ held' = held \cup {NextPid} /\ UNCHANGED registered
      BY <2>2, LoadGrown DEF Load
    <3> QED BY <3>1, <1>0
  <2>3. CASE Register(t)
    <3>1. loc[t].pid \in Pids
      BY <2>3 DEF Register, At, ControlOK, PlaceOK
    <3>2. registered' = registered \cup {loc[t].pid} /\ UNCHANGED held
      BY <2>3 DEF Register
    <3> QED BY <3>1, <3>2, <1>0
  <2>4. CASE ~Load(t) /\ ~Register(t)
    <3>1. UNCHANGED <<held, registered>>
      BY <2>1, <2>4 DEF Launch, CheckLaunch, LoadFails, Insert, MergeOwn, MergeDependency,
         Merge, Mark, RunSucceeds, RunFails, Abandon, MarkDependency, Panic, kernelVars
    <3> QED BY <3>1, <1>0
  <2> QED BY <2>2, <2>3, <2>4
<1>5. CASE Monitor
  <2>1. /\ UNCHANGED held \/ \E x : held' = held \ x
        /\ UNCHANGED registered \/ \E x : registered' = registered \ x
    BY <1>5 DEF Monitor, MonitorScan, MonitorCheck, MonitorSignal, MonitorWait,
       MonitorWakesForNewProcess, MonitorWakesForExit, MonitorReap, MonitorDropDependencies,
       MonitorUnregister, MonitorFinish, kernelVars
  <2> QED BY <2>1, <1>0
<1> QED BY <1>0, <1>1, <1>2, <1>3, <1>4, <1>5 DEF Next, Main, Runner

LEMMA InductiveStep == IInv /\ [Next]_vars => IInv'
<1> SUFFICES ASSUME IInv, [Next]_vars PROVE IInv'
  OBVIOUS
<1>0. TypeOK /\ ControlOK /\ ListSound /\ ListedTitles
  BY DEF IInv
<1>1. Grown(kern, kern')
  BY <1>0, KernStep
<1>2. (\E t \in Threads : Enters(t)) \/ Kept(node, node')
  BY <1>0, NodesStep
<1>3. ASSUME NEW t \in Threads, Enters(t)
      PROVE  ListInv' /\ node' \in [Nodes -> ProcessData]
  BY <1>3, EnterStep
<1>4. ASSUME Kept(node, node')
      PROVE  ListInv' /\ node' \in [Nodes -> ProcessData]
  <2>1. node' \in [Nodes -> ProcessData]
    BY <1>4 DEF Kept
  <2>2. \/ \E t \in Threads : Enters(t) \/ Load(t)
        \/ MonitorReap \/ MonitorFinish \/ TakeUnregisterProcess \/ Quiet
    BY <1>0, StepKinds
  <2>3. ASSUME NEW t \in Threads, Load(t) PROVE ListInv'
    BY <2>3, LoadStep
  <2>4. CASE MonitorReap
    <3>1. ListInv'
      BY <2>4, <1>1, <1>4, ReapStep
    <3> QED BY <3>1, <2>1
  <2>5. CASE MonitorFinish
    <3>1. ListInv'
      BY <2>5, FinishStep
    <3> QED BY <3>1, <2>1
  <2>6. CASE TakeUnregisterProcess
    <3>1. ListInv'
      BY <2>6, <1>1, <1>4, UnregisterStep
    <3> QED BY <3>1, <2>1
  <2>7. CASE Quiet
    <3>1. ListInv'
      BY <2>7, <1>1, <1>4, QuietStep
    <3> QED BY <3>1, <2>1
  <2> QED BY <2>1, <2>2, <2>3, <2>4, <2>5, <2>6, <2>7, <1>3
<1>5. ListInv' /\ node' \in [Nodes -> ProcessData]
  BY <1>2, <1>3, <1>4
<1>6. LocsOK' /\ ControlOK'
  BY <1>0, ThreadsStep
<1>7. lock' \in LockType /\ mon' \in MonitorState /\ Scalars'
  BY <1>0, LockStep, MonStep, ScalarStep
<1>8. held' \subseteq Pids /\ registered' \subseteq Pids
  BY <1>0, HandlesStep
<1>9. TypeOK'
  BY <1>1, <1>5, <1>6, <1>7, <1>8
     DEF TypeOK, Grown, KernType, ListInv, Parted, LocsOK, Threads, LockType, Scalars
<1> QED BY <1>5, <1>6, <1>9 DEF IInv, ListInv

(* The built-in processes are listed, on the first nodes.                   *)
LEMMA InitStep == Init => IInv
<1> SUFFICES ASSUME Init PROVE IInv
  OBVIOUS
<1> DEFINE n == Len(Kips)
<1>1. /\ Kips \in Seq(Titles) /\ n \in Nat /\ KipPids = 1..n /\ n <= NNodes /\ n <= MaxPid
      /\ NNodes \in Nat /\ MaxPid \in Nat /\ NoTitle \notin Titles
  BY PmAssumption DEF KipPids
<1>2. KipPids \subseteq Nodes /\ KipPids \subseteq Pids /\ \A k \in KipPids : Kips[k] \in Titles
  BY <1>1 DEF Nodes, Pids
<1> HIDE DEF n
<1>3. kern \in KernType /\ \A p \in KipPids : kern[p].st # "none"
  BY <1>2 DEF Init, KernType, Unborn
<1>4. /\ node \in [Nodes -> ProcessData]
      /\ \A k \in KipPids : node[k].handle = k /\ node[k].title = Kips[k]
  <2>1. BlankProcess \in ProcessData /\ {"kip"} \in SUBSET Flags
    BY DEF BlankProcess, ProcessData, Flags
  <2>2. node = [k \in Nodes |-> IF k \in KipPids THEN Process(k, Kips[k], {"kip"}) ELSE BlankProcess]
    BY DEF Init
  <2>3. \A k \in KipPids : /\ Process(k, Kips[k], {"kip"}) \in ProcessData
                           /\ Process(k, Kips[k], {"kip"}).handle = k
                           /\ Process(k, Kips[k], {"kip"}).title = Kips[k]
    BY <2>1, <1>2, ProcessTyped
  <2> QED BY <2>1, <2>2, <2>3, <1>2
<1>5. /\ processList \in Seq(Nodes) /\ IsInjective(processList) /\ ToSet(processList) = KipPids
  <2>1. processList = [k \in 1..n |-> k]
    BY <1>1 DEF Init
  <2>2. \A k \in 1..n : k \in Nodes
    BY <1>1, <1>2
  <2> QED BY <2>1, <2>2, <1>1 DEF IsInjective, ToSet
<1>6. /\ freeList \in Seq(Nodes) /\ IsInjective(freeList) /\ ToSet(freeList) = Nodes \ KipPids
  <2> DEFINE m == NNodes - n
  <2>1. freeList = [k \in 1..m |-> k + n] /\ m \in Nat
    BY <1>1 DEF Init, n
  <2>2. \A k \in 1..m : k + n \in Nodes \ KipPids
    BY <1>1 DEF Nodes
  <2>3. \A x \in Nodes \ KipPids : x - n \in 1..m /\ (x - n) + n = x
    BY <1>1 DEF Nodes
  <2>4. \A i, j \in 1..m : i + n = j + n => i = j
    BY <1>1
  <2> HIDE DEF m
  <2>5. freeList \in Seq(Nodes)
    BY <2>1, <2>2
  <2>6. DOMAIN freeList = 1..m /\ \A k \in 1..m : freeList[k] = k + n
    BY <2>1
  <2>7. ToSet(freeList) = Nodes \ KipPids
    <3>1. ToSet(freeList) \subseteq Nodes \ KipPids
      BY <2>2, <2>6 DEF ToSet
    <3>2. \A x \in Nodes \ KipPids : \E k \in DOMAIN freeList : freeList[k] = x
      BY <2>3, <2>6
    <3> QED BY <3>1, <3>2 DEF ToSet
  <2> QED BY <2>4, <2>5, <2>6, <2>7 DEF IsInjective
<1>7. Parted
  <2>1. ToSet(processList) \cap ToSet(freeList) = {} /\ ToSet(processList) \cup ToSet(freeList) = Nodes
    BY <1>2, <1>5, <1>6
  <2> QED BY <2>1, <1>5, <1>6, Concatenated DEF Parted
<1>8. LocsOK /\ \A t \in Threads : loc[t].pc \in {"idle", "top"}
  <2>1. loc = [t \in Threads |-> Returned(t)]
    BY DEF Init, Threads
  <2> QED BY <2>1, ReturnedOK DEF LocsOK
<1>9. mon \in MonitorState /\ mon.pc = "scan"
  <2>1. BlankProcess \in ProcessData
    BY DEF BlankProcess, ProcessData
  <2>2. \A b \in ProcessData, q \in Seq(Pids) :
          [pc |-> "scan", handles |-> q, terminating |-> FALSE, exited |-> NoPid, backup |-> b] \in MonitorState
    BY DEF MonitorState
  <2>3. <<>> \in Seq(Pids)
    OBVIOUS
  <2>4. mon = [pc |-> "scan", handles |-> <<>>, terminating |-> FALSE, exited |-> NoPid,
               backup |-> BlankProcess]
    BY DEF Init
  <2>5. mon \in MonitorState
    BY <2>1, <2>2, <2>3, <2>4, Zenon
  <2> QED BY <2>4, <2>5
<1>10. held = KipPids /\ registered = KipPids
  BY DEF Init
<1>11. lock \in LockType
  BY DEF Init, LockType, Nobody
<1>12. Scalars
  <2>1. /\ newProcessEvent = FALSE /\ allNotifiedTerminationEvent = FALSE /\ running = NoNode
        /\ waitingForTermination = FALSE /\ preparingForReboot = FALSE /\ ready = FALSE
        /\ parametersSet = FALSE /\ task = NoRequest /\ served = 0 /\ panicked = FALSE
    BY DEF Init
  <2>2. told \in [Pids -> Nat]
    BY DEF Init
  <2>3. served \in 0..MaxRequests
    BY <2>1, RequestsAssumption
  <2> QED BY <2>1, <2>2, <2>3 DEF Scalars
<1>13. TypeOK
  BY <1>2, <1>3, <1>4, <1>7, <1>8, <1>9, <1>10, <1>11, <1>12
     DEF TypeOK, KernType, Parted, LocsOK, Threads, LockType, Scalars
<1>14. ControlOK
  BY <1>8 DEF ControlOK, LocsOK, Init
<1>15. ListSound
  BY <1>4, <1>5, <1>7, <1>10 DEF ListSound, Parted, HandlesOf
<1>16. ListedTitles /\ HeldBorn
  BY <1>2, <1>3, <1>4, <1>5, <1>10 DEF ListedTitles, HeldBorn
<1>17. EnteringOK /\ ClosingOK
  BY <1>8, <1>9 DEF EnteringOK, Entering, ClosingOK, Closing, Threads
<1> QED BY <1>13, <1>14, <1>15, <1>16, <1>17 DEF IInv

LEMMA Invariant == Spec => []IInv
BY InitStep, InductiveStep, PTL DEF Spec

(* Every variable of the manager keeps its type, whatever the clients ask   *)
(* for, with any number of nodes, processes and titles: no refcount leaves  *)
(* its u8 without a panic, and what MarkDependency subtracts 1 from is      *)
(* never 0.                                                                 *)
THEOREM TypeCorrect == Spec => []TypeOK
<1>1. IInv => TypeOK
  BY DEF IInv
<1> QED BY Invariant, <1>1, PTL

(* No interleaving of the three threads loses a node or lists it twice, or  *)
(* leaves a process in the list whose handle has been closed.               *)
THEOREM ListIsSound == Spec => []ListSound
<1>1. IInv => ListSound
  BY DEF IInv
<1> QED BY Invariant, <1>1, PTL
=============================================================================
