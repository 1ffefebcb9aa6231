------------------------------ MODULE SmServer -----------------------------
(***************************************************************************)
(* The main loop of the sm sysmodule (main.c) with the service table        *)
(* (services.c) and the command dispatch (srv.c, srv_pm.c): clients open    *)
(* srv: sessions, register services and ask for sessions to them; a request *)
(* that has to wait is parked on a list and replayed later.  Kernel 7.x and *)
(* later (IS_PRE_7X false), so srv:pm is a registered service.              *)
(* The loop is one thread; a handler with a loop over a shared table is one *)
(* action per iteration, with pc and the loop's locals as state, so that    *)
(* the clients and the kernel move in between as they do on the console.    *)
(***************************************************************************)
EXTENDS SmLists, FiniteSets

CONSTANTS
  NSlots,       \* size of sessionDataPool
  SrvMax,       \* sessions the kernel allows on the port srv:
  PmMax,        \* sessions the kernel allows on the port srv:pm
  NServices,    \* size of servicesInfo
  SemMax,       \* maximum count of the resume semaphore
  Handles,      \* values of sm's session handles
  Ports,        \* values of sm's client port handles
  SrvPmPort,    \* the client port of srv:pm
  Pids,         \* process ids of the clients
  SmPid,        \* sm's own process id
  Names,        \* service and named port names clients use
  SrvPmName,    \* the name "srv:pm"
  Asked,        \* the names clients ask sessions to
  Clobbered,    \* a name whose first word main.c:147 has overwritten
  PrefixPairs,  \* <<m, n>>: name m is a proper prefix of name n
  Word4,        \* values clients put in the fourth parameter word
  Ops,          \* the commands the clients of this instance use
  ServersDie    \* may a server close its port while it is registered?

NoHandle == "no handle"
NoPort   == "no port"
NoArg    == "no argument"
NoPid    == "pid -1"

Slots    == 1..NSlots
AllNames == Names \cup {SrvPmName}
AllPids  == Pids \cup {SmPid, NoPid}
Args     == AllNames \cup Pids \cup {NoArg, Clobbered}

ASSUME SizesAssumption ==
  /\ NSlots \in Nat \ {0} /\ SrvMax \in Nat /\ PmMax \in Nat
  /\ NServices \in Nat \ {0} /\ SemMax \in Nat
  /\ Word4 \subseteq Nat
ASSUME WakeUpsAssumption == SrvMax <= SemMax   \* both are 64 (main.c)
ASSUME ValuesAssumption ==
  /\ NoHandle \notin Handles /\ NoPort \notin Ports /\ SrvPmPort \in Ports
  /\ NoPid \notin Pids /\ SmPid \notin Pids \cup {NoPid}
  /\ Clobbered \notin AllNames /\ SrvPmName \notin Names
  /\ Asked \subseteq AllNames /\ PrefixPairs \subseteq AllNames \X AllNames
  /\ ServersDie \in BOOLEAN

SrvOps == {"RegisterClient", "RegisterService", "UnregisterService",
           "GetServiceHandle", "RegisterPort", "UnregisterPort", "GetPort",
           "PublishAndGetSubscriber"}
PmOps  == {"RegisterProcess", "UnregisterProcess"}

(* Only these requests carry parameter word 4 (flags, maximum sessions or,  *)
(* for RegisterPort, a descriptor that is 0): the others leave it in place. *)
CarriesWord4 == {"RegisterService", "GetServiceHandle", "GetPort", "RegisterPort"}

Command ==
  { c \in [op : SrvOps \cup PmOps \cup {"None"}, arg : Args, w4 : Word4 \cup {0}] :
      /\ c.op \in PmOps => c.arg \in Pids
      /\ c.op \in {"RegisterService", "RegisterPort"} => c.arg \in AllNames }
ParkedCommand == { c \in Command : c.op \in {"None", "GetServiceHandle", "GetPort"} }
NoCommand == [op |-> "None", arg |-> NoArg, w4 |-> 0]

Calls(op, args, words) == [op : {op} \cap Ops, arg : args, w4 : words]
SrvRequests ==
  UNION { Calls("RegisterClient", {NoArg}, {0}),
          Calls("RegisterService", Names, Word4 \ {0}),
          Calls("UnregisterService", Names, {0}),
          Calls("GetServiceHandle", Asked, Word4),
          Calls("RegisterPort", Names, {0}),
          Calls("UnregisterPort", Names, {0}),
          Calls("GetPort", Names, Word4),
          Calls("PublishAndGetSubscriber", {NoArg}, {0}) }
PmRequests == UNION { Calls(op, Pids, {0}) : op \in PmOps }

VARIABLES
  \* the kernel: sm's ends of its sessions, the ports it holds, the semaphore
  sess, port, sem,
  \* sm's static data: the session lists and pool, servicesInfo, the pids in
  \* processDataInUseList
  lists, pool, services, procs,
  \* main's locals and the thread's command buffer
  pc, cmdbuf, replyTarget, result, cur, i, n, closedPort

kernel == <<sess, port, sem>>
static == <<lists, pool, services, procs>>
locals == <<pc, cmdbuf, replyTarget, result, cur, i, n, closedPort>>
vars   == <<kernel, static, locals>>

---------------------------------------------------------------------------
(* State *)

NoSession == [kind |-> "none", st |-> "none", open |-> FALSE, owner |-> NoPid,
              req |-> NoCommand]
ClosedPort == [open |-> FALSE, alive |-> FALSE, load |-> 0, max |-> 0]
BlankNode == [pid |-> NoPid, replay |-> NoCommand, busy |-> NoPort,
              handle |-> NoHandle, isSrvPm |-> FALSE]

InUse   == lists.nodes["inUse"]
Free    == lists.nodes["free"]
WaitReg == lists.nodes["waitReg"]
ToWake  == lists.nodes["toWake"]
WaitPort == lists.nodes["waitPort"]
Parked  == ToSet(WaitReg) \cup ToSet(ToWake) \cup ToSet(WaitPort)

Init ==
  /\ sess = [h \in Handles |-> NoSession]
  /\ port = [p \in Ports |-> IF p = SrvPmPort
                             THEN [open |-> TRUE, alive |-> TRUE, load |-> 0, max |-> PmMax]
                             ELSE ClosedPort]
  /\ sem = 0
  /\ lists = [nodes  |-> [l \in ListNames |-> IF l = "free" THEN [s \in Slots |-> s] ELSE <<>>],
              parent |-> [s \in Slots |-> "free"]]
  /\ pool = [s \in Slots |-> BlankNode]
  /\ services = <<[name |-> SrvPmName, pid |-> SmPid, port |-> SrvPmPort, named |-> FALSE]>>
  /\ procs = {}
  /\ pc = "wait" /\ cmdbuf = NoCommand /\ replyTarget = NoHandle /\ result = "none"
  /\ cur = 0 /\ i = 0 /\ n = 0 /\ closedPort = NoPort

SessionsOf(kind) == {h \in Handles : sess[h].kind = kind}
Pending(kind)    == {h \in SessionsOf(kind) : sess[h].st = "pending"}

(* The kernel gives sm no handle value that a pool node still remembers: a  *)
(* handle carries a 15-bit generation count.                                *)
Fresh(h) == sess[h].kind = "none" /\ \A s \in Slots : pool[s].handle # h
NewSession(kind, owner) == [NoSession EXCEPT !.kind = kind, !.st = "pending",
                                             !.open = TRUE, !.owner = owner]

Load(p) == IF p = SrvPmPort THEN Cardinality(SessionsOf("pm")) ELSE port[p].load
Full(p) == port[p].alive /\ Load(p) >= port[p].max
FreePorts == {p \in Ports : ~port[p].open /\ \A s \in Slots : pool[s].busy # p}

---------------------------------------------------------------------------
(* The clients and the servers *)

Connect(h, p) ==
  /\ Fresh(h) /\ Cardinality(SessionsOf("srv")) < SrvMax
  /\ sess' = [sess EXCEPT ![h] = NewSession("srv", p)]
  /\ UNCHANGED <<port, sem, static, locals>>

SendRequest(h, c) ==
  /\ sess[h].st = "idle" /\ sess[h].open
  /\ c \in IF sess[h].kind = "srv" THEN SrvRequests ELSE PmRequests
  /\ sess' = [sess EXCEPT ![h].st = "sent", ![h].req = c]
  /\ UNCHANGED <<port, sem, static, locals>>

(* The client's end goes away, by svcCloseHandle or with its process.  A    *)
(* request sm has not received yet goes with it.                            *)
CloseClient(h) ==
  /\ sess[h].open
  /\ sess' = [sess EXCEPT ![h].open = FALSE,
                          ![h].st = IF @ = "sent" THEN "idle" ELSE @,
                          ![h].req = IF sess[h].st = "sent" THEN NoCommand ELSE @]
  /\ UNCHANGED <<port, sem, static, locals>>

ServerDies(p) ==
  /\ ServersDie /\ p # SrvPmPort /\ port[p].open /\ port[p].alive
  /\ port' = [port EXCEPT ![p].alive = FALSE, ![p].load = 0]
  /\ UNCHANGED <<sess, sem, static, locals>>

ServiceSessionEnds(p) ==
  /\ port[p].load > 0
  /\ port' = [port EXCEPT ![p].load = @ - 1]
  /\ UNCHANGED <<sess, sem, static, locals>>

Environment ==
  \/ \E h \in Handles : \/ \E p \in Pids : Connect(h, p)
                        \/ \E c \in SrvRequests \cup PmRequests : SendRequest(h, c)
                        \/ CloseClient(h)
  \/ \E p \in Ports : ServerDies(p) \/ ServiceSessionEnds(p)

---------------------------------------------------------------------------
(* svcReplyAndReceive: the reply *)

Panic == pc' = "panic" /\ UNCHANGED <<kernel, static, cmdbuf, replyTarget, result, cur, i, n, closedPort>>

(* The last node of the pool that carries the handle, free nodes included.  *)
NodeOf(h) == CHOOSE s \in Slots : /\ pool[s].handle = h
                                  /\ \A t \in Slots : pool[t].handle = h => t <= s

(* A free node keeps its old contents until allocateNode clears it; of these *)
(* only the handle is ever read again.                                      *)
CloseSession(h) ==
  /\ sess' = [sess EXCEPT ![h] = NoSession]
  /\ lists' = MoveNode(lists, NodeOf(h), "free", FALSE)
  /\ pool' = [pool EXCEPT ![NodeOf(h)] = [BlankNode EXCEPT !.handle = h]]
  /\ pc' = "wait" /\ replyTarget' = NoHandle /\ result' = "none"
  /\ UNCHANGED <<port, sem, services, procs, cmdbuf, cur, i, n, closedPort>>

Reply ==
  /\ pc = "reply" /\ sess[replyTarget].open
  /\ sess' = [sess EXCEPT ![replyTarget].st = "idle", ![replyTarget].req = NoCommand]
  /\ pc' = "wait" /\ replyTarget' = NoHandle /\ result' = "none"
  /\ UNCHANGED <<port, sem, static, cmdbuf, cur, i, n, closedPort>>

(* The remote of the reply is gone: id < 0, and the session is looked up    *)
(* among the handles waited on.                                             *)
ReplyUnreachable ==
  /\ pc = "reply" /\ ~sess[replyTarget].open
  /\ IF \E s \in ToSet(InUse) : pool[s].handle = replyTarget
     THEN CloseSession(replyTarget)
     ELSE Panic

---------------------------------------------------------------------------
(* svcReplyAndReceive: the wait.  The handle with the lowest index wins.    *)

FirstOf(q, S) == q[CHOOSE k \in DOMAIN q : q[k] \in S /\ \A j \in 1..k-1 : q[j] \notin S]

Signalled == {s \in ToSet(InUse) : LET k == sess[pool[s].handle]
                                   IN  k.st = "sent" \/ ~k.open}
PortSignalled == {s \in ToSet(WaitPort) : ~Full(pool[s].busy)}
HandlesValid == \A s \in ToSet(WaitPort) : port[pool[s].busy].open

Waiting == pc = "wait" /\ HandlesValid

InvalidHandle == pc = "wait" /\ ~HandlesValid /\ Panic

(* The request a session parked comes back: only words 0 to 3 were saved.   *)
(* The saved copy is not read again.                                        *)
Replay(s, busy) ==
  /\ cmdbuf' = [pool[s].replay EXCEPT !.w4 = cmdbuf.w4]
  /\ pool' = [pool EXCEPT ![s].replay = NoCommand, ![s].busy = busy]
  /\ cur' = s /\ pc' = "serve"

ResumeRegistered ==
  /\ Waiting /\ sem > 0
  /\ IF ToWake = <<>> THEN Panic
     ELSE LET s == Head(ToWake) IN
          /\ sem' = sem - 1
          /\ lists' = MoveNode(lists, s, "inUse", FALSE)
          /\ Replay(s, pool[s].busy)
          /\ UNCHANGED <<sess, port, services, procs, replyTarget, result, i, n, closedPort>>

(* The node allocateNode returns, filled in by main                         *)
AcceptedNodeNoPid(h, kind) ==   \* mutant: the pid is not initialised
  [BlankNode EXCEPT !.handle = h, !.isSrvPm = (kind = "pm"), !.pid = "0"]
AcceptedNode(h, kind) == [BlankNode EXCEPT !.handle = h, !.isSrvPm = (kind = "pm")]

AcceptSession(kind) ==
  IF Free = <<>> THEN Panic
  ELSE \E h \in Pending(kind) : LET s == Head(Free) IN
       /\ sess' = [sess EXCEPT ![h].st = "idle"]
       /\ pool' = [pool EXCEPT ![s] = AcceptedNode(h, kind)]
       /\ lists' = MoveNode(lists, s, "inUse", FALSE)
       /\ UNCHANGED <<port, sem, services, procs, locals>>

AcceptSrv == /\ Waiting /\ sem = 0 /\ Pending("srv") # {}
             /\ AcceptSession("srv")
AcceptPm  == /\ Waiting /\ sem = 0 /\ Pending("srv") = {} /\ Pending("pm") # {}
             /\ AcceptSession("pm")

NoNewSession == sem = 0 /\ Pending("srv") = {} /\ Pending("pm") = {}

SessionClosed ==
  /\ Waiting /\ NoNewSession /\ Signalled # {}
  /\ LET h == pool[FirstOf(InUse, Signalled)].handle
     IN  ~sess[h].open /\ CloseSession(h)

ReceiveRequest ==
  /\ Waiting /\ NoNewSession /\ Signalled # {}
  /\ LET s == FirstOf(InUse, Signalled)
         h == pool[s].handle
         c == sess[h].req
     IN  /\ sess[h].open
         /\ sess' = [sess EXCEPT ![h].st = "taken"]
         /\ cmdbuf' = IF c.op \in CarriesWord4 THEN c ELSE [c EXCEPT !.w4 = cmdbuf.w4]
         /\ cur' = s /\ pc' = "serve"
  /\ UNCHANGED <<port, sem, static, replyTarget, result, i, n, closedPort>>

ResumePortReady ==
  /\ Waiting /\ NoNewSession /\ Signalled = {} /\ PortSignalled # {}
  /\ LET s == FirstOf(WaitPort, PortSignalled)
     IN  /\ port[pool[s].busy].alive
         /\ lists' = MoveNode(lists, s, "inUse", FALSE)
         /\ Replay(s, NoPort)
  /\ UNCHANGED <<kernel, services, procs, replyTarget, result, i, n, closedPort>>

PortClosed ==
  /\ Waiting /\ NoNewSession /\ Signalled = {} /\ PortSignalled # {}
  /\ LET p == pool[FirstOf(WaitPort, PortSignalled)].busy
     IN  ~port[p].alive /\ closedPort' = p
  /\ pc' = "closing" /\ i' = 1
  /\ UNCHANGED <<kernel, static, cmdbuf, replyTarget, result, cur, n>>

(* Where a loop over a list goes on when the node it looked at has moved to *)
(* another list: the next node has taken its place.                         *)
AfterMove == i

(* The loop over the sessions waiting for room on the closed port: word 1   *)
(* of the saved request, the start of the name, is overwritten.             *)
PortClosedNext ==
  /\ pc = "closing" /\ i <= Len(WaitPort)
  /\ LET s == WaitPort[i]
     IN  IF pool[s].busy = closedPort
         THEN /\ pool' = [pool EXCEPT ![s].replay.arg = Clobbered, ![s].busy = NoPort]
              /\ lists' = MoveNode(lists, s, "waitReg", TRUE)
              /\ i' = AfterMove
         ELSE i' = i + 1 /\ UNCHANGED <<pool, lists>>
  /\ UNCHANGED <<kernel, services, procs, pc, cmdbuf, replyTarget, result, cur, n, closedPort>>

PortClosedDone ==
  /\ pc = "closing" /\ i > Len(WaitPort)
  /\ pc' = "wait" /\ i' = 0 /\ closedPort' = NoPort
  /\ UNCHANGED <<kernel, static, cmdbuf, replyTarget, result, cur, n>>

---------------------------------------------------------------------------
(* srvHandleCommands and srvPmHandleCommands: one action per command.  An   *)
(* answer becomes the reply of the next svcReplyAndReceive.                 *)

Serving(op) == pc = "serve" /\ cmdbuf.op = op

Answer(r) ==
  /\ pc' = "reply" /\ replyTarget' = pool[cur].handle /\ result' = r /\ cur' = 0
  /\ cmdbuf' = [NoCommand EXCEPT !.w4 = cmdbuf.w4]
  /\ UNCHANGED <<i, n, closedPort>>

(* mutant: parks the session and answers it as well                         *)
ParkAndAnswer(l, busy) ==
  /\ pool' = [pool EXCEPT ![cur].replay = [cmdbuf EXCEPT !.w4 = 0], ![cur].busy = busy]
  /\ lists' = MoveNode(lists, cur, l, TRUE)
  /\ Answer("none")

(* A WOULDBLOCK result: the request is saved and the session leaves the     *)
(* handles sm waits on.                                                     *)
Park(l, busy) ==
  /\ pool' = [pool EXCEPT ![cur].replay = [cmdbuf EXCEPT !.w4 = 0], ![cur].busy = busy]
  /\ lists' = MoveNode(lists, cur, l, TRUE)
  /\ pc' = "wait" /\ replyTarget' = NoHandle /\ cur' = 0
  /\ cmdbuf' = [NoCommand EXCEPT !.w4 = cmdbuf.w4]
  /\ UNCHANGED <<result, i, n, closedPort>>

Matches(j, named, name) == services[j].named = named /\ services[j].name = name
Registered(named, name) == \E j \in DOMAIN services : Matches(j, named, name)
Find(named, name) == CHOOSE j \in DOMAIN services :
                       Matches(j, named, name) /\ \A k \in 1..j-1 : ~Matches(k, named, name)

RegisterClient ==
  /\ Serving("RegisterClient")
  /\ pool' = [pool EXCEPT ![cur].pid = sess[pool[cur].handle].owner]
  /\ Answer("ok")
  /\ UNCHANGED <<kernel, lists, services, procs>>

(* doRegisterServiceOrPort up to the loop over the parked sessions          *)
AddService(p, named, max) ==
  /\ port' = [port EXCEPT ![p] = [open |-> TRUE, alive |-> TRUE, load |-> 0, max |-> max]]
  /\ services' = Append(services, [name |-> cmdbuf.arg, pid |-> pool[cur].pid,
                                   port |-> p, named |-> named])
  /\ pc' = "wake" /\ i' = 1 /\ n' = 0
  /\ UNCHANGED <<sess, sem, lists, pool, procs, cmdbuf, replyTarget, result, cur, closedPort>>

RegisterServiceOrPort(named) ==
  IF Registered(named, cmdbuf.arg)
  THEN Answer("duplicate") /\ UNCHANGED <<kernel, static>>
  ELSE IF Len(services) >= NServices
  THEN Answer("table full") /\ UNCHANGED <<kernel, static>>
  ELSE IF ~named /\ FreePorts = {}   \* svcCreatePort fails
  THEN Answer("duplicate") /\ UNCHANGED <<kernel, static>>
  ELSE \E p \in FreePorts : AddService(p, named, IF named THEN 0 ELSE cmdbuf.w4)

RegisterService == Serving("RegisterService") /\ RegisterServiceOrPort(FALSE)
RegisterPort    == Serving("RegisterPort")    /\ RegisterServiceOrPort(TRUE)

(* areServiceNamesEqual(parked name, new name, length of the parked name)   *)
WakesOn(parked, name) == parked = name \/ <<parked, name>> \in PrefixPairs
(* mutant: only services wake, not named ports                              *)
WakesServicesOnly(s) ==
  /\ pool[s].replay.op = "GetServiceHandle" /\ cmdbuf.op = "RegisterService"
  /\ WakesOn(pool[s].replay.arg, cmdbuf.arg)

Wakes(s) ==
  /\ pool[s].replay.op = IF cmdbuf.op = "RegisterService" THEN "GetServiceHandle" ELSE "GetPort"
  /\ WakesOn(pool[s].replay.arg, cmdbuf.arg)

WakeNext ==
  /\ pc = "wake" /\ i <= Len(WaitReg)
  /\ IF Wakes(WaitReg[i])
     THEN lists' = MoveNode(lists, WaitReg[i], "toWake", TRUE) /\ n' = n + 1 /\ i' = AfterMove
     ELSE i' = i + 1 /\ UNCHANGED <<lists, n>>
  /\ UNCHANGED <<kernel, pool, services, procs, pc, cmdbuf, replyTarget, result, cur, closedPort>>

ReleasedNever == 0                       \* mutant: the semaphore is not released
ReleasedOnce == IF n > 0 THEN 1 ELSE 0   \* mutant: one count for all the sessions
ReleasedTooMany == n + 1                 \* mutant: one count too many
Released == n

WakeDone ==
  /\ pc = "wake" /\ i > Len(WaitReg)
  /\ IF sem + Released > SemMax THEN Panic
     ELSE /\ sem' = sem + Released
          /\ pc' = "reply" /\ replyTarget' = pool[cur].handle /\ result' = "ok" /\ cur' = 0
          /\ cmdbuf' = [NoCommand EXCEPT !.w4 = cmdbuf.w4]
          /\ i' = 0 /\ n' = 0
          /\ UNCHANGED <<sess, port, static, closedPort>>

(* mutant: forgets to copy the last entry over the removed one              *)
RemoveLast(q, j) == [k \in 1..Len(q)-1 |-> q[k]]
(* servicesInfo[j] = servicesInfo[--nbServices]                             *)
RemoveService(q, j) == [k \in 1..Len(q)-1 |-> IF k = j THEN q[Len(q)] ELSE q[k]]

UnregisterServiceOrPort(named) ==
  IF ~Registered(named, cmdbuf.arg)
  THEN Answer("not found") /\ UNCHANGED <<kernel, static>>
  ELSE LET j == Find(named, cmdbuf.arg) IN
       IF services[j].pid # pool[cur].pid
       THEN Answer("denied") /\ UNCHANGED <<kernel, static>>
       ELSE /\ port' = [port EXCEPT ![services[j].port] = ClosedPort]
            /\ services' = RemoveService(services, j)
            /\ Answer("ok")
            /\ UNCHANGED <<sess, sem, lists, pool, procs>>

UnregisterService == Serving("UnregisterService") /\ UnregisterServiceOrPort(FALSE)
UnregisterPort    == Serving("UnregisterPort")    /\ UnregisterServiceOrPort(TRUE)

(* svcCreateSessionToPort on a port with room.  A session to srv:pm is one  *)
(* sm itself will accept.                                                   *)
CreateSessionToPort(p) ==
  IF p = SrvPmPort
  THEN \E h \in Handles :
         /\ Fresh(h)
         /\ sess' = [sess EXCEPT ![h] = NewSession("pm", sess[pool[cur].handle].owner)]
         /\ UNCHANGED port
  ELSE port' = [port EXCEPT ![p].load = @ + 1] /\ UNCHANGED sess

GetServiceHandle ==
  /\ Serving("GetServiceHandle")
  /\ IF ~Registered(FALSE, cmdbuf.arg)
     THEN Park("waitReg", pool[cur].busy) /\ UNCHANGED <<kernel, services, procs>>
     ELSE LET p == services[Find(FALSE, cmdbuf.arg)].port IN
          IF ~port[p].alive
          THEN Answer("dead") /\ UNCHANGED <<kernel, static>>
          ELSE IF ~Full(p)
          THEN Answer("ok") /\ CreateSessionToPort(p) /\ UNCHANGED <<sem, static>>
          ELSE IF cmdbuf.w4 % 2 = 0
          THEN Park("waitPort", p) /\ UNCHANGED <<kernel, services, procs>>
          ELSE Answer("full") /\ UNCHANGED <<kernel, static>>

GetPort ==
  /\ Serving("GetPort")
  /\ IF Registered(TRUE, cmdbuf.arg)
     THEN Answer("ok") /\ UNCHANGED <<kernel, static>>
     ELSE IF cmdbuf.w4 # 0
     THEN Park("waitReg", pool[cur].busy) /\ UNCHANGED <<kernel, services, procs>>
     ELSE Answer("not found") /\ UNCHANGED <<kernel, static>>

(* Stands for the notification commands.  The second pid of the list the    *)
(* answer carries, if there is one, is left in word 4.                      *)
PublishAndGetSubscriber ==
  /\ Serving("PublishAndGetSubscriber")
  /\ pc' = "reply" /\ replyTarget' = pool[cur].handle /\ result' = "ok" /\ cur' = 0
  /\ \E w \in Word4 \cup {cmdbuf.w4} : cmdbuf' = [NoCommand EXCEPT !.w4 = w]
  /\ UNCHANGED <<kernel, static, i, n, closedPort>>

RegisterProcess ==
  /\ Serving("RegisterProcess")
  /\ procs' = procs \cup {cmdbuf.arg}
  /\ Answer(IF cmdbuf.arg \in procs THEN "duplicate" ELSE "ok")
  /\ UNCHANGED <<kernel, lists, pool, services>>

UnregisterProcess ==
  /\ Serving("UnregisterProcess")
  /\ IF cmdbuf.arg \notin procs
     THEN Answer("not found") /\ UNCHANGED <<kernel, static>>
     ELSE /\ pc' = "unregister" /\ i' = 1
          /\ UNCHANGED <<kernel, static, cmdbuf, replyTarget, result, cur, n, closedPort>>

(* The entry after a removed one: the last entry has filled the hole.       *)
AfterRemovalSkipping == i + 1   \* mutant: does not look at the entry moved here
AfterRemoval == i

(* The loop over servicesInfo, which fills each hole with the last entry    *)
UnregisterNext ==
  /\ pc = "unregister" /\ i <= Len(services)
  /\ IF services[i].pid = cmdbuf.arg
     THEN /\ port' = [port EXCEPT ![services[i].port] = ClosedPort]
          /\ services' = RemoveService(services, i)
          /\ i' = AfterRemoval
     ELSE i' = i + 1 /\ UNCHANGED <<port, services>>
  /\ UNCHANGED <<sess, sem, lists, pool, procs, pc, cmdbuf, replyTarget, result, cur, n, closedPort>>

UnregisterDone ==
  /\ pc = "unregister" /\ i > Len(services)
  /\ procs' = procs \ {cmdbuf.arg}
  /\ pc' = "reply" /\ replyTarget' = pool[cur].handle /\ result' = "ok" /\ cur' = 0
  /\ cmdbuf' = [NoCommand EXCEPT !.w4 = cmdbuf.w4]
  /\ i' = 0
  /\ UNCHANGED <<kernel, lists, pool, services, n, closedPort>>

---------------------------------------------------------------------------
Loop    == Reply \/ ReplyUnreachable \/ InvalidHandle \/ ResumeRegistered \/ AcceptSrv
           \/ AcceptPm \/ SessionClosed \/ ReceiveRequest \/ ResumePortReady
           \/ PortClosed \/ PortClosedNext \/ PortClosedDone
Handler == RegisterClient \/ RegisterService \/ RegisterPort \/ WakeNext \/ WakeDone
           \/ UnregisterService \/ UnregisterPort \/ GetServiceHandle \/ GetPort
           \/ PublishAndGetSubscriber \/ RegisterProcess \/ UnregisterProcess
           \/ UnregisterNext \/ UnregisterDone
Sm      == Loop \/ Handler
Next    == Environment \/ Sm

Spec     == Init /\ [][Next]_vars
FairSpec == Spec /\ WF_vars(Sm)

---------------------------------------------------------------------------
(* Properties *)

Results == {"none", "ok", "duplicate", "table full", "denied", "not found", "dead", "full"}
Session == [kind : {"none", "srv", "pm"}, st : {"none", "pending", "idle", "sent", "taken"},
            open : BOOLEAN, owner : AllPids, req : Command]
Port    == [open : BOOLEAN, alive : BOOLEAN, load : Nat, max : Nat]
Node    == [pid : AllPids, replay : ParkedCommand, busy : Ports \cup {NoPort},
            handle : Handles \cup {NoHandle}, isSrvPm : BOOLEAN]
Service == [name : AllNames, pid : AllPids, port : Ports, named : BOOLEAN]

(* Every variable has its type.                                             *)
TypeOK ==
  /\ sess \in [Handles -> Session] /\ port \in [Ports -> Port] /\ sem \in Nat
  /\ lists \in [nodes : [ListNames -> Seq(Slots)], parent : [Slots -> ListNames]]
  /\ pool \in [Slots -> Node] /\ services \in Seq(Service) /\ procs \in SUBSET Pids
  /\ pc \in {"wait", "reply", "serve", "wake", "unregister", "closing", "panic"}
  /\ cmdbuf \in Command /\ replyTarget \in Handles \cup {NoHandle} /\ result \in Results
  /\ cur \in Slots \cup {0} /\ i \in Nat /\ n \in Nat /\ closedPort \in Ports \cup {NoPort}

(* The pool is partitioned by the five session lists and the parent field   *)
(* names the list a node is on, in the middle of every loop too: a node on  *)
(* no list is leaked, a node on two is freed while in use (list.c).         *)
PoolPartitioned == IsPartition(lists, Slots)

(* The semaphore counts the sessions waiting to be replayed; the loop of a  *)
(* registration holds the difference in n until it releases it.  With fewer *)
(* counts a client sleeps for ever, with more main.c:187 panics.            *)
SemaphoreCountsWakeups == pc # "panic" => sem + n = Len(ToWake)

(* A request sm has taken is, at every moment, the one it is working on, or *)
(* the one it is about to answer, or parked: none is lost and none is       *)
(* answered twice.                                                          *)
Taken == {h \in Handles : sess[h].st = "taken"}
RequestsAccountedFor ==
  pc # "panic" =>
    /\ Taken = {pool[s].handle : s \in Parked \cup ({cur} \ {0})} \cup ({replyTarget} \ {NoHandle})
    /\ cur # 0 => cur \in ToSet(InUse)
    /\ replyTarget # NoHandle =>
         /\ replyTarget \notin {pool[s].handle : s \in Parked}
         /\ \E s \in ToSet(InUse) : pool[s].handle = replyTarget

(* No lost wakeup: between two commands, a session waiting for a            *)
(* registration waits for a name that is not registered.                    *)
NoLostWakeup ==
  pc \in {"wait", "reply"} =>
    \A s \in ToSet(WaitReg) :
      LET r == pool[s].replay
      IN  r.arg = Clobbered \/ ~Registered(r.op = "GetPort", r.arg)

(* The service table names every service once and owns one open port for    *)
(* each entry, in the middle of the unregistration loop too.                *)
ServiceTableSound ==
  /\ Len(services) <= NServices
  /\ \A j, k \in DOMAIN services :
       /\ port[services[j].port].open
       /\ j # k => /\ services[j].port # services[k].port
                   /\ services[j].named # services[k].named \/ services[j].name # services[k].name

(* No path reaches one of sm's panics.                                      *)
NeverPanics == pc # "panic"

(* When UnregisterProcess answers, no service of the process is left, and   *)
(* no service of another process went with them.                            *)
UnregisterRemovesExactly ==
  [][UnregisterNext \/ UnregisterDone =>
       /\ UnregisterDone => \A j \in DOMAIN services' : services'[j].pid # cmdbuf.arg
       /\ {services[j] : j \in {k \in DOMAIN services : services[k].pid # cmdbuf.arg}}
            \subseteq {services'[j] : j \in DOMAIN services'}]_vars

(* A session that a registration has woken is replayed: it does not stay on *)
(* the wake-up list, whatever the clients do.                               *)
WokenIsReplayed ==
  \A s \in Slots : (lists.parent[s] = "toWake") ~> (lists.parent[s] # "toWake")

(* A parked session will be replayed with the name its client sent.         *)
ReplayIsTheRequest ==
  \A s \in Parked : LET r == sess[pool[s].handle].req
                    IN  pool[s].replay.op = r.op /\ pool[s].replay.arg = r.arg

(* A GetServiceHandle that asks to wait for room is not told "full".        *)
WaiterNotToldFull ==
  pc = "reply" /\ result = "full" => sess[replyTarget].req.w4 % 2 = 1

---------------------------------------------------------------------------
(* The inductive invariant of SmServerProofs.                               *)

(* cur is a node on the in-use list while its command is being handled, i   *)
(* is a position while a loop runs, a handler leaves nothing behind in n,   *)
(* and replyTarget is set from an answer to the next svcReplyAndReceive.    *)
ControlOK ==
  /\ pc \in {"serve", "wake", "unregister"} => cur \in Slots /\ lists.parent[cur] = "inUse"
  /\ pc \in {"wait", "reply", "closing"} => cur = 0
  /\ pc \in {"wake", "unregister", "closing"} => i > 0
  /\ pc \notin {"wake", "panic"} => n = 0
  /\ pc = "reply" => replyTarget \in Handles
  /\ pc \notin {"reply", "panic"} => replyTarget = NoHandle

(* A node off the free list holds the handle of an accepted session, and no *)
(* two nodes remember the same handle.                                      *)
HandlesOK ==
  /\ \A s \in Slots : lists.parent[s] # "free" =>
       pool[s].handle \in Handles /\ sess[pool[s].handle].st \in {"idle", "sent", "taken"}
  /\ \A s, t \in Slots : pool[s].handle = pool[t].handle /\ pool[s].handle # NoHandle => s = t
  /\ \A h \in Handles : sess[h].st = "pending" => \A s \in Slots : pool[s].handle # h

(* RequestsAccountedFor, node by node.                                      *)
IsParked(s) == lists.parent[s] \in {"waitReg", "toWake", "waitPort"}
TakenOK ==
  pc # "panic" =>
    /\ \A s \in Slots : IsParked(s) => sess[pool[s].handle].st = "taken"
    /\ cur # 0 => sess[pool[cur].handle].st = "taken"
    /\ replyTarget # NoHandle =>
         /\ sess[replyTarget].st = "taken"
         /\ \E s \in Slots : lists.parent[s] = "inUse" /\ pool[s].handle = replyTarget
    /\ \A h \in Handles : sess[h].st = "taken" =>
         \/ replyTarget = h
         \/ cur # 0 /\ pool[cur].handle = h
         \/ \E s \in Slots : IsParked(s) /\ pool[s].handle = h

IInv == /\ TypeOK /\ PoolPartitioned /\ SemaphoreCountsWakeups
        /\ ControlOK /\ HandlesOK /\ TakenOK
=============================================================================
