# Luma3DS: a TLA+ verification development

Luma3DS is a custom firmware for the Nintendo 3DS. It patches the official
firmware at boot and replaces five of its system modules by its own: `sm`
(services), `pm` (processes), `pxi` (the link to the ARM9), `loader` and
`rosalina` (menu, debugger, plugins). The system modules are long-running
servers. They talk to each other, to the kernel and to every program on the
console through sessions, ports, events and semaphores, and nearly everything
that is hard to get right in this repository is there. This directory models
them in TLA+, checks the models with TLC and proves the main invariants with
TLAPS.

## 1. Inventory

### 1.1 sm: the service manager (`src/sysmodules/sm`)

State: a pool of session nodes (`sessionDataPool`, 76 on a retail build) on
five doubly linked lists (free, in use, waiting for a service or port to be
registered, to be woken, waiting for room on a full port); the service table
`servicesInfo` (at most 160 entries: name, pid, client port); the table of
processes that `pm` has registered, each with its service access list, a ring
of 16 pending notifications and a semaphore; a resume semaphore.

One thread runs `main`: build the list of handles from the session lists,
`svcReplyAndReceive`, decide which of eight things happened, run one command.
A command that cannot be answered yet (`GetServiceHandle` for a name nobody has
registered, or for a service whose port is full) is *parked*: its first 16 bytes
are saved, the session leaves the list of handles waited on, and the command is
replayed when the name is registered or the port has room.

Hard: clients close their sessions, die and register names in any order while
others are parked; a replay runs in the command buffer another command left
behind; a loop over a list moves the nodes it iterates over. Correct when no
request is lost or answered twice, no wake-up is lost, the pool never leaks a
node, the service table stays unique and owns its ports, and `panic` is not
reachable.

### 1.2 pm: the process manager (`src/sysmodules/pm`)

State: `g_manager` (the process list under a recursive lock, the running
application, data of the process being debugged, two one-shot events, the flags
`waitingForTermination` and `preparingForReboot`), a pool of 64 process nodes
with flags, a termination status and, for autoloaded modules, a reference
count; a heap of 6 extended headers with a lock-free free list; a task runner
with one slot.

Three threads: `main` serves `pm:app` and `pm:dbg` through
`ServiceManager_Run`; the process monitor waits for the handles of all
processes and cleans up after the ones that exit; the task runner performs
asynchronous launches and terminations. Application launches, terminations with
a timeout, the shutdown of everything for a reboot and the reference-counted
unloading of modules interleave through the shared list and the two events.

### 1.3 pxi: the link to the ARM9 (`src/sysmodules/pxi`)

State: one `SessionData` per PXI service (nine, and one more for `pxi:srv11`)
with a state machine (IDLE, RECEIVED_FROM_ARM11, SENT_TO_ARM9,
RECEIVED_FROM_ARM9), its command buffer and the static buffers reserved for it; a
pool of 21 static buffers, of which four at a time are on offer to the kernel; a
semaphore that counts replies, a counter of pending commands and a switch for
`pxi:mc` 5, and the lock of the transfer to the ARM9.

Four threads: `main` accepts sessions and ends pxi, the sender serves them and
forwards commands, the receiver collects what the ARM9 sends, and
`PXISRV11Handler` carries out the ARM9's own requests. The three that write to the
FIFO share one mutex.

Hard: replies come in any order, clients leave while their command is at the
ARM9, the states of sessions are changed by three threads, and pxi ends with a
command of its own that passes through all of them. Correct when each session
gets the reply of its own command, the sender never looks for a reply that is not
there (it panics), no static buffer is lost or shared, and pxi ends.

### 1.4 loader (`src/sysmodules/loader`)

`hb:ldr` and `Loader` are served by one thread. State: the program handle being
cached (`GetProgramInfo`), the homebrew target and its arguments, the open
LayeredFS state; code: decompression, patching, relocation of 3DSX files.

### 1.5 rosalina (`src/sysmodules/rosalina`)

Many independent parts: the menu thread; the GDB stub (`gdb.c`, `gdb/`,
`sock_util.c`: a server thread that polls the sockets of three ports, a monitor
thread that waits for the debug events of all processes, a context with a
recursive lock per debugged process, and the menu, which selects processes and
disables the debugger; two threads hand over with the events `statusUpdated` and
`statusUpdateReceived`); the plugin loader (`plugin/`, a service
and a thread per game plugin); input redirection, NTP, the socket layer; the
`err:f` server (`errdisp.c`); the sleep manager (`sleep.c`), the task runner;
cheats, screen filters, the configuration saver.

### 1.6 k11_extension, arm9, arm11

`k11_extension` extends the ARM11 kernel: SVC hooks, the interception of IPC
requests, the pause of all cores for the menu, memory mapping. `arm9` is the boot
loader: configuration, PIN, loading and patching of the firmware, the vendored
FatFs and sdmmc drivers. `arm11` is the small worker that drives the screens
during boot.

The same small task runner, service loop (`ServiceManager_Run`) and thread
wrapper are compiled into several of the modules above.

### 1.7 What can go wrong

`PROJECT.json` lists the hazards of this code at the line where each one bites.
In one sentence per component, correct means:

| component | correctness |
|---|---|
| sm, session loop | every request taken is answered once, by what its client asked for; no wake-up is lost; no session node is leaked or used twice; `panic` is out of reach |
| sm, service table | names are unique, each entry owns one open port, unregistering a process removes its entries and no others |
| sm, notifications | each process sees a FIFO of what reached it; its semaphore counts that queue; a successful publication reached every subscriber |
| pm, process list | nodes are on one list, once; whoever writes through a node pointer writes to the process it meant |
| pm, dependencies | the refcount of an autoloaded module is the number of its users |
| pm, terminations | every thread comes back, an end is announced once, the caller of a reboot outlives the others |
| pm, applications | there is one at a time, and the slot of the running application is freed when it ends |
| pxi | each session gets the reply of its own command; the semaphore counts replies; static buffers are neither lost nor shared, and hold a command's data until its reply; commands are answered, and pxi ends when told to |
| rosalina, GDB stub | the tables of sockets, contexts and ports agree; the monitor answers every close and leaves only when the debugger is disabled; no process is left stopped or attached; a stop is reported |
| rosalina, other parts | a plugin may go away at any step of the handshakes with it |

## 2. Modules

| module | models | used by |
|---|---|---|
| `SmLists` | `moveNode` on sequences and a parent field | `SmServer`, `SmListMachine` |
| `SmServer` | sm's session loop, its commands, its clients and the kernel they call | `MCSmServer`, `SmServerProofs` |
| `MCSmServer` | instances of it | four runs |
| `SmListMachine` | the abstract machine: nodes move between sequences | `LinkedLists` (refinement) |
| `LinkedLists` | `list.c` on prev, next and parent pointers | one run |
| `NotificationQueues` | the abstract promise: a bounded FIFO per process | `SmNotifications` (refinement) |
| `SmNotifications` | `notifications.c` and the process table: rings, semaphores, subscriptions | `MCSmNotifications` |
| `SmServerProofs`, `SmNotificationsProofs` | lemmas and theorems: lists and sessions, service table, wake-ups and panics; notifications | |
| `Selections` | the elements of an array that a loop keeps | `PmProcesses`, `GdbServer` |
| `SequenceLemmas` | lemmas: what `RemoveAt` takes out of a sequence and what `Chosen` keeps of it | the proof modules |
| `PmProcesses` | the kernel's processes, pm's list and lock, the monitor thread | `PmTermination` |
| `PmTermination` | `termination.c` on main and on the task runner | `PmLaunch` |
| `PmLaunch` | `launch.c` and `info.c` | `PmManager` |
| `PmManager` | command dispatch, task runner, the composed system, its properties | `MCPmManager`, `PmProofs` |
| `PmProofs`, `PmLaunchProofs` | lemmas and theorems: types and the process list; launches, the application and announcements | |
| `PxiCalls` | the abstract promise: one call at a time per session, executed at most once, answered to who asked | `PxiServer` (refinement) |
| `PxiServer` | the four threads of pxi, the ARM9's answers, the clients | `MCPxi`, `PxiProofs` |
| `PxiProofs`, `PxiCallsProofs` | lemmas and theorems: sessions and static buffers; pending commands and the refinement | |
| `GdbContexts` | the contexts, the debugged processes and the monitor thread | `GdbServer` |
| `GdbServer` | `server_run` with its tables, the callbacks and the packets that change sessions | `GdbStub` |
| `GdbStub` | the menu, the clients, the composed system, its properties | `MCGdb` |
| `GdbProofs` | lemmas and theorems: the types, the tables of slots and contexts, what clients and processes know of each other, what the monitor waits for | |

Each variable is named after what it stands for in the code and each action
after the function, or the part of it, it translates; the `map` of
`PROJECT.json` gives the lines of every definition.

### 2.1 SmServer

The state of the program: the five lists (`lists`), the nodes (`pool`), the
service table (`services`), the registered processes (`procs`), and where `main`
is (`pc`, `cur`, `i`, `n`, `closedPort`, `replyTarget`, and `cmdbuf`, the part of the
command buffer that survives from one command to the next). The state of the
kernel: sessions, ports and the resume semaphore.

One iteration of the loop is `Reply` or a wait action, then one handler; loops
over lists (`WakeNext`, `PortClosedNext`, `UnregisterNext`) take one step per
element, so that invariants are checked in the middle of them. The order in
which `svcReplyAndReceive` looks at its handles is the order in which `main` fills the
array: the disjuncts exclude each other accordingly. The clients connect, send,
close and die between any two steps of sm; the server of a port may die
when `ServersDie`. Parking saves operation and name, four words; the fifth, `w4`,
stays in the command buffer as the kernel and the handlers leave it.

Names are model values; `PrefixPairs` says which is a prefix of which, since the
wake-up loop compares over the length of the parked name only.
`Clobbered` is the name left after `main.c:147` has overwritten its first half.
Ports have a limit (`maxSessions`) and a load, which sessions of earlier clients also
make up. The kernel is taken to be of version 7.0 or later.

### 2.2 LinkedLists and SmListMachine

`LinkedLists` has the assignments of `moveNode` in their order, including the
normalisation of the destination's other end, over first, last, prev, next and
parent. Its refinement mapping walks the `next` pointers; `Implements` says
that each operation is one `MoveNode` of `SmLists`, the operator `SmServer` is built
from, and `BackwardsToo` that the `prev` pointers give the same list.

### 2.3 SmNotifications and NotificationQueues

One action per operation: a process subscribes, enables, acquires its semaphore,
receives, ends and is registered again; publications go to one process, to
subscribers (a set of processes, in the order of the table), or to all. A ring is modelled with its positions, so it wraps and
`Ring` slots can be full. `IsQueues` maps a ring to the sequence of its pending
notifications and shows that it is the queue of `NotificationQueues`.
A process with a pid below `nbSection0Modules` (`Section0`) enters the process table
with its first `EnableNotification`; the others are entered by pm. `WaitFirst` is the assumption that a process
acquires its semaphore before it receives, which libctru does; without it the
release at `notifications.c:41` can fail.

### 2.4 PmProcesses, PmTermination, PmLaunch, PmManager

Three threads. `mon` is where the monitor is and what it remembers (the handles it
waits on, the copy of the node it cleans up after); `loc[t]` is where main and
the task runner are and what is on their stacks. A section between
`ProcessList_Lock` and `ProcessList_Unlock` is one action, guarded by the lock
being free or one's own, except for the loop of `TerminateProcessOrTitleAsync`, which
holds it over several steps. Code outside the lock takes one action per access
to shared state. The lock is libctru's recursive one, with its
counter: unlocking a lock one does not hold decrements the counter all the same,
which is what the failing loads do.

`node` is the pool of `ProcessData`, `processList` and `freeList` are sequences
of its indices, with the insertion positions of the code (a deleted node becomes
the *second* of the free list). `kern` and `held` are the kernel's processes
and the handles pm has open; a process is told to end by notification 0x100
if it listens, and then ends at any time, or never. The two events are one-shot:
a signal wakes one waiter or stays. `told` counts how often the end of a process
has been announced and `served` the commands taken: both only observe.

A launch is `CheckLaunch` → `Load` → `Insert` → `Register` → `MergeOwn` → `Mark`, then
for each dependency without a process `Load` … `RunSucceeds` → `MarkDependency`
→ `MergeDependency`, and at last the title itself runs. `array` holds the
three parallel arrays of `loadWithDependencies`. A termination is `ClearEvent` →
`Arm` → notify → `Commit` → wait → (timeout) `KillOverdue` → wait → `Disarm`; a reboot
runs it twice.

Assumptions about pm's clients, each named in the module: NS unregisters a title
only when told of its end (`Unregistrable`); nobody asks to terminate a
process of whose end they have been told (`StillWanted`); and, in the runs with
`Patient`, a command is given when pm has carried out the last one (`Settled`).

### 2.5 PxiServer and PxiCalls

`state`, `buffer`, `handle` and `usedStaticBuffers` are the fields of
`SessionData`; the three words of static buffers are sets of bits, with
`clearMSBs` as in the code. Each thread is a record with a program counter:

- `main`: `wait` (accept a session) → `accepted`; or the last command: `last` →
  `acquire` → `transfer` → `join` → `ended`;
- `sender`: `send` (a session that may send) → `acquire` → `transfer` → back;
  `reply` and `receive` are `svcReplyAndReceive`; `event` holds which of its
  handles was signalled until the sender acts on it, so that other threads move in
  between;
- `receiver`: `wait`, `drain` (one message of the FIFO), `notify` (tell the thread
  the message is for), `await` (pxi:srv11 has answered);
- `handler`: `wait`, `handle`, `acquire`, `transfer`, `sent`.

`mutex` is `PXITransferMutex`, taken in an action of its own and given back with the
transfer. `arm9` is Process9: the commands it works on, in any order, and the FIFO of what
it sends. It asks one thing of pxi:srv11 at a time and nothing after it has answered the
last command. A command of a client is one of a few tags, or pxi:mc 5 with its flag; a
reply carries what it answers. `filled` remembers which static buffers the kernel put the
data of a command in; it only observes.

Facts of the code that the properties follow:

- the sender answers the *lowest* session that has a reply (`sender.c:179`), not the
  one whose reply the semaphore counted: clients of lower sessions that keep
  asking can keep a higher one waiting. `CommandsAreAnswered` states the exact
  guarantee.
- pm ends pxi when nothing uses it: `ShouldTerminate` requires that no session is
  open and no command is under way, since `sender.c:179` looks at the last reply
  as at any other, and would take it for an answer to a client.
- `Exclusive` is the assumption that pxi:mc 5 is sent when no other command is
  under way, and none until sending is enabled again. Without it, finding 2.

`IsCalls` maps a session to the call that is under way: asked until the ARM9 has put the
reply in the FIFO, executed until the sender passes it on.

### 2.6 GdbContexts, GdbServer, GdbStub

A context and the socket of its client share a name, as do a port and its listening
socket (its negative). `ctxs` are the fields of `GDBContext` the sessions depend on;
`shouldClose` is `should_close`; `poll` is `poll_fds` with `ctx_ptrs` beside it, with holes
until `ServerCompacts` has run, and `n` the clients of each port.
The debugged processes are `proc` (running, stopped, dead, and the event each has
pending), the connections are `line`, with what the client believes of its
process in `view`.

The server goes `poll` → (compact) → `visit` each slot → accept, receive a packet, or close:
`close` → `closing` → `waiting` for the monitor → `closed`. The monitor reads what to
wait for from the contexts (`MonitorReads`), waits (`MonitorWaits`), and either
acknowledges a status update or handles the debug events of one context. A section
under a lock is one action; `Held` is the one lock kept from one action to
the next, that of `GDB_HandleDetach`.

Assumptions, each a constant: `Polite` clients end their session (detach, kill, exit)
before they hang up; `AttachFails = FALSE` means that a process the menu offers can be
attached; `MonitorFirst` means that the monitor is back in its wait when an
extended-remote client detaches, without which finding 3. Clients act when the server
polls, one connection attempt at a time, and ask for one stop at a time. Both threads
have started.

## 3. Runs

| run | asks | bounds | shows |
|---|---|---|---|
| `sm_table` | `TypeOK`, `ServiceTableSound`, `UnregisterRemovesExactly` | a srv: and a srv:pm session, two pids, three ports, one client name and `srv:pm` | registration and removal by two processes, by themselves and by pm, in every order |
| `sm_full` | `IInv`, `NoLostWakeup`, `RequestsAccountedFor` | two sessions, three ports, two names, one the prefix of the other; servers die | services and named ports, unregistration under waiting sessions |
| `sm_live` | `PoolPartitioned`, `SemaphoreCountsWakeups`, `NeverPanics`, `WokenIsReplayed` | three sessions, one name, weak fairness of `Sm` | two sessions woken by one registration, with clients that go away |
| `sm_portclosed` | `ReplayIsTheRequest` (violated) | as `sm_live`, servers die | finding 1 |
| `lists` | `Implements`, `BackwardsToo` | four nodes, four lists | the pointers implement the sequences |
| `notifications` | `TypeOK`, `SemaphoreMatchesRing`, `PublishedToAllSubscribers`, `IsQueues` | two processes, two notifications, rings of two | wrap-around, full rings, re-registration |
| `pm_launch` | `ListSound`, `OneApplication`, `SlotIsApplication`, `WritesToItsProcess` | eight processes, three commands, any interleaving, any load may fail | launches against terminations against exits |
| `pm_terminate` | `TypeOK`, `RefcountsAreUsers`, `ToldOnce`, `CallerIsSpared`, `OneProcessPerTitle`, `ThreadsComeBack`, `SlotIsFreed` | seven processes, three commands one after the other, fairness | terminations and reboots with the monitor and the timeout interleaved |
| `pxi` | `TypeOK`, `RepliesAreCounted`, `StaticBuffersSound`, `PendingIsInFlight`, `IsCalls`, `CommandsAreAnswered`, `TerminationCompletes` | two sessions, six static buffers, two uses, fairness, no panic | commands, pxi:mc 5 and replies in any order; the ARM9's requests and the end of pxi |
| `pxi_modes` | `CommandsAreAnswered` (violated) | as `pxi`, pxi:mc 5 at any moment | finding 2 |
| `gdb` | `TypeOK`, `TablesSound`, `MonitorStays`, `DebuggeesSound`, `CloseIsAcknowledged`, `StopsAreReported` | two contexts, two ports, two processes, two uses, fairness | sessions that begin and end in every way, with the menu and the monitor in between |
| `gdb_detach` | `CloseIsAcknowledged` (violated) | one session, detach at any moment | finding 3 |

Why the bounds are enough. The hazards of `sm` need two sessions that wait for
one name while a third works (`sm_live`), or two sessions and a service, a port
and a prefix (`sm_full`); more sessions only repeat them, and what is
proved in section 4 holds for any number. A ring of two slots wraps after two
publications and is full with two pending. Four nodes let a list have a first,
an inner and a last node while another list is not empty. In pm the titles form the
shapes that matter: two applications that share a module, a module that depends
on another, a system title launched with a module that an application's module
uses too, and the built-in process; three commands
let a launch, a termination and a further command overlap with the monitor, and the
pids are as many as three commands can create (a launch that finds none left
waits: in `pm_launch` three commands create at most one application and two
modules each).

In pxi, session 0 is `pxi:mc`, whose commands bring no data, and session 1 stands for the
others: two commands in flight, two replies in the FIFO and a lowest session are all
that the interactions need, and what is proved holds for any number. The two uses split the
state space: pxi:mc 5 in one, the ARM9's requests and the end of pxi in
the other. Six static buffers are the two session 1 may reserve and four on offer. For the GDB
stub two contexts, with two sessions of two processes at once in one use, and one session
with everything that can happen to it (exits, kills, extended mode, the end of the debugger)
in the other; four slots hold two listening sockets and two clients.

Fairness. `sm_live` assumes weak fairness of sm's loop, a thread the kernel
schedules. `FairSpec` of `PmManager` assumes it of pm's three threads, and
that a process of `Obedient` that has been notified ends; processes that listen
and do not obey are killed after the timeout, which is why `ThreadsComeBack`
holds for them too. `FairSpec` of `PxiServer` assumes weak fairness of the four threads,
strong fairness of taking the transfer mutex (each of the three threads that want it holds it
for one transfer only, and a kernel mutex goes to a waiting thread when it is released), and that Process9 answers each command it has. That of `GdbStub`
assumes weak fairness of the server and of the monitor. Nothing is assumed
of the clients.

`CHECK_DEADLOCK FALSE` is set where the system may rest: sm when every client is
parked and gone, pm when the commands have been carried out, the debugger when it has
been disabled, and in `pxi_modes`, where pxi stops for good. Deadlock is checked in `notifications`, `lists` and `pxi`: a panic
of pxi is a state without successors, so that `pxi` also shows there is none.

### 3.1 Findings

1. **`main.c:147`** (sm). When a port closes, the sessions that wait for room on
   it are to wait for its registration instead. The code writes the reason into
   `replayCmdbuf[1]`, but that array holds the saved *request*, whose word 1 is the
   first half of the name. The session waits for a name nobody registers.
2. **`sender.c:190`** (pxi). When a reply comes, the sender does not count it if the last
   command *received* was pxi:mc 5 with "disable", whatever command the reply is for. If
   pxi:mc 5 arrives while another command is in flight, `pendingArm9Commands` stays above 0,
   and nothing is sent to the ARM9 any more.
3. **`debug.c:34`** (GDB stub). A detach in extended-remote mode unlocks the context
   to wait for the monitor, but `GDB_DoPacket` has locked it too and the lock is recursive:
   if the monitor is outside its wait it blocks on this context, and neither goes on.

### 3.2 Other disagreements seen

No comment or test promises otherwise, or a run for each would say little more; the
passing runs keep clear of them by the assumptions named here.

- **`main.c:190`** (sm). A replay restores 16 bytes; the flags of `GetServiceHandle` are
  the word behind them and come from the last command. A client that asked to wait is told
  that the service is full. With the instance of `sm_portclosed`, `WaiterNotToldFull` is violated.
- **`termination.c:241`** (pm). An application that ends by itself while
  `TerminateApplication` runs has its dependencies dropped by the monitor and by
  the terminating thread: `RefcountsAreUsers` is violated with `Leaving <- MCLeaving` and
  `Requests <- ExitRequests`. Its end is announced twice, too: the thread asks a process to end
  that the monitor has reaped and is about to announce, and with the new status the monitor
  finds it once more (`ToldOnce`, with `Leaving <- MCLeaving`). `pm_terminate` has `Leaving = {}`.
- **`launch.c:171`** (pm). When a client ends a dependency that is in use, its next user
  loads it again and is the only one it counts; when that one ends, the module is unloaded under the
  others. `RefcountsAreUsers` is violated with `WithModules("shell")`, `WithModules("mod")` and
  `EndTitle("dep", TRUE)`; the clients of `pm_terminate` end no dependency.
- **`info.c:81`** (pm). A dependency is looked up once and loaded later; when
  `LaunchTitle` launches the same title in between, two processes of it run:
  `OneProcessPerTitle` is violated with `Patient = FALSE` and `TwinRequests`.
- **`launch.c:251`** (pm). A failing load unlocks a list that is not locked. The
  counter wraps, and the next thread to take the lock keeps it for ever:
  `ThreadsComeBack` is violated with `LoadsFail = TRUE` and `AppRequests`. The dependency
  whose run fails does the same.
- **`process_monitor.c:32`** (pm). An application whose end nobody is told of has its node
  freed by the monitor before its slot is cleared. If two other processes are entered in
  between, the second has the node: the comparison fails, and the slot stays on a module
  for good. `SlotIsApplication` is violated with titles without dependencies and the requests
  `Unobserved("app")`, `Launches("mod", FALSE)` and `Launches("dep", FALSE)`; in
  `pm_launch` at most one process is entered meanwhile.
- **`sender.c:235`** (pxi). The 21 static buffers (`common.h:32`) are the sum of
  the shares of the nine sessions (`main.c:39`). When nearly all of them have a command
  under way, fewer than four are left to offer to the kernel; the sender gives back the
  4 - n *highest* of what is on offer and so gives away buffers the new command has been
  filled with. `DataIsReserved` is violated with three sessions that take 0, 2 and 2 of four
  buffers. `DataStaysReserved` (section 4) says when it holds.
- **`sock_util.c:207`** (GDB stub). When attaching to a selected process fails, `accept_cb`
  clears a slot that the same pass of the loop still visits: `TablesSound` is violated with
  `AttachFails = TRUE`.
- **`server.c:180`** (GDB stub). A client that hangs up while its process runs may leave
  the monitor waiting on the context of the old session: `StopsAreReported` is violated with
  `Polite = FALSE`. `MonitorStays` is violated then too: the monitor, at an event of the
  context while the server closes it, sets `eventToWaitFor` again behind the server's reset, the
  server closes the debug handle, and the monitor's wait on it fails, which ends the monitor.
- `GDB_SelectAvailableContext` leaves `flags = ~GDB_FLAG_SELECTED` behind
  (`server.c:133`) and `GDB_GetClient` waits without end for the next application;
  neither is modelled.

## 4. Proofs

`SmServerProofs` first proves what `MoveNode` does to a partition of nodes into
sequences (`MoveNodeProperties`): it stays one, the parent fields stay right, the node is on
its new list and nothing else has moved. It then proves, for every pool size, port
limit, table size, set of clients, names and ports (with the assumptions
`SizesAssumption` and `ValuesAssumption` of `SmServer`):

- `TypeCorrect`, `PoolStaysPartitioned`, `SemaphoreSound`, `RequestsAreAccountedFor`,
- all from `Inductive == Spec => []IInv`.

None of these is inductive alone. The semaphore's count is only right if a
wake-up loop has control (`ControlOK`: `n` is 0 outside it); a request is only
accounted for if nodes off the free list hold distinct handles of live sessions
(`HandlesOK`) and if those parked, served or about to be answered are exactly the
taken ones, node by node (`TakenOK`). `IInv` is the conjunction, which `sm_full` also checks with
TLC. The proof has a lemma for each conjunct (`TypeStep`, `PartitionStep`,
`ControlStep`, `SemStep`, `HandlesStep`, `TakenStep`). To avoid going through all
actions in each, `StepKinds` first sorts every step into one of a few kinds by
what it does to the lists, to the handles and to the counters.

`SmNotificationsProofs` proves about `SmNotifications`, for any processes, notifications
and ring size, from `IInv` (types, each ring sound: `RingOK`, and nothing left of a process
that is not registered):

- `TypeCorrect`;
- `SemaphoreCountsRing`: under `WaitFirst` the semaphore counts the ring, so the release at
  `notifications.c:41` never fails;
- `RingsAreQueues`, the refinement: every step of the rings is a step of the queues of
  `NotificationQueues` or a stutter. `PutProperties` and `ReceivedProperties` say what an
  insertion and a removal do to the sequence of pending notifications, through the
  arithmetic of positions (`Round`);
- `PublicationsReachAll`, the action property.

`PxiProofs` proves about `PxiServer`, for any number of sessions, static buffers and
shares of them (`PxiAssumption`), and whatever the clients and Process9 do:

- `TypeCorrect`, `SemaphoreCountsReplies` (the semaphore, the one reply the receiver is
  announcing and the one the sender has been woken for are together the sessions that have a
  reply), `SenderFindsAReply` (the sender, once woken, finds one: the panic after
  `sender.c:179` is out of reach), `PoolStaysPartitioned`, all from `Inductive == Spec => []IInv`;
- `DataStaysReserved`: if, whatever the sessions hold within their shares, four buffers are
  left (`EnoughBuffers`), no command loses the static buffers its data is in.

The count alone is not inductive. That a reply is counted once depends on where it is:
a thread that is at work has been woken (`Alive`), pxi:srv11 and the last command
have states of their own that the sender must not meet (`Begins`, `Quiet`). `EnoughBuffers` is
what the last theorem really rests on: the kernel fills the lowest of what is on offer
and the sender gives back the highest, which keeps the right ones if four are on offer
(`LowestKept`, `FourAcquired`).

`SmServerProofs` goes on, for the same constants:

- `ServiceTableIsSound` and `UnregistrationIsExact`: names are unique and each entry owns its
  own open port, and an `UnregisterProcess` removes the entries of its process and no
  others, also in the middle of its loop (`TableInv` says what the loop has seen);
- `NoWakeupIsLost`: a session that waits for a name is woken in the iteration that registers it;
- `OnlyTwoPanics`: of the panics of the session loop only two can be reached: the wait on a
  port whose handle sm has closed, because its service was unregistered while a session
  waited for room on it, and a session for which the pool has no node;
- `PoolSuffices`: with at most as many sessions as nodes (`SrvMax + PmMax <= NSlots`) the pool is
  never empty. The build has 76 nodes, while `srv:` and `srv:pm` admit 64 sessions each: that
  the sessions stay within 76 is a fact about the clients, not about the code;
- `PanicFree`: without unregistrations, in any behaviour in which there are never more sessions
  than nodes, no panic is reached.

`WakeUpsAssumption` (`SrvMax <= SemMax`) is what the wake-ups rest on: the semaphore counts to 64
and so does the port.

`PxiCallsProofs` goes on from `PxiProofs`:

- `PendingCountsCommands`: `pendingArm9Commands` is the number of commands at the ARM9, if a
  client of `pxi:mc` sends command 5 only while nothing else is in flight (`Exclusive`; without
  it finding 2);
- `RepliesReachTheirCallers`, the refinement, without that hypothesis: every step of the four threads, of
  Process9 and of the clients is a step of `PxiCalls` or a stutter. What makes it provable is
  that a call is in one place at a time, a session's buffer, the ARM9, the FIFO or the
  receiver's hands (`EndsOK`, `PlacesOK`, `KeptOK`, `ReceivedOK`, together `CallsInv`);
  each action is then shown to be one of `Asks`, `Executes`, `Answers`, `GivesUp`, `Drops` or
  `Same` on that view.

`PmProofs` proves about `PmManager`, for any titles and dependencies, any number of nodes, processes
and commands, obedient clients or not (`PmAssumption`, `RequestsAssumption`):

- `TypeCorrect`, which says that refcounts stay in their u8 and that what is
  left of `remrefcounts` is never 0 when 1 is taken off;
- `ListIsSound`: every node is on one of the two lists, once, and the processes in the list are
  different ones whose handles are open.

Neither is inductive. That the array of a launch is right where it is read depends on the
place the thread is at (`ControlOK`), which carries over steps of the other threads because
only `Insert` gives a node to another process (`NodesStep`). That a handle in the list is
open depends on who closes handles: what the monitor is about to close is not listed
and nobody is about to enter it (`ClosingOK`), and what a thread is about to enter is open
and not listed (`EnteringOK`). `StepKinds` sorts the steps by what they do to
lists, handles and threads; `Erased` and `SecondPlace`, the sequences of `ProcessList_Delete`, have
lemmas of their own. TLC checks the parts of `IInv` on both instances of pm.

`PmLaunchProofs` goes on from there to launches, most of which happen outside the lock:

- `WritesAreOwn`: what a thread writes to a node without the lock goes to the process it has loaded;
- `ApplicationIsAlone`: no two applications run at once;
- `SlotHoldsApplication`: `runningApplicationData` never points to a node another process has
  taken, if the end of every application is announced (`NotifiedApps`; otherwise false, see 3.2);
- `TitleRunsOnce`: no two live processes have the same title, the built-in ones aside;
- `EndIsToldOnce`: until a reboot is prepared, the end of a process is announced at most once.

The first three need two hypotheses, and each is there because the code without it does the
wrong thing. `Orderly`: the clients wait for pm between commands, or they only end and launch, and do not
have modules launched with their dependencies (the runner could end a process that main is still
launching, and main would write to a node that has been freed). `DepsStay`: a system module that
is a dependency does not end by itself (if it does between its run and `MarkDependency`, the
monitor frees its node under the thread's pointer). Both hold in `pm_launch`.

The invariant says who works on what (`Orders`): tasks pass from main to the runner one at a time,
patient clients leave only one thread at work, and with the others main launches without
dependencies and ends nothing while the runner loads an application. From that it follows what a
thread has in its hands (`Care`): the node of its title and of the dependency it works on
are listed, hold its process, and the process is alive and nobody asks it to end (`Firm`), from the
insertion to the run. The proof of a step has two halves: the thread itself (`OwnCare`,
one lemma an action), and everybody else, who leaves such a node alone (`OthersCalm`, from
`CalmStep` for steps that are no launch and `Away` for those that are). `AppsOK` then follows an application
through its life: in its thread's hands, in the slot, dead. Without the first of these the slot
alone would not do, as it is empty while an application is loaded.

`TitleRunsOnce` needs more: clients that wait for pm (`Patient`; otherwise false, see 3.2), and that what
is debugged is an application and nobody's dependency (`DebugsApps`), because `LaunchAppDebug` looks
at the slot only and never for the title. pm looks for a title and enters it in different
sections of the lock, for a dependency with other loads in between. The invariant (`Fresh`)
says that what was not listed when it was looked for is still not listed when it is loaded: the title
of a task on its way to the runner (`FreshTasks`), and every dependency in the array that
has no process (`FreshOf`). It holds because only a launch enters a title (`UnlistedStays`), a patient
client leaves one launch at work (`OnlyOne`), and the titles of the array are different ones
(`ArrayOK`). A node of an application that has ended may stay listed while the title is debugged again, which
is why the property speaks of live processes.

`EndIsToldOnce` is about a duty that passes between threads. The monitor announces an end if the
node has the flag; `TerminateProcess` and `TerminateTitle` take the flag off the node and announce
the end themselves; and a process that has been reaped stays listed, with the flag, until it is
unregistered. It needs clients that wait (`Patient`) and that what is launched with an announcement
of its end ends only when it is asked to (`NotifiedStay`; otherwise false, see 3.2); both hold in
`pm_terminate`, and so does `DepsStay`. The invariant (`Voiced`) says of a process that has the
flag (`VoiceOK`) that nothing is announced while its node says it has not ended, that afterwards
the monitor has announced it or is about to and will not meet it again (`Watched`), and
that no thread has taken its announcement over; of a thread that has (`TellerOK`), that it is the
only one to make it. The hard part is what keeps a thread from asking a process to end that
the monitor has already announced: a command on its way, in main's hands, in the queue or
at the runner, names no such process (`Unhurried`), the slot does not hold one when main
is about to end the application (`SlotUnheard`), and until a reboot main ends the
application only and the runner the rest (`Divided`). TLC checked `Voiced` on the
instance of `pm_terminate`.

`GdbProofs` proves about `GdbStub`, for any number of contexts, ports, slots and processes and any
uses (`GdbAssumption`), polite clients or not:

- `TypeCorrect`; and `OneDebugger`, no process is debugged from two contexts;
- `DebuggeesStaySound`: a stopped process has a debugger, a process whose client believes it
  stopped is, and `GDB_FinalizeServer` leaves no open socket and no debugged process;
- `TablesStaySound`, if attaching to a selected process does not fail (`AttachFails = FALSE`;
  otherwise `TablesSound` is false, see 3.2);
- `MonitorIsKept`, if clients end their session before they hang up (`Polite = TRUE`; otherwise
  `MonitorStays` is false, see 3.2): no wait of the monitor fails before the debugger is disabled,
  whether attachments fail or not.

The first two follow from `Base`. `DebuggeesStaySound` needs `Views` as well. That a client and
its process agree depends on the packet under way: a client that has sent "continue"
believes that its process runs while it is still stopped, and one that attaches again does so
only after its process has ended (`ViewOK`), so that a stop is never reported over a packet the
client would not have sent. A closed connection, and one that was just accepted, has no packet
(`LineOK`); a process stays debugged by a context that is not attached to it only while
the server is letting it go (`HeldOK`), which is why `Released` frees every process that is
stopped. None of this needs polite clients.

That a slot and its context name each other (`SlotsOK`)
survives a compaction because the kept slots are the open ones, each once, in their order
(`Chosen`, whose facts are in `SequenceLemmas`), and `Compacted` turns that into the new index of each
context. It survives a close only if the server, at a context, really is at one with a client
(`PlaceOK`), and at a port is at the port's slot (`VisitOK`). That the server never
meets an empty slot is more: `NoFail` adds that empty slots are behind the index and that
a compaction is due (`EmptyOK`), and that a process selected for a client that has not come
stays attachable: nobody debugs it, it does not end, and no client is attaching to it
(`AwaitsOK`). Each action has a lemma for `Base` and one for `NoFail`; what most actions
leave alone is said once (`Tame`, `TameSlots`, `Steady`, `Stays`). TLC checked `Base`,
`NoFail` and `Views` on the instance of `gdb`, `Views` also with impolite clients and failing
attachments, `MonOK` with polite clients and failing attachments.

`MonitorIsKept` needs a third invariant, `MonOK`, which holds until the debugger is disabled. The
wait fails if a handle it was given has been closed since, so that before a
debug handle is closed the monitor must have let go of the context (`Calm`): it does not
handle an event of it, and what it waits for there is `attachedEvent`. The server
closes a handle only after the monitor's answer, and the answer comes after the server has reset the
context; but between the reset and the answer the monitor may still handle an event of the
context. It resets the context again if the session is over, so that it is enough that the
context is calm or `DETACHING` when the server gets there (`Loose`, `GoingOK`) and that an answer
is outstanding exactly when one was asked for (`AckOK`). A client that hangs up brings the server there without
either; a polite one hangs up only when its process has ended or it never had one, and
then the context is calm (`CalmOK`). The server acts on what it heard when it polled:
that it is still so when it gets to the slot is `HeardOK`.

Only model-checked: of pm, `RefcountsAreUsers` and `CallerIsSpared`, which hold only
for clients as the runs have them (3.2 and plan item 5); `LinkedLists`, whose
recursive walk over pointers would need induction over data, which the prover does not
offer; and all liveness, which it does not cover either.

## 5. Not modelled

- sm: service access lists, `IsServiceRegistered`, firmwares before 7.0.
- pm: the queue of the debugged application, `LaunchTitleUpdate`,
  `ChainloadHomebrewDirty`, firmware launch, resource limits, the autolaunch at
  boot (its result is the initial state), failures of calls other than
  `LOADER_LoadProcess`, answers to commands. The end of the monitor's cleanup (clearing
  the slot, announcing, closing the handle) is one action: a simplification.
- pxi: the notifications main receives (pm's order to end is the one that matters), calls
  that fail without a modelled cause, the registers behind `PXI.c`, which are a FIFO and
  an interrupt. What publishing a notification for the ARM9 does is sm's.
- GDB stub: debugging of the next application, `vRun` and restarts, memory, register, thread and
  breakpoint packets (they change no session), `preTermination`, sleep and loss of the
  network, a second start of the debugger, starts that fail, joins that time out, the
  deselection of a process whose client is connected.
- Everything else of section 1, with reasons in `PROJECT.json`. For good: user interface,
  byte patches and patch tables, drivers, fonts, and the vendored file system and its
  tables, which are most of the lines of the repository and have no behaviour
  a state machine would say more of. Because they come later: `ServiceManager_Run`, the ExHeader
  heap, the plugin loader and the kernel parts.

## 6. Plan

1. Done: the session loop of sm, its lists and notifications; the life of processes in pm;
   pxi; the sessions of the GDB stub; the proofs of section 4.
2. The rest of pm: the ExHeader heap with three threads (an abstract pool as its
   specification; the ABA of its exchange), two overlapping terminations, the
   debugged application.
3. `ServiceManager_Run` with its session array, implementing a set of sessions.
4. rosalina: the event and reply words of the plugin loader, the next application in the
   debugger. k11_extension: the table of sessions with its binary search, the pause of
   threads.
5. Proofs: `RefcountsAreUsers` of pm and, from it, `CallerIsSpared`. Both count the users of a
   dependency, in nodes and in the arrays of launches, and hold while no client ends a
   dependency that is in use: it is loaded again for its next user only, and the others no
   longer count. Constants cannot say that of a process id, so it has to be assumed of behaviours.
