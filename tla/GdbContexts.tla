----------------------------- MODULE GdbContexts ---------------------------
(***************************************************************************)
(* The GDB stub of rosalina: the contexts, one per debugged process, the    *)
(* processes themselves, and the monitor thread, which waits for what the   *)
(* processes do and reports it to the clients (gdb.c, debug.c, monitor.c).  *)
(*                                                                          *)
(* A section under the lock of a context is one action.  Only the server    *)
(* keeps a lock from one action to the next: see Held.                      *)
(***************************************************************************)
EXTENDS Integers, Sequences, FiniteSets, FiniteSetsExt

CONSTANTS
  MAX_DEBUG,       \* number of contexts
  NPorts,          \* ports listened on
  MAX_CTXS,        \* size of poll_fds and ctx_ptrs
  Pids,            \* processes that can be debugged
  None,
  Uses,            \* how the debugger may be used: see use
  Polite,          \* do clients end their session before they hang up?
  MonitorFirst,    \* is the monitor back in its wait when extended-remote clients detach?
  AttachFails      \* may a selected process turn out not to be attachable?

Ctxs  == 1 .. MAX_DEBUG
Ports == 1 .. NPorts
(* A context and the socket of its client have one name, and so have a port *)
(* and its listening socket.  No socket and no context are 0.               *)
Listening(p) == -p
Nothing      == 0
(* Packets: continue, stop (^C), detach, kill, extended mode, vAttach       *)
Commands     == {"c", "brk", "D", "k", "!", "vAttach"}

ASSUME GdbAssumption ==
  /\ MAX_DEBUG \in Nat \ {0} /\ NPorts \in Nat /\ MAX_CTXS \in Nat /\ MAX_CTXS >= NPorts
  /\ None \notin Pids /\ (Pids \cup {None}) \cap {"attached", "continued"} = {}
  /\ {Polite, MonitorFirst, AttachFails} \subseteq BOOLEAN
  /\ Uses \subseteq [disables : BOOLEAN, ports : SUBSET Ports, pids : SUBSET Pids,
                cmds : SUBSET Commands, events : SUBSET {"stop", "auto", "exit"}]

VARIABLES
  ctxs, shouldClose,     \* the contexts; those whose should_close is set
  proc,                  \* the processes and the debug event each has pending
  line, backlog,         \* the connections of the clients; those nobody has accepted
  ev,                    \* statusUpdated, statusUpdateReceived, shall_terminate_event
  mon,                   \* the monitor: the handles it waits for, the context that woke it
  poll, compact_needed, n,   \* poll_fds with ctx_ptrs, and n of the listening contexts
  srv,                   \* the server: where it is, its index, its context
  menu,
  use    \* chosen at the start: whether the user disables the debugger,
         \* the ports that are used, the processes that are debugged, what
         \* clients send and what happens to processes

connections == <<line, backlog>>
tables      == <<poll, compact_needed, n>>
vars == <<ctxs, shouldClose, proc, connections, ev, mon, tables, srv, menu, use>>

Blank == [flags |-> {}, state |-> "DISCONNECTED", localPort |-> Nothing, pid |-> None, debug |-> None,
          eventToWaitFor |-> "attached", attached |-> FALSE, continued |-> FALSE,
          i |-> 0, serv |-> Nothing]

Allocated(c) == ctxs[c].flags \cap {"SELECTED", "USED"} # {}
Running      == srv.pc \notin {"leave", "gone"}          \* server->super.running

(* DoPacket has the lock of its context while a handler waits for the       *)
(* monitor; everybody else takes the locks for the length of an action.     *)
Held(c)  == srv.pc = "detaching" /\ srv.c = c
NoneHeld == \A c \in Ctxs : ~Held(c)

---------------------------------------------------------------------------
(* Events.  The kernel wakes the monitor at once, so that an event has no   *)
(* waiter that it could have woken.                                         *)

Asleep(c, h) == mon.pc = "asleep" /\ mon.handles[c] = h
NoHandles(pc) == [pc |-> pc, handles |-> [c \in Ctxs |-> None], c |-> Nothing]
Wakes(c)      == mon' = [NoHandles("event") EXCEPT !.c = c]

(* mutant: the event is lost if the monitor does not wait for it            *)
SignalStatusPulse(received) ==
  /\ mon' = IF mon.pc = "asleep" THEN NoHandles("ack") ELSE mon
  /\ ev' = [ev EXCEPT !.received = received]
SignalStatusUpdated(received) ==
  IF mon.pc = "asleep"
  THEN mon' = NoHandles("ack") /\ ev' = [ev EXCEPT !.received = received]
  ELSE UNCHANGED mon /\ ev' = [ev EXCEPT !.received = received, !.updated = TRUE]

SignalTerminate ==
  /\ ev' = [ev EXCEPT !.terminate = TRUE]
  /\ IF mon.pc = "asleep" THEN mon' = NoHandles("leave") ELSE UNCHANGED mon

---------------------------------------------------------------------------
(* Processes                                                                *)

Debugged(p)   == \E c \in Ctxs : ctxs[c].debug = p
Attachable(p) == proc[p].st # "dead" /\ ~Debugged(p)

(* What a debugged process does next: it stops (a breakpoint, a fault), it  *)
(* does what the stub lets pass without a word, or it exits.                *)
Debuggee(p) ==
  /\ Debugged(p) /\ proc[p] = [st |-> "running", event |-> "none"]
  /\ \E e \in use.events :
       proc' = [proc EXCEPT ![p] = [event |-> e, st |-> CASE e = "stop" -> "stopped"
                                                          [] e = "auto" -> "running"
                                                          [] e = "exit" -> "dead"]]
  /\ LET c == CHOOSE x \in Ctxs : ctxs[x].debug = p
     IN  IF Asleep(c, p) THEN Wakes(c) ELSE UNCHANGED mon
  /\ UNCHANGED <<ctxs, shouldClose, connections, ev, tables, srv, menu, use>>

(* Another process is started in the place of one that has ended.           *)
Restarted(p) ==
  /\ proc[p].st = "dead" /\ \A c \in Ctxs : ctxs[c].pid # p
  /\ proc' = [proc EXCEPT ![p] = [st |-> "running", event |-> "none"]]
  /\ UNCHANGED <<ctxs, shouldClose, connections, ev, mon, tables, srv, menu, use>>

---------------------------------------------------------------------------
(* Contexts                                                                 *)

(* GDB_AttachToProcess, of a process that can be attached to: it is stopped *)
(* at an event of its own, which is not reported again.                     *)
AttachToProcess(x, p) == [x EXCEPT !.pid = p, !.debug = p, !.state = "ATTACHED",
                                   !.attached = ~Asleep(srv.c, "attached")]
Attaching(c, p) ==
  /\ proc' = [proc EXCEPT ![p] = [st |-> "stopped", event |-> "none"]]
  /\ IF Asleep(c, "attached") THEN Wakes(c) ELSE UNCHANGED mon

(* GDB_DetachFromProcess: events are drained, the process goes on or ends.  *)
Detached(x) == [x EXCEPT !.debug = None, !.pid = None, !.eventToWaitFor = "attached"]
Released(pr, x) ==
  IF x.debug = None THEN pr
  ELSE [pr EXCEPT ![x.debug] =
         [event |-> "none",
          st |-> IF @.st = "dead" \/ "TERMINATE_PROCESS" \in x.flags THEN "dead" ELSE "running"]]

(* What detaching leaves of the flags in extended-remote mode               *)
Kept(x) == [x EXCEPT !.flags = @ \cap {"EXTENDED_REMOTE", "USED"}]

(* mutant: detaches only from a process it is attached to                   *)
MustDetachAttached(x) == x.state = "ATTACHED"
MustDetach(x) == x.state \in {"ATTACHED", "DETACHING"} \/ x.debug # None
(* mutant: the state is left as it is                                       *)
ClosedStateKept(x) == LET d == IF MustDetach(x) THEN Detached(x) ELSE x
                      IN  [d EXCEPT !.localPort = Nothing, !.flags = {}, !.i = 0, !.serv = Nothing]
(* The second part of GDB_CloseClient; i and serv mean nothing any more.    *)
Closed(x) == LET d == IF MustDetach(x) THEN Detached(x) ELSE x
             IN  [d EXCEPT !.localPort = Nothing, !.flags = {}, !.state = "DISCONNECTED",
                           !.i = 0, !.serv = Nothing]
ClosedProc(pr, x) == IF MustDetach(x) THEN Released(pr, x) ELSE pr

---------------------------------------------------------------------------
(* The monitor                                                              *)

(* The handle the context wants waited for, by the object it names          *)
Handle(c) == IF ctxs[c].eventToWaitFor = "debug" THEN ctxs[c].debug ELSE ctxs[c].eventToWaitFor
MonitorSteps == UNCHANGED <<shouldClose, backlog, tables, srv, menu, use>>

MonitorReads ==
  /\ mon.pc = "top" /\ NoneHeld
  /\ mon' = [mon EXCEPT !.pc = "call", !.handles = [c \in Ctxs |-> Handle(c)]]
  /\ UNCHANGED <<ctxs, proc, line, ev>> /\ MonitorSteps

(* A debug handle that has been closed makes the wait fail.                 *)
Valid(c)    == mon.handles[c] \in {"attached", "continued"}
               \/ (mon.handles[c] # None /\ mon.handles[c] = ctxs[c].debug)
Signalled(c) == CASE mon.handles[c] = "attached"  -> ctxs[c].attached
                  [] mon.handles[c] = "continued" -> ctxs[c].continued
                  [] OTHER -> proc[mon.handles[c]].event # "none"

(* svcWaitSynchronizationN: the first handle that is signalled, or none.    *)
MonitorWaits ==
  /\ mon.pc = "call"
  /\ LET fails == \E c \in Ctxs : ~Valid(c)
         ready == {c \in Ctxs : Signalled(c)}
     IN  IF fails \/ ev.terminate
         THEN mon' = NoHandles("leave") /\ UNCHANGED <<ctxs, ev>>
         ELSE IF ev.updated
         THEN /\ mon' = NoHandles("ack")
              /\ ev' = [ev EXCEPT !.updated = FALSE] /\ UNCHANGED ctxs
         ELSE IF ready = {}
         THEN mon' = [mon EXCEPT !.pc = "asleep"] /\ UNCHANGED <<ctxs, ev>>
         ELSE LET c == Min(ready)
              IN  /\ Wakes(c) /\ UNCHANGED ev
                  /\ ctxs' = [ctxs EXCEPT ![c].continued = @ /\ mon.handles[c] # "continued"]
  /\ UNCHANGED <<proc, line>> /\ MonitorSteps

(* The condition of the loop                                                *)
Again == IF Running THEN "top" ELSE "leave"

MonitorAcknowledges ==
  /\ mon.pc = "ack"
  /\ ev' = [ev EXCEPT !.received = TRUE]
  /\ mon' = NoHandles(Again)
  /\ UNCHANGED <<ctxs, proc, line>> /\ MonitorSteps

(* mutant: the monitor goes on waiting for what it waited for               *)
ResetsAttached(x) == [x EXCEPT !.attached = FALSE]
Resets(x) == [x EXCEPT !.attached = FALSE, !.eventToWaitFor = "attached"]

(* A reply to the client of c, which reaches it unless it has hung up       *)
Tell(c, view) == line' = [line EXCEPT ![c].view = IF line[c].st = "open" THEN view ELSE @]

(* An event that stops the process: its report may not reach a client that  *)
(* has hung up.                                                             *)
Stopped(x, sent) == [x EXCEPT !.flags = @ \ {"PROCESS_CONTINUING"},
                              !.eventToWaitFor = IF sent THEN "continued" ELSE @]

(* GDB_HandleDebugEvents, with what the monitor does about its result       *)
HandleDebugEvents(c) ==
  LET x == ctxs[c]
      p == x.debug
      gone == Kept(Detached([x EXCEPT !.state = "DETACHING"]))
  IN  CASE proc[p].event = "none" -> UNCHANGED <<ctxs, proc, line>>
        [] proc[p].event = "auto" -> /\ proc' = [proc EXCEPT ![p].event = "none"]
                                     /\ UNCHANGED <<ctxs, line>>
        [] proc[p].event = "stop" ->
             /\ \E sent \in IF line[c].st = "open" THEN {TRUE} ELSE BOOLEAN :
                  ctxs' = [ctxs EXCEPT ![c] = Stopped(x, sent)]
             /\ Tell(c, "stopped")
             /\ proc' = [proc EXCEPT ![p].event = "none"]
        [] proc[p].event = "exit" ->
             /\ ctxs' = [ctxs EXCEPT ![c] = IF "EXTENDED_REMOTE" \in x.flags THEN Resets(gone)
                                            ELSE Resets(x)]
             /\ Tell(c, "exited")
             /\ proc' = [proc EXCEPT ![p].event = "none"]

(* The monitor was woken for a context.                                     *)
MonitorHandles ==
  LET c == mon.c
      x == ctxs[c]
  IN  /\ mon.pc = "event" /\ ~Held(c)
      /\ IF x.state \in {"DISCONNECTED", "DETACHING"}
         THEN ctxs' = [ctxs EXCEPT ![c] = Resets(x)] /\ UNCHANGED <<proc, line>>
         ELSE IF x.eventToWaitFor = "attached"
         THEN ctxs' = [ctxs EXCEPT ![c].eventToWaitFor = "continued"] /\ UNCHANGED <<proc, line>>
         ELSE IF x.eventToWaitFor = "continued"
         THEN ctxs' = [ctxs EXCEPT ![c].eventToWaitFor = "debug"] /\ UNCHANGED <<proc, line>>
         ELSE HandleDebugEvents(c)
      /\ mon' = NoHandles(Again)
      /\ UNCHANGED ev /\ MonitorSteps
=============================================================================
