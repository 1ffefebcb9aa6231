------------------------------ MODULE GdbServer ----------------------------
(***************************************************************************)
(* The server thread of the GDB stub: the poll loop of sock_util.c over the *)
(* tables of sockets and contexts, and what gdb/server.c and gdb/debug.c do *)
(* when a client connects, sends a packet or goes.                          *)
(***************************************************************************)
EXTENDS GdbContexts, Selections

Slot == [fd : (-NPorts) .. MAX_DEBUG, ctx : (-NPorts) .. MAX_DEBUG, revents : {"none", "in", "hup"}]
Unused == [fd |-> Nothing, ctx |-> Nothing, revents |-> "none"]

At(pc)   == srv.pc = pc /\ UNCHANGED <<menu, use>>
Polling  == [pc |-> "poll", i |-> 0, c |-> Nothing]
To(pc)   == srv' = [srv EXCEPT !.pc = pc]
NextSlot == srv' = [srv EXCEPT !.pc = "visit", !.i = @ + 1, !.c = Nothing]
CloseCtx(c) == srv' = [srv EXCEPT !.pc = "close", !.c = c]

---------------------------------------------------------------------------
(* The poll loop                                                            *)

Revents(s) ==
  IF s.fd < 0 THEN IF backlog[-s.fd] THEN "in" ELSE "none"
  ELSE IF s.fd = Nothing THEN "none"
  ELSE IF line[s.fd].st = "hup" THEN "hup"
  ELSE IF line[s.fd].pkt.cmd # "none" THEN "in" ELSE "none"

(* socPoll, between two checks of server_should_exit.  Without an event the *)
(* loop does nothing but poll again.                                        *)
ServerPolls ==
  /\ At("poll")
  /\ IF ev.terminate THEN To("abort") /\ UNCHANGED poll
     ELSE /\ \E k \in DOMAIN poll : Revents(poll[k]) # "none"
          /\ poll' = [k \in DOMAIN poll |-> [poll[k] EXCEPT !.revents = Revents(poll[k])]]
          /\ srv' = [srv EXCEPT !.pc = "visit", !.i = 1]
  /\ UNCHANGED <<ctxs, shouldClose, proc, connections, ev, mon, compact_needed, n>>

Slots == {k \in DOMAIN poll : poll[k].fd # Nothing}

(* mutant: the contexts keep the indices they had                           *)
RenumberedNot(q) == ctxs
Renumbered(q) == [c \in Ctxs |-> IF \E k \in DOMAIN q : q[k].ctx = c
                                 THEN [ctxs[c] EXCEPT !.i = CHOOSE k \in DOMAIN q : q[k].ctx = c]
                                 ELSE ctxs[c]]

(* The loop over the slots ends: exit check, compact, and revents cleared.  *)
ServerCompacts ==
  /\ At("visit") /\ srv.i > Len(poll)
  /\ IF ev.terminate THEN To("abort") /\ UNCHANGED <<poll, compact_needed, ctxs>>
     ELSE LET kept == IF compact_needed THEN Chosen(poll, Slots) ELSE poll
          IN  /\ srv' = Polling
              /\ compact_needed' = FALSE
              /\ poll' = [k \in DOMAIN kept |-> [kept[k] EXCEPT !.revents = "none"]]
              /\ ctxs' = IF compact_needed THEN Renumbered(kept) ELSE ctxs
  /\ UNCHANGED <<shouldClose, proc, connections, ev, mon, n>>

(* The next slot there is something to do for; one without a context makes  *)
(* the thread fault.                                                        *)
Waiting(k) == poll[k].ctx = Nothing \/ poll[k].revents # "none" \/ poll[k].ctx \in shouldClose
ServerVisits ==
  /\ At("visit") /\ srv.i <= Len(poll)
  /\ LET rest == {k \in srv.i .. Len(poll) : Waiting(k)}
         k == Min(rest)
         s == poll[k]
         pc == CASE s.ctx = Nothing -> "fault"
                 [] s.ctx # Nothing /\ (s.revents = "hup" \/ s.ctx \in shouldClose) -> "close"
                 [] OTHER -> IF s.ctx < 0 THEN "accept" ELSE "data"
     IN  srv' = IF rest = {} THEN [srv EXCEPT !.i = Len(poll) + 1]
                ELSE [pc |-> pc, i |-> k, c |-> s.ctx]
  /\ UNCHANGED <<ctxs, shouldClose, proc, connections, ev, mon, tables>>

---------------------------------------------------------------------------
(* Connections                                                              *)

(* GDB_GetClient: the context that has the port, if nobody uses it, or the  *)
(* first that is free.                                                      *)
Tied(p) == {c \in Ctxs : ctxs[c].localPort = p}
Free    == {c \in Ctxs : ~Allocated(c)}
GetClient(p) == IF Tied(p) # {} THEN {c \in {Min(Tied(p))} : "USED" \notin ctxs[c].flags}
                ELSE IF Free # {} THEN {Min(Free)} ELSE {}

(* A context with a client on port p, in slot k                             *)
Connected(x, p, k) == [x EXCEPT !.localPort = p, !.flags = @ \cup {"USED"}, !.state = "CONNECTED",
                                !.i = k, !.serv = p]

HasRoom(p) == n[p] < 1 /\ Len(poll) < MAX_CTXS

NoPacket == [cmd |-> "none", pid |-> None]
NoLine   == [st |-> "none", pkt |-> NoPacket, view |-> "none"]

ServerAccepts ==
  LET p == -srv.c
      k == Len(poll) + 1
  IN  /\ At("accept") /\ NoneHeld
      /\ backlog' = [backlog EXCEPT ![p] = FALSE]
      /\ IF ev.terminate
         THEN To("abort") /\ UNCHANGED <<ctxs, shouldClose, line, poll, n>>
         ELSE IF ~HasRoom(p) \/ GetClient(p) = {}
         THEN NextSlot /\ UNCHANGED <<ctxs, shouldClose, line, poll, n>>
         ELSE \E c \in GetClient(p) :
              /\ ctxs' = [ctxs EXCEPT ![c] = Connected(@, p, k)]
              /\ shouldClose' = shouldClose \ {c}
              /\ line' = [line EXCEPT ![c] = [NoLine EXCEPT !.st = "open"]]
              /\ poll' = Append(poll, [fd |-> c, ctx |-> c, revents |-> "none"])
              /\ n' = [n EXCEPT ![p] = @ + 1]
              /\ srv' = [srv EXCEPT !.pc = "accepted", !.c = c]
      /\ UNCHANGED <<proc, ev, mon, compact_needed>>

(* GDB_AcceptClient: a process that has been selected is attached to.       *)
AcceptClient ==
  LET c == srv.c
      p == ctxs[c].pid
  IN  /\ At("accepted") /\ NoneHeld
      /\ IF "SELECTED" \notin ctxs[c].flags
         THEN NextSlot /\ UNCHANGED <<ctxs, proc, mon, line>>
         ELSE \E ok \in {Attachable(p)} \cup IF AttachFails THEN {FALSE} ELSE {} :
              IF ok
              THEN /\ ctxs' = [ctxs EXCEPT ![c] = AttachToProcess(@, p)]
                   /\ Attaching(c, p) /\ Tell(c, "stopped") /\ NextSlot
              ELSE CloseCtx(c) /\ UNCHANGED <<ctxs, proc, mon, line>>
      /\ UNCHANGED <<shouldClose, backlog, ev, tables>>

(* server_close_ctx, and GDB_CloseClient up to the wait for the monitor     *)
ServerCloses ==
  /\ At("close") /\ NoneHeld
  /\ compact_needed' = TRUE
  /\ IF srv.c < 0 THEN To("closed") /\ UNCHANGED <<ctxs, ev, mon>>
     ELSE /\ ctxs' = [ctxs EXCEPT ![srv.c] = Resets(@)]
          /\ SignalStatusUpdated(FALSE) /\ To("closing")
  /\ UNCHANGED <<shouldClose, proc, connections, poll, n>>

(* referenceCount is 2 as long as the monitor runs.                         *)
MonitorCounts == mon.pc # "gone"

ServerAsks ==
  /\ At("closing")
  /\ To(IF MonitorCounts THEN "waiting" ELSE "closed")
  /\ UNCHANGED <<ctxs, shouldClose, proc, connections, ev, mon, tables>>

ServerIsAnswered ==
  /\ At("waiting") /\ ev.received
  /\ To("closed")
  /\ UNCHANGED <<ctxs, shouldClose, proc, connections, ev, mon, tables>>

(* The rest of GDB_CloseClient and of server_close_ctx                      *)
ServerClosed ==
  LET c == srv.c
      k == IF c < 0 THEN srv.i ELSE ctxs[c].i
  IN  /\ At("closed") /\ NoneHeld
      /\ IF c < 0 THEN UNCHANGED <<ctxs, proc, n, line>>
         ELSE /\ ctxs' = [ctxs EXCEPT ![c] = Closed(@)]
              /\ proc' = ClosedProc(proc, ctxs[c])
              /\ n' = [n EXCEPT ![ctxs[c].serv] = @ - 1]
              /\ line' = [line EXCEPT ![c] = NoLine]
      /\ shouldClose' = shouldClose \ {c}
      /\ poll' = [poll EXCEPT ![k] = Unused]
      /\ NextSlot
      /\ UNCHANGED <<backlog, ev, mon, compact_needed>>

---------------------------------------------------------------------------
(* Packets                                                                  *)

(* GDB_DetachImmediatelyExtended, up to the wait for the monitor            *)
Detaching(c, x) ==
  /\ ctxs' = [ctxs EXCEPT ![c] = Resets([x EXCEPT !.state = "DETACHING"])]
  /\ SignalStatusUpdated(FALSE)
  /\ To("detaching")
  /\ UNCHANGED proc

(* How GDB_DoPacket ends: an ended session goes on in extended-remote mode, *)
(* and else the connection is closed.                                       *)
Finished(c, x) ==
  IF x.state # "DETACHING" THEN NextSlot /\ ctxs' = [ctxs EXCEPT ![c] = x]
  ELSE IF "EXTENDED_REMOTE" \in x.flags
  THEN NextSlot /\ ctxs' = [ctxs EXCEPT ![c] = [x EXCEPT !.state = "CONNECTED"]]
  ELSE CloseCtx(c) /\ ctxs' = [ctxs EXCEPT ![c] = x]

(* mutant: signals only a context that was running                          *)
MustSignalRunning(x) == "PROCESS_CONTINUING" \in x.flags
MustSignal(x) == "PROCESS_CONTINUING" \notin x.flags

(* GDB_ContinueExecution; the monitor learns of it by continuedEvent.       *)
Continue(c) ==
  LET x == ctxs[c] IN
  /\ Finished(c, [x EXCEPT !.flags = @ \cup {"PROCESS_CONTINUING"},
                           !.continued = @ \/ (MustSignal(x) /\ ~Asleep(c, "continued"))])
  /\ proc' = [proc EXCEPT ![x.debug].st = IF @ = "stopped" /\ proc[x.debug].event = "none"
                                                THEN "running" ELSE @]
  /\ IF MustSignal(x) /\ Asleep(c, "continued") THEN Wakes(c) ELSE UNCHANGED mon
  /\ UNCHANGED ev

(* The client asks for a stop.  svcBreakDebugProcess fails if the process   *)
(* has stopped, or ended, by itself.                                        *)
Break(c) ==
  LET x == ctxs[c]
      breaks == "PROCESS_CONTINUING" \in x.flags /\ proc[x.debug].st = "running"
  IN  /\ Finished(c, [x EXCEPT !.flags = IF breaks THEN @ \ {"PROCESS_CONTINUING"} ELSE @])
      /\ IF ~breaks THEN UNCHANGED <<proc, mon>>
         ELSE /\ proc' = [proc EXCEPT ![x.debug] = [st |-> "stopped", event |-> "stop"]]
              /\ IF Asleep(c, x.debug) THEN Wakes(c) ELSE UNCHANGED mon
      /\ UNCHANGED ev

(* D and k: in extended-remote mode the process is let go at once.          *)
EndSession(c, flags) ==
  LET x == [ctxs[c] EXCEPT !.state = "DETACHING", !.flags = @ \cup flags] IN
  IF "EXTENDED_REMOTE" \in x.flags THEN Detaching(c, x)
  ELSE Finished(c, x) /\ UNCHANGED <<proc, ev, mon>>

VerboseAttach(c, p) ==
  LET x == [ctxs[c] EXCEPT !.pid = p] IN
  IF Attachable(p)
  THEN Finished(c, AttachToProcess(x, p)) /\ Attaching(c, p) /\ UNCHANGED ev
  ELSE Detaching(c, x)

EnableExtendedMode(c) ==
  /\ Finished(c, [ctxs[c] EXCEPT !.flags = @ \cup {"EXTENDED_REMOTE"}])
  /\ UNCHANGED <<proc, ev, mon>>

Idle == mon.pc = "asleep"
(* GDB_DoPacket.  When MonitorFirst, the monitor is given the time to go    *)
(* back to its wait before a packet that waits for it is handled.           *)
DoPacket ==
  LET c == srv.c
      pkt == line[c].pkt
      reply == IF pkt.cmd = "vAttach" /\ Attachable(pkt.pid) THEN "stopped"
               ELSE IF pkt.cmd \in {"D", "k", "vAttach"} THEN "none" ELSE line[c].view
  IN  /\ At("data") /\ NoneHeld
      /\ MonitorFirst /\ "EXTENDED_REMOTE" \in ctxs[c].flags /\ pkt.cmd \in {"D", "k", "vAttach"}
           => Idle \/ mon.pc = "gone"
      /\ line' = [line EXCEPT ![c].pkt = NoPacket, ![c].view = reply]
      /\ CASE pkt.cmd = "c"       -> Continue(c)
           [] pkt.cmd = "brk"     -> Break(c)
           [] pkt.cmd = "D"       -> EndSession(c, {})
           [] pkt.cmd = "k"       -> EndSession(c, {"TERMINATE_PROCESS"})
           [] pkt.cmd = "!"       -> EnableExtendedMode(c)
           [] pkt.cmd = "vAttach" -> VerboseAttach(c, pkt.pid)
           [] pkt.cmd = "none"    -> CloseCtx(c) /\ UNCHANGED <<ctxs, proc, ev, mon>>
      /\ UNCHANGED <<shouldClose, backlog, tables>>

(* The monitor has answered: the process is let go, and DoPacket ends.      *)
ServerDetaches ==
  LET c == srv.c IN
  /\ At("detaching") /\ ev.received
  /\ proc' = Released(proc, ctxs[c])
  /\ Finished(c, Kept(Detached(ctxs[c])))
  /\ UNCHANGED <<shouldClose, connections, ev, mon, tables>>

---------------------------------------------------------------------------
(* The end                                                                  *)

(* server_kill_connections: closes the sockets, the contexts are to follow. *)
Killed   == poll' = [k \in DOMAIN poll |-> [poll[k] EXCEPT !.fd = Nothing]]
ToClose  == {poll[k].ctx : k \in Slots} \ {Nothing}
KillConnections ==
  /\ Killed
  /\ shouldClose' = shouldClose \cup ToClose
  /\ line' = [c \in Ctxs |-> IF \E k \in Slots : poll[k].fd = c THEN NoLine ELSE line[c]]

ServerAborts ==
  /\ At("abort")
  /\ KillConnections
  /\ SignalTerminate /\ To("leave")
  /\ UNCHANGED <<ctxs, proc, backlog, compact_needed, n>>

(* GDB_FinalizeServer, by the last of the two threads: every context that   *)
(* still has a slot or a process is closed.                                 *)
ToFinalize == {c \in Ctxs : ctxs[c].debug # None \/ \E k \in DOMAIN poll : poll[k].ctx = c}
Finalized ==
  /\ ctxs' = [c \in Ctxs |-> IF c \in ToFinalize THEN Closed(Resets(ctxs[c])) ELSE ctxs[c]]
  /\ proc' = [p \in Pids |->
                LET by == {c \in ToFinalize : ctxs[c].debug = p}
                IN  IF by = {} THEN proc[p] ELSE ClosedProc(proc, ctxs[Min(by)])[p]]
  /\ poll' = [k \in DOMAIN poll |-> Unused]
  /\ line' = [c \in Ctxs |-> NoLine]
  /\ n' = [p \in Ports |-> 0]
  /\ shouldClose' = {}

Dereference(other) ==
  /\ IF other = "gone" THEN Finalized ELSE UNCHANGED <<ctxs, proc, poll, line, n, shouldClose>>
  /\ UNCHANGED <<backlog, ev, compact_needed, menu, use>>

ServerLeaves  == srv.pc = "leave" /\ To("gone") /\ UNCHANGED mon /\ Dereference(mon.pc)
MonitorLeaves == mon.pc = "leave" /\ mon' = [mon EXCEPT !.pc = "gone"] /\ UNCHANGED srv
                 /\ Dereference(srv.pc)

Server == \/ ServerPolls \/ ServerCompacts \/ ServerVisits
          \/ ServerAccepts \/ AcceptClient
          \/ ServerCloses \/ ServerAsks \/ ServerIsAnswered \/ ServerClosed
          \/ DoPacket \/ ServerDetaches
          \/ ServerAborts \/ ServerLeaves
Monitor == MonitorReads \/ MonitorWaits \/ MonitorAcknowledges \/ MonitorHandles \/ MonitorLeaves
=============================================================================
