------------------------------- MODULE GdbStub -----------------------------
(***************************************************************************)
(* The GDB stub of rosalina with its surroundings: the menu, in which       *)
(* processes are selected and the debugger is disabled, and the clients.    *)
(***************************************************************************)
EXTENDS GdbServer

Init ==
  /\ ctxs = [c \in Ctxs |-> Blank]
  /\ shouldClose = {}
  /\ proc = [p \in Pids |-> [st |-> "running", event |-> "none"]]
  /\ line = [c \in Ctxs |-> NoLine]
  /\ backlog = [p \in Ports |-> FALSE]
  /\ ev = [updated |-> FALSE, received |-> FALSE, terminate |-> FALSE]
  /\ mon = NoHandles("top")
  /\ poll = [p \in Ports |-> [fd |-> Listening(p), ctx |-> Listening(p), revents |-> "none"]]
  /\ compact_needed = FALSE
  /\ n = [p \in Ports |-> 0]
  /\ srv = Polling
  /\ menu = "open"
  /\ use \in Uses

---------------------------------------------------------------------------
(* The menu                                                                 *)

MenuSteps == UNCHANGED <<proc, backlog, compact_needed, n, srv, use>>

(* The contexts GDB_FindAllocatedContextByPid looks for                     *)
Found(p) == {c \in Ctxs : ctxs[c].pid = p
                          /\ ("SELECTED" \in ctxs[c].flags \/ ctxs[c].state = "ATTACHED")}
UsedPorts == {ctxs[c].localPort : c \in {x \in Ctxs : Allocated(x)}}

Asked(p)  == \E c \in Ctxs : line[c].pkt = [cmd |-> "vAttach", pid |-> p]
Selected(p) == \E c \in Ctxs : "SELECTED" \in ctxs[c].flags /\ ctxs[c].pid = p

SetAside(x, p, port) == [x EXCEPT !.flags = @ \cup {"SELECTED"}, !.pid = p, !.localPort = port]
GivenUp(x) == [x EXCEPT !.flags = @ \ {"SELECTED"}, !.localPort = Nothing]

(* ProcessListMenu_HandleSelected with GDB_SelectAvailableContext: a free   *)
(* context and a free port are set aside for the process.                   *)
SelectProcess(p) ==
  /\ menu = "open" /\ Running /\ NoneHeld /\ p \in use.pids /\ proc[p].st # "dead"
  /\ AttachFails \/ ~(Debugged(p) \/ Asked(p))
  /\ Found(p) = {} /\ Free # {} /\ Ports \ UsedPorts # {}
  /\ ctxs' = [ctxs EXCEPT ![Min(Free)] = SetAside(@, p, Min(Ports \ UsedPorts))]
  /\ UNCHANGED <<shouldClose, line, ev, mon, poll, menu>> /\ MenuSteps

(* The process is selected again, before a client has connected.            *)
DeselectProcess(p) ==
  /\ menu = "open" /\ Running /\ NoneHeld
  /\ Found(p) # {}
  /\ LET c == Max(Found(p))
     IN  /\ ctxs[c].flags \cap {"SELECTED", "USED"} = {"SELECTED"}
         /\ ctxs' = [ctxs EXCEPT ![c] = GivenUp(@)]
  /\ UNCHANGED <<shouldClose, line, ev, mon, poll, menu>> /\ MenuSteps

(* debuggerDisable                                                          *)
Disable ==
  /\ use.disables /\ menu = "open" /\ menu' = "killing"
  /\ SignalTerminate
  /\ UNCHANGED <<ctxs, shouldClose, line, poll>> /\ MenuSteps
DisableKills ==
  /\ menu = "killing" /\ menu' = "joining"
  /\ KillConnections
  /\ UNCHANGED <<ctxs, ev, mon>> /\ MenuSteps
DisableJoins ==
  /\ menu = "joining" /\ mon.pc = "gone" /\ srv.pc = "gone" /\ menu' = "off"
  /\ UNCHANGED <<ctxs, shouldClose, line, ev, mon, poll>> /\ MenuSteps

Menu == Disable \/ DisableKills \/ DisableJoins
        \/ \E p \in Pids : SelectProcess(p) \/ DeselectProcess(p)

---------------------------------------------------------------------------
(* The clients.  The server hears of them when it polls, so that they take  *)
(* their steps then.                                                        *)

ClientSteps == srv.pc = "poll" /\ ~ev.terminate
               /\ UNCHANGED <<ctxs, shouldClose, proc, ev, mon, tables, srv, menu, use>>

(* They connect to a port that a process has been selected for; those that  *)
(* use extended-remote mode need none.  One connects at a time.             *)
Connect(p) ==
  /\ p \in use.ports /\ \A q \in Ports : ~backlog[q]
  /\ "!" \in use.cmds \/ \E c \in Ctxs : "SELECTED" \in ctxs[c].flags /\ ctxs[c].localPort = p
  /\ backlog' = [backlog EXCEPT ![p] = TRUE]
  /\ UNCHANGED line /\ ClientSteps

(* A client knows whether its process runs, and sends what makes sense: it  *)
(* asks for one stop at a time.                                             *)
Packets(c) ==
  [cmd : use.cmds \cap
           CASE line[c].view = "stopped" -> {"c", "D", "k"}
             [] line[c].view = "running" -> {"brk"}
             [] OTHER -> IF "EXTENDED_REMOTE" \notin ctxs[c].flags THEN {"!"} ELSE {},
   pid : {None}]
  \cup (IF line[c].view \in {"none", "exited"} /\ "EXTENDED_REMOTE" \in ctxs[c].flags
        THEN [cmd : {"vAttach"}, pid : {p \in use.pids : AttachFails \/ ~Selected(p)}] ELSE {})

Send(c) ==
  /\ line[c].st = "open" /\ line[c].pkt = NoPacket
  /\ \E pkt \in Packets(c) :
       line' = [line EXCEPT ![c].pkt = pkt, ![c].view = CASE pkt.cmd = "c"   -> "running"
                                                           [] pkt.cmd = "brk" -> "breaking"
                                                           [] OTHER -> @]
  /\ UNCHANGED backlog /\ ClientSteps

HangUp(c) ==
  /\ line[c].st = "open"
  /\ Polite => line[c].view \in {"none", "exited"} /\ line[c].pkt = NoPacket
  /\ line' = [line EXCEPT ![c] = [@ EXCEPT !.st = "hup", !.pkt = NoPacket]]
  /\ UNCHANGED backlog /\ ClientSteps

Clients == (\E p \in Ports : Connect(p)) \/ (\E c \in Ctxs : Send(c) \/ HangUp(c))

---------------------------------------------------------------------------
Processes == \E p \in Pids : Debuggee(p) \/ Restarted(p)

Next == Server \/ Monitor \/ Menu \/ Clients \/ Processes

Spec     == Init /\ [][Next]_vars
FairSpec == Spec /\ WF_vars(Server) /\ WF_vars(Monitor)

---------------------------------------------------------------------------
Context == [flags : SUBSET {"SELECTED", "USED", "EXTENDED_REMOTE", "PROCESS_CONTINUING",
                            "TERMINATE_PROCESS"},
            state : {"DISCONNECTED", "CONNECTED", "ATTACHED", "DETACHING"},
            localPort : Ports \cup {Nothing}, pid : Pids \cup {None}, debug : Pids \cup {None},
            eventToWaitFor : {"attached", "continued", "debug"},
            attached : BOOLEAN, continued : BOOLEAN,
            i : 0 .. MAX_CTXS, serv : Ports \cup {Nothing}]
Packet  == [cmd : Commands \cup {"none"}, pid : Pids \cup {None}]
Connection == [st : {"none", "open", "hup"},
               view : {"none", "stopped", "running", "breaking", "exited"}, pkt : Packet]
Process == [st : {"running", "stopped", "dead"}, event : {"none", "stop", "auto", "exit"}]

(* The types of the tables; a context that is attached has a process.       *)
TypeOK ==
  /\ ctxs \in [Ctxs -> Context] /\ \A c \in Ctxs : ctxs[c].state = "ATTACHED" => ctxs[c].debug # None
  /\ poll \in Seq(Slot) /\ Len(poll) <= MAX_CTXS
  /\ n \in [Ports -> {0, 1}]
  /\ line \in [Ctxs -> Connection]
  /\ proc \in [Pids -> Process]

(* sock_util.c: whatever connects, hangs up and is compacted in between, a  *)
(* context in use has one slot and knows its index, a port counts its       *)
(* clients, ports are given once, and the loop never meets an empty slot.   *)
TablesSound ==
  /\ srv.pc # "fault"
  /\ \A c \in Ctxs : "USED" \in ctxs[c].flags <=>
       ctxs[c].i \in DOMAIN poll /\ {k \in DOMAIN poll : poll[k].ctx = c} = {ctxs[c].i}
  /\ \A k \in DOMAIN poll : poll[k].fd # poll[k].ctx => poll[k].fd = Nothing /\ ev.terminate
  /\ \A p \in Ports : n[p] = Cardinality({c \in Ctxs : "USED" \in ctxs[c].flags /\ ctxs[c].serv = p})
  /\ \A c, d \in Ctxs : c # d /\ Allocated(c) /\ Allocated(d) => ctxs[c].localPort # ctxs[d].localPort

(* The monitor leaves only when the debugger is disabled: no wait of its    *)
(* fails, since a debug handle is closed only when the monitor has let go   *)
(* of it.                                                                   *)
MonitorStays == mon.pc \in {"leave", "gone"} => ev.terminate

(* A stopped process has a debugger, a process whose client believes it     *)
(* stopped is, and when both threads have ended nothing is held any more.   *)
Over == srv.pc = "gone" /\ mon.pc = "gone"
DebuggeesSound ==
  /\ \A p \in Pids : proc[p].st = "stopped" => Debugged(p)
  /\ \A c \in Ctxs : line[c].st = "open" /\ line[c].view = "stopped" /\ ctxs[c].state = "ATTACHED"
                     => proc[ctxs[c].debug].st = "stopped"
  /\ Over => Slots = {} /\ \A c \in Ctxs : ctxs[c].debug = None

(* A server that closes or detaches a context is answered by the monitor,   *)
(* unless the debugger is being disabled.                                   *)
Awaiting == srv.pc \in {"waiting", "detaching"} /\ ~ev.terminate
CloseIsAcknowledged == Awaiting ~> ~Awaiting

(* A stop is reported to the client that lets the process run, unless what  *)
(* the monitor looks at first keeps it busy for ever: the status event and  *)
(* the contexts before this one.                                            *)
Unreported(c) == /\ line[c].st = "open" /\ line[c].view \in {"running", "breaking"}
                 /\ line[c].pkt = NoPacket
                 /\ ctxs[c].state = "ATTACHED" /\ proc[ctxs[c].debug].event = "stop"
                 /\ ~ev.terminate
Busy(c) == mon.pc = "ack" \/ (mon.pc = "event" /\ mon.c < c)
StopsAreReported == \A c \in Ctxs : (Unreported(c) ~> ~Unreported(c)) \/ []<>Busy(c)
=============================================================================
