------------------------------ MODULE GdbProofs -----------------------------
(***************************************************************************)
(* Theorems about GdbStub, for any number of contexts, ports, slots and     *)
(* processes.  Base is the inductive invariant of the tables; NoFail adds   *)
(* what it takes for the loop not to meet an empty slot, Views what clients *)
(* and processes know of each other, MonOK what the monitor and the server  *)
(* wait for when clients are polite.                                        *)
(***************************************************************************)
EXTENDS GdbStub, SequenceLemmas

---------------------------------------------------------------------------
(* The invariant                                                            *)

SrvPlaces == {"poll", "visit", "accept", "accepted", "data", "close", "closing", "waiting", "closed",
              "detaching", "abort", "leave", "gone", "fault"}
MonPlaces == {"top", "call", "asleep", "ack", "event", "leave", "gone"}

(* TypeOK, in parts                                                         *)
CtxTypes == ctxs \in [Ctxs -> Context] /\ \A c \in Ctxs : ctxs[c].state = "ATTACHED" => ctxs[c].debug # None
Typed == /\ CtxTypes /\ poll \in Seq(Slot) /\ Len(poll) <= MAX_CTXS /\ n \in [Ports -> {0, 1}]
         /\ line \in [Ctxs -> Connection] /\ proc \in [Pids -> Process]

(* The types of what TypeOK does not mention; where a thread is at a        *)
(* context, there is one.                                                   *)
Serving == {"accepted", "data", "closing", "waiting", "detaching"}
ServerState  == [pc : SrvPlaces, i : Nat, c : (-NPorts) .. MAX_DEBUG]
MonitorState == [pc : MonPlaces, handles : [Ctxs -> Pids \cup {None, "attached", "continued"}],
                 c : Ctxs \cup {Nothing}]
Events == [updated : BOOLEAN, received : BOOLEAN, terminate : BOOLEAN]
Serves(c) == srv.c = c /\ srv.pc \in Serving \cup {"close", "closed"}
RestOK ==
  /\ srv \in ServerState
  /\ srv.pc \in Serving => srv.c \in Ctxs
  /\ srv.pc = "accept" => srv.c < 0
  /\ srv.pc \notin {"poll", "abort", "leave", "gone"} => srv.i > 0
  /\ srv.pc \in {"close", "closed"} => srv.c # Nothing
  /\ mon \in MonitorState
  /\ mon.pc = "event" => mon.c \in Ctxs
  /\ ev \in Events
  /\ shouldClose \subseteq (-NPorts) .. MAX_DEBUG
  /\ backlog \in [Ports -> BOOLEAN] /\ compact_needed \in BOOLEAN /\ use \in Uses
  /\ menu \in {"open", "killing", "joining", "off"}

(* A context on its own                                                     *)
OwnOK(c) ==
  /\ "SELECTED" \in ctxs[c].flags => ctxs[c].pid \in Pids
  /\ ctxs[c].state = "ATTACHED" => ctxs[c].debug # None /\ ctxs[c].pid = ctxs[c].debug
  /\ ctxs[c].debug # None => "USED" \in ctxs[c].flags
  /\ ~Allocated(c) => ctxs[c].localPort = Nothing
PacketOK(c) == line[c].pkt.cmd = "vAttach" => line[c].pkt.pid \in Pids
(* The context the server is at                                             *)
PlaceOK(c) ==
  /\ srv.pc = "detaching" /\ srv.c = c => ctxs[c].state = "DETACHING"
  /\ srv.pc = "accepted" /\ srv.c = c => ctxs[c].debug = None
  /\ Serves(c) => "USED" \in ctxs[c].flags
(* A context that wants a debug handle waited for has one, or the monitor   *)
(* finds out.                                                               *)
WaitOK(c) ==
  ctxs[c].eventToWaitFor = "debug" /\ ctxs[c].debug = None =>
    mon.pc \in {"top", "leave", "gone"} \/ (mon.pc = "call" /\ mon.handles[c] = None)
ContextOK(c) == OwnOK(c) /\ PacketOK(c) /\ PlaceOK(c) /\ WaitOK(c)

(* The slots and the contexts with a client name each other.                *)
SlotsOK ==
  /\ \A c \in Ctxs : "USED" \in ctxs[c].flags =>
       /\ ctxs[c].i \in DOMAIN poll /\ poll[ctxs[c].i].ctx = c
       /\ ctxs[c].serv \in Ports
  /\ \A k \in DOMAIN poll : poll[k].ctx \in Ctxs =>
       "USED" \in ctxs[poll[k].ctx].flags /\ ctxs[poll[k].ctx].i = k
  /\ \A k \in DOMAIN poll : poll[k].fd # poll[k].ctx => poll[k].fd = Nothing /\ ev.terminate
PortsOK ==
  /\ \A c, d \in Ctxs : Allocated(c) /\ Allocated(d) /\ ctxs[c].localPort = ctxs[d].localPort => c = d
CountsOK ==
  /\ \A c, d \in Ctxs : "USED" \in ctxs[c].flags \cap ctxs[d].flags /\ ctxs[c].serv = ctxs[d].serv => c = d
  /\ \A p \in Ports : n[p] = 1 <=> \E c \in Ctxs : "USED" \in ctxs[c].flags /\ ctxs[c].serv = p
DebuggersOK == \A c, d \in Ctxs : ctxs[c].debug = ctxs[d].debug /\ ctxs[c].debug # None => c = d
(* A port is visited at its slot.                                           *)
VisitOK == srv.pc \in {"accept", "close", "closed"} /\ srv.c < 0
             => srv.i \in DOMAIN poll /\ poll[srv.i].ctx = srv.c

(* Without failing attachments                                              *)
InVisit == {"accept", "accepted", "data", "close", "closing", "waiting", "closed", "detaching"}
Awaits(c) == "SELECTED" \in ctxs[c].flags /\ ctxs[c].debug = None
EmptyOK ==
  /\ srv.pc # "fault"
  /\ srv.pc = "poll" => \A k \in DOMAIN poll : poll[k].ctx # Nothing
  /\ srv.pc \in {"visit"} \cup InVisit =>
       \A k \in DOMAIN poll : poll[k].ctx = Nothing => compact_needed /\ k < srv.i
  /\ srv.pc \in {"closing", "waiting", "closed"} => compact_needed
InPlace ==
  srv.pc \in {"accept", "data", "close", "closing", "waiting", "closed", "detaching"}
    => srv.i \in DOMAIN poll /\ poll[srv.i].ctx = srv.c
AwaitsOK ==
  /\ \A c \in Ctxs : Awaits(c) => /\ Attachable(ctxs[c].pid)
                                  /\ "USED" \in ctxs[c].flags => srv.pc = "accepted" /\ srv.c = c
                                  /\ \A d \in Ctxs : Awaits(d) /\ ctxs[c].pid = ctxs[d].pid => c = d
                                  /\ \A d \in Ctxs : line[d].pkt.cmd = "vAttach" => line[d].pkt.pid # ctxs[c].pid

EndOK ==
  /\ srv.pc \in {"leave", "gone"} \/ menu \in {"killing", "joining", "off"} => ev.terminate
  /\ Over => Slots = {} /\ (\A c \in Ctxs : ctxs[c].debug = None)

ContextsOK == \A c \in Ctxs : ContextOK(c)
Base == Typed /\ RestOK /\ ContextsOK /\ SlotsOK /\ PortsOK /\ CountsOK /\ DebuggersOK /\ VisitOK /\ EndOK
NoFail == EmptyOK /\ InPlace /\ AwaitsOK

---------------------------------------------------------------------------
(* Contexts: what the operators on one context leave and change             *)

Flags == {"SELECTED", "USED", "EXTENDED_REMOTE", "PROCESS_CONTINUING", "TERMINATE_PROCESS"}

LEMMA ResetsFacts ==
  ASSUME NEW x \in Context
  PROVE  /\ Resets(x) \in Context
         /\ Resets(x).flags = x.flags /\ Resets(x).state = x.state /\ Resets(x).localPort = x.localPort
         /\ Resets(x).pid = x.pid /\ Resets(x).debug = x.debug /\ Resets(x).eventToWaitFor = "attached"
         /\ Resets(x).attached = FALSE /\ Resets(x).continued = x.continued
         /\ Resets(x).i = x.i /\ Resets(x).serv = x.serv
BY DEF Resets, Context

LEMMA DetachedFacts ==
  ASSUME NEW x \in Context
  PROVE  /\ Detached(x) \in Context
         /\ Detached(x).flags = x.flags /\ Detached(x).state = x.state /\ Detached(x).localPort = x.localPort
         /\ Detached(x).pid = None /\ Detached(x).debug = None /\ Detached(x).eventToWaitFor = "attached"
         /\ Detached(x).attached = x.attached /\ Detached(x).continued = x.continued
         /\ Detached(x).i = x.i /\ Detached(x).serv = x.serv
BY DEF Detached, Context

LEMMA KeptFacts ==
  ASSUME NEW x \in Context
  PROVE  /\ Kept(x) \in Context
         /\ Kept(x).flags = x.flags \cap {"EXTENDED_REMOTE", "USED"}
         /\ Kept(x).state = x.state /\ Kept(x).localPort = x.localPort
         /\ Kept(x).pid = x.pid /\ Kept(x).debug = x.debug /\ Kept(x).eventToWaitFor = x.eventToWaitFor
         /\ Kept(x).attached = x.attached /\ Kept(x).continued = x.continued
         /\ Kept(x).i = x.i /\ Kept(x).serv = x.serv
BY DEF Kept, Context

LEMMA ClosedFacts ==
  ASSUME NEW x \in Context
  PROVE  /\ Closed(x) \in Context
         /\ Closed(x).flags = {} /\ Closed(x).state = "DISCONNECTED" /\ Closed(x).localPort = Nothing
         /\ Closed(x).debug = None
         /\ Closed(x).eventToWaitFor = IF MustDetach(x) THEN "attached" ELSE x.eventToWaitFor
         /\ Closed(x).attached = x.attached /\ Closed(x).continued = x.continued
         /\ Closed(x).i = 0 /\ Closed(x).serv = Nothing
<1> DEFINE d == IF MustDetach(x) THEN Detached(x) ELSE x
<1>1. /\ d \in Context /\ d.debug = None /\ d.attached = x.attached /\ d.continued = x.continued
      /\ d.eventToWaitFor = IF MustDetach(x) THEN "attached" ELSE x.eventToWaitFor
  BY DetachedFacts DEF MustDetach
<1>2. Closed(x) = [d EXCEPT !.localPort = Nothing, !.flags = {}, !.state = "DISCONNECTED",
                            !.i = 0, !.serv = Nothing]
  BY DEF Closed
<1> HIDE DEF d
<1>3. 0 \in 0 .. MAX_CTXS
  BY GdbAssumption
<1> QED BY <1>1, <1>2, <1>3 DEF Context

LEMMA StoppedFacts ==
  ASSUME NEW x \in Context, NEW sent \in BOOLEAN
  PROVE  /\ Stopped(x, sent) \in Context
         /\ Stopped(x, sent).flags = x.flags \ {"PROCESS_CONTINUING"}
         /\ Stopped(x, sent).state = x.state /\ Stopped(x, sent).localPort = x.localPort
         /\ Stopped(x, sent).pid = x.pid /\ Stopped(x, sent).debug = x.debug
         /\ Stopped(x, sent).eventToWaitFor = IF sent THEN "continued" ELSE x.eventToWaitFor
         /\ Stopped(x, sent).attached = x.attached /\ Stopped(x, sent).continued = x.continued
         /\ Stopped(x, sent).i = x.i /\ Stopped(x, sent).serv = x.serv
BY DEF Stopped, Context

LEMMA AttachFacts ==
  ASSUME NEW x \in Context, NEW p \in Pids
  PROVE  /\ AttachToProcess(x, p) \in Context
         /\ AttachToProcess(x, p).flags = x.flags /\ AttachToProcess(x, p).state = "ATTACHED"
         /\ AttachToProcess(x, p).localPort = x.localPort
         /\ AttachToProcess(x, p).pid = p /\ AttachToProcess(x, p).debug = p
         /\ AttachToProcess(x, p).eventToWaitFor = x.eventToWaitFor
         /\ AttachToProcess(x, p).attached = ~Asleep(srv.c, "attached")
         /\ AttachToProcess(x, p).continued = x.continued
         /\ AttachToProcess(x, p).i = x.i /\ AttachToProcess(x, p).serv = x.serv
<1>1. PICK b \in BOOLEAN : b = ~Asleep(srv.c, "attached")
  BY DEF Asleep
<1>2. AttachToProcess(x, p) = [x EXCEPT !.pid = p, !.debug = p, !.state = "ATTACHED", !.attached = b]
  BY <1>1 DEF AttachToProcess
<1>3. AttachToProcess(x, p).attached = b
  BY <1>2 DEF Context
<1> QED BY <1>1, <1>2, <1>3 DEF Context

LEMMA ConnectedFacts ==
  ASSUME NEW x \in Context, NEW p \in Ports, NEW k \in 0 .. MAX_CTXS
  PROVE  /\ Connected(x, p, k) \in Context
         /\ Connected(x, p, k).flags = x.flags \cup {"USED"} /\ Connected(x, p, k).state = "CONNECTED"
         /\ Connected(x, p, k).localPort = p
         /\ Connected(x, p, k).pid = x.pid /\ Connected(x, p, k).debug = x.debug
         /\ Connected(x, p, k).eventToWaitFor = x.eventToWaitFor
         /\ Connected(x, p, k).attached = x.attached /\ Connected(x, p, k).continued = x.continued
         /\ Connected(x, p, k).i = k /\ Connected(x, p, k).serv = p
BY DEF Connected, Context

LEMMA SetAsideFacts ==
  ASSUME NEW x \in Context, NEW p \in Pids, NEW q \in Ports
  PROVE  /\ SetAside(x, p, q) \in Context
         /\ SetAside(x, p, q).flags = x.flags \cup {"SELECTED"} /\ SetAside(x, p, q).state = x.state
         /\ SetAside(x, p, q).localPort = q
         /\ SetAside(x, p, q).pid = p /\ SetAside(x, p, q).debug = x.debug
         /\ SetAside(x, p, q).eventToWaitFor = x.eventToWaitFor
         /\ SetAside(x, p, q).attached = x.attached /\ SetAside(x, p, q).continued = x.continued
         /\ SetAside(x, p, q).i = x.i /\ SetAside(x, p, q).serv = x.serv
BY DEF SetAside, Context

LEMMA GivenUpFacts ==
  ASSUME NEW x \in Context
  PROVE  /\ GivenUp(x) \in Context
         /\ GivenUp(x).flags = x.flags \ {"SELECTED"} /\ GivenUp(x).state = x.state
         /\ GivenUp(x).localPort = Nothing
         /\ GivenUp(x).pid = x.pid /\ GivenUp(x).debug = x.debug
         /\ GivenUp(x).eventToWaitFor = x.eventToWaitFor
         /\ GivenUp(x).attached = x.attached /\ GivenUp(x).continued = x.continued
         /\ GivenUp(x).i = x.i /\ GivenUp(x).serv = x.serv
BY DEF GivenUp, Context

---------------------------------------------------------------------------
(* The threads and their events                                             *)

LEMMA SlotNames ==
  /\ Nothing \in (-NPorts) .. MAX_DEBUG /\ 0 \in (-NPorts) .. MAX_DEBUG
  /\ \A c \in Ctxs : c \in (-NPorts) .. MAX_DEBUG /\ c > 0
  /\ \A p \in Ports : -p \in (-NPorts) .. MAX_DEBUG /\ -p < 0 /\ p \in Nat
<1>1. MAX_DEBUG \in Nat /\ NPorts \in Nat
  BY GdbAssumption
<1> QED BY <1>1 DEF Ctxs, Ports, Nothing

LEMMA ToFacts ==
  ASSUME srv \in ServerState, NEW pc \in SrvPlaces, To(pc)
  PROVE  srv' \in ServerState /\ srv'.pc = pc /\ srv'.i = srv.i /\ srv'.c = srv.c
BY DEF To, ServerState

LEMMA NextSlotFacts ==
  ASSUME srv \in ServerState, NextSlot
  PROVE  srv' \in ServerState /\ srv'.pc = "visit" /\ srv'.i = srv.i + 1 /\ srv'.c = Nothing
<1>1. srv.i + 1 \in Nat
  BY DEF ServerState
<1>2. "visit" \in SrvPlaces
  BY DEF SrvPlaces
<1> QED BY <1>1, <1>2, SlotNames DEF NextSlot, ServerState

LEMMA CloseCtxFacts ==
  ASSUME srv \in ServerState, NEW c \in Ctxs, CloseCtx(c)
  PROVE  srv' \in ServerState /\ srv'.pc = "close" /\ srv'.i = srv.i /\ srv'.c = c
BY SlotNames DEF CloseCtx, ServerState, SrvPlaces

LEMMA NoHandlesFacts ==
  ASSUME NEW pc \in MonPlaces
  PROVE  /\ NoHandles(pc) \in MonitorState /\ NoHandles(pc).pc = pc /\ NoHandles(pc).c = Nothing
         /\ \A c \in Ctxs : NoHandles(pc).handles[c] = None
BY DEF NoHandles, MonitorState

LEMMA WakesFacts ==
  ASSUME NEW c \in Ctxs, Wakes(c)
  PROVE  /\ mon' \in MonitorState /\ mon'.pc = "event" /\ mon'.c = c
         /\ \A d \in Ctxs : mon'.handles[d] = None
<1>1. "event" \in MonPlaces
  BY DEF MonPlaces
<1> QED BY <1>1, NoHandlesFacts DEF Wakes, MonitorState

LEMMA UpdatedFacts ==
  ASSUME mon \in MonitorState, ev \in Events, NEW r \in BOOLEAN, SignalStatusUpdated(r)
  PROVE  /\ mon' \in MonitorState /\ ev' \in Events
         /\ ev'.received = r /\ ev'.terminate = ev.terminate
         /\ mon.pc = "asleep" => mon' = NoHandles("ack") /\ mon'.pc = "ack" /\ ev'.updated = ev.updated
         /\ mon.pc # "asleep" => mon' = mon /\ ev'.updated = TRUE
<1>1. "ack" \in MonPlaces
  BY DEF MonPlaces
<1>2. /\ NoHandles("ack") \in MonitorState /\ NoHandles("ack").pc = "ack"
  BY <1>1, NoHandlesFacts
<1> QED BY <1>2 DEF SignalStatusUpdated, Events

LEMMA TerminateFacts ==
  ASSUME mon \in MonitorState, ev \in Events, SignalTerminate
  PROVE  /\ mon' \in MonitorState /\ ev' \in Events
         /\ ev'.received = ev.received /\ ev'.terminate = TRUE /\ ev'.updated = ev.updated
         /\ mon.pc = "asleep" => mon' = NoHandles("leave") /\ mon'.pc = "leave"
         /\ mon.pc # "asleep" => mon' = mon
<1>1. "leave" \in MonPlaces
  BY DEF MonPlaces
<1>2. /\ NoHandles("leave") \in MonitorState /\ NoHandles("leave").pc = "leave"
  BY <1>1, NoHandlesFacts
<1> QED BY <1>2 DEF SignalTerminate, Events

LEMMA MinFacts ==
  ASSUME NEW S, S \subseteq Nat, S # {}
  PROVE  Min(S) \in S /\ \A y \in S : Min(S) =< y
BY LeastElement DEF Min

LEMMA CtxUpdate ==
  ASSUME CtxTypes, NEW c \in Ctxs, NEW y \in Context, y.state = "ATTACHED" => y.debug # None,
         ctxs' = [ctxs EXCEPT ![c] = y]
  PROVE  CtxTypes' /\ ctxs'[c] = y /\ \A d \in Ctxs : d # c => ctxs'[d] = ctxs[d]
BY DEF CtxTypes

LEMMA TellFacts ==
  ASSUME line \in [Ctxs -> Connection], NEW c \in Ctxs,
         NEW view \in {"none", "stopped", "running", "breaking", "exited"}, Tell(c, view)
  PROVE  /\ line' \in [Ctxs -> Connection]
         /\ line'[c].st = line[c].st /\ line'[c].pkt = line[c].pkt
         /\ line'[c].view = IF line[c].st = "open" THEN view ELSE line[c].view
         /\ \A d \in Ctxs : d # c => line'[d] = line[d]
<1> DEFINE w == IF line[c].st = "open" THEN view ELSE line[c].view
<1>1. w \in {"none", "stopped", "running", "breaking", "exited"}
  BY DEF Connection
<1>2. line' = [line EXCEPT ![c].view = w]
  BY DEF Tell
<1> HIDE DEF w
<1>3. /\ line' \in [Ctxs -> Connection] /\ line'[c].view = w
      /\ line'[c].st = line[c].st /\ line'[c].pkt = line[c].pkt
      /\ \A d \in Ctxs : d # c => line'[d] = line[d]
  BY <1>1, <1>2 DEF Connection
<1> QED BY <1>3 DEF w

LEMMA NoLineType == NoLine \in Connection /\ NoPacket \in Packet
BY DEF NoLine, NoPacket, Connection, Packet

LEMMA UnusedType == Unused \in Slot /\ Unused.fd = Nothing /\ Unused.ctx = Nothing
BY SlotNames DEF Unused, Slot

LEMMA Mapped ==
  ASSUME NEW q \in Seq(Slot), NEW r \in [DOMAIN q -> Slot]
  PROVE  r \in Seq(Slot) /\ Len(r) = Len(q) /\ DOMAIN r = DOMAIN q /\ DOMAIN q = 1 .. Len(q)
<1>1. DOMAIN q = 1 .. Len(q) /\ Len(q) \in Nat
  OBVIOUS
<1>2. r \in [1 .. Len(q) -> Slot]
  BY <1>1
<1> QED BY <1>1, <1>2

---------------------------------------------------------------------------
(* Compaction                                                               *)

LEMMA SlotsType == ASSUME poll \in Seq(Slot) PROVE Slots \in SUBSET (DOMAIN poll)
BY DEF Slots

SameButIndex(x, y) ==
  /\ y \in Context /\ y.flags = x.flags /\ y.state = x.state /\ y.localPort = x.localPort
  /\ y.pid = x.pid /\ y.debug = x.debug /\ y.eventToWaitFor = x.eventToWaitFor
  /\ y.attached = x.attached /\ y.continued = x.continued /\ y.serv = x.serv

LEMMA NotCompacted ==
  ASSUME Base, ServerCompacts, ~ev.terminate, ~compact_needed
  PROVE  /\ poll' \in Seq(Slot) /\ Len(poll') = Len(poll) /\ DOMAIN poll' = DOMAIN poll
         /\ \A k \in DOMAIN poll : /\ poll'[k].fd = poll[k].fd /\ poll'[k].ctx = poll[k].ctx
                                   /\ poll'[k].revents = "none"
         /\ ctxs' = ctxs
<1>1. poll' = [k \in DOMAIN poll |-> [poll[k] EXCEPT !.revents = "none"]] /\ ctxs' = ctxs
  BY DEF ServerCompacts
<1>2. \A s \in Slot : /\ [s EXCEPT !.revents = "none"] \in Slot
                      /\ [s EXCEPT !.revents = "none"].fd = s.fd
                      /\ [s EXCEPT !.revents = "none"].ctx = s.ctx
                      /\ [s EXCEPT !.revents = "none"].revents = "none"
  BY DEF Slot
<1>3. poll \in Seq(Slot) /\ \A k \in DOMAIN poll : poll[k] \in Slot
  BY DEF Base, Typed
<1>4. poll' \in [DOMAIN poll -> Slot]
  BY <1>1, <1>2, <1>3, Zenon
<1>5. \A k \in DOMAIN poll : poll'[k] = [poll[k] EXCEPT !.revents = "none"]
  BY <1>1, Zenon
<1> QED BY <1>1, <1>2, <1>3, <1>4, <1>5, Mapped

LEMMA Compacted ==
  ASSUME Base, ServerCompacts, ~ev.terminate, compact_needed
  PROVE  /\ poll' \in Seq(Slot) /\ Len(poll') <= Len(poll)
         /\ \E f \in [DOMAIN poll' -> Slots] :
              /\ \A k \in DOMAIN poll' : /\ poll'[k].fd = poll[f[k]].fd /\ poll'[k].ctx = poll[f[k]].ctx
                                         /\ poll'[k].revents = "none"
              /\ \A j, k \in DOMAIN poll' : f[j] = f[k] => j = k
              /\ \A k \in Slots : \E j \in DOMAIN poll' : f[j] = k
         /\ \A c \in Ctxs :
              /\ SameButIndex(ctxs[c], ctxs'[c])
              /\ IF \E k \in DOMAIN poll' : poll'[k].ctx = c
                 THEN ctxs'[c].i \in DOMAIN poll' /\ poll'[ctxs'[c].i].ctx = c
                 ELSE ctxs'[c].i = ctxs[c].i
         /\ ctxs' \in [Ctxs -> Context]
<1> DEFINE kept == Chosen(poll, Slots)
<1>1. /\ poll' = [k \in DOMAIN kept |-> [kept[k] EXCEPT !.revents = "none"]]
      /\ ctxs' = Renumbered(kept)
  BY DEF ServerCompacts
<1>2. \A s \in Slot : /\ [s EXCEPT !.revents = "none"] \in Slot
                      /\ [s EXCEPT !.revents = "none"].fd = s.fd
                      /\ [s EXCEPT !.revents = "none"].ctx = s.ctx
                      /\ [s EXCEPT !.revents = "none"].revents = "none"
  BY DEF Slot
<1>3. poll \in Seq(Slot) /\ Len(poll) <= MAX_CTXS /\ ctxs \in [Ctxs -> Context]
  BY DEF Base, Typed, CtxTypes
<1>4. /\ kept \in Seq(Slot) /\ Len(kept) <= Len(poll)
      /\ \E f \in [DOMAIN kept -> Slots] :
              /\ \A i \in DOMAIN kept : kept[i] = poll[f[i]]
              /\ \A i, j \in DOMAIN kept : f[i] = f[j] => i = j
              /\ \A k \in Slots : \E i \in DOMAIN kept : f[i] = k
  BY <1>3, SlotsType, ChosenOnce
<1> HIDE DEF kept
<1>5. \A k \in DOMAIN kept : kept[k] \in Slot
  BY <1>4
<1>6. poll' \in [DOMAIN kept -> Slot]
  BY <1>1, <1>2, <1>5, Zenon
<1>7. poll' \in Seq(Slot) /\ Len(poll') = Len(kept) /\ DOMAIN poll' = DOMAIN kept /\ DOMAIN kept = 1 .. Len(kept)
  BY <1>4, <1>6, Mapped
<1>8. \A k \in DOMAIN kept : /\ poll'[k].fd = kept[k].fd /\ poll'[k].ctx = kept[k].ctx
                             /\ poll'[k].revents = "none"
  <2>1. \A k \in DOMAIN kept : poll'[k] = [kept[k] EXCEPT !.revents = "none"]
    BY <1>1, Zenon
  <2>2. ASSUME NEW s \in Slot, NEW r, r = [s EXCEPT !.revents = "none"]
        PROVE  r.fd = s.fd /\ r.ctx = s.ctx /\ r.revents = "none"
    BY <2>2 DEF Slot
  <2> QED BY <2>1, <2>2, <1>5, Zenon
<1>9. ASSUME NEW c \in Ctxs
      PROVE  /\ SameButIndex(ctxs[c], ctxs'[c])
             /\ IF \E k \in DOMAIN poll' : poll'[k].ctx = c
                THEN ctxs'[c].i \in DOMAIN poll' /\ poll'[ctxs'[c].i].ctx = c
                ELSE ctxs'[c].i = ctxs[c].i
  <2>1. CASE \E k \in DOMAIN kept : kept[k].ctx = c
    <3> DEFINE at == CHOOSE k \in DOMAIN kept : kept[k].ctx = c
    <3>1. at \in DOMAIN kept /\ kept[at].ctx = c
      BY <2>1
    <3>2. ctxs'[c] = [ctxs[c] EXCEPT !.i = at]
      BY <1>1, <2>1 DEF Renumbered
    <3> HIDE DEF at
    <3>3. Len(kept) \in Nat /\ Len(poll) \in Nat /\ MAX_CTXS \in Nat
      BY <1>3, <1>4, GdbAssumption
    <3>4. at \in 0 .. MAX_CTXS
      BY <3>1, <3>3, <1>7, <1>3, <1>4
    <3>5. SameButIndex(ctxs[c], ctxs'[c]) /\ ctxs'[c].i = at
      BY <3>2, <3>4, <1>3 DEF Context, SameButIndex
    <3> QED BY <3>1, <3>5, <1>7, <1>8
  <2>2. CASE ~\E k \in DOMAIN kept : kept[k].ctx = c
    <3>1. ctxs'[c] = ctxs[c]
      BY <1>1, <2>2 DEF Renumbered
    <3> QED BY <3>1, <1>3, <2>2, <1>7, <1>8 DEF SameButIndex
  <2> QED BY <2>1, <2>2
<1>10. ctxs' \in [Ctxs -> Context]
  <2>1. \A c \in Ctxs : ctxs'[c] \in Context
    BY <1>9 DEF SameButIndex
  <2> QED BY <2>1, <1>1 DEF Renumbered
<1>11. \E f \in [DOMAIN poll' -> Slots] :
              /\ \A k \in DOMAIN poll' : /\ poll'[k].fd = poll[f[k]].fd /\ poll'[k].ctx = poll[f[k]].ctx
                                         /\ poll'[k].revents = "none"
              /\ \A j, k \in DOMAIN poll' : f[j] = f[k] => j = k
              /\ \A k \in Slots : \E j \in DOMAIN poll' : f[j] = k
  <2>1. PICK f \in [DOMAIN kept -> Slots] :
              /\ \A i \in DOMAIN kept : kept[i] = poll[f[i]]
              /\ \A i, j \in DOMAIN kept : f[i] = f[j] => i = j
              /\ \A k \in Slots : \E i \in DOMAIN kept : f[i] = k
    BY <1>4
  <2>2. f \in [DOMAIN poll' -> Slots]
    BY <1>7
  <2>3. \A k \in DOMAIN poll' : /\ poll'[k].fd = poll[f[k]].fd /\ poll'[k].ctx = poll[f[k]].ctx
                                /\ poll'[k].revents = "none"
    BY <2>1, <1>7, <1>8
  <2>4. DOMAIN kept = DOMAIN poll'
    BY <1>7
  <2>5. /\ \A j, k \in DOMAIN poll' : f[j] = f[k] => j = k
        /\ \A k \in Slots : \E j \in DOMAIN poll' : f[j] = k
    BY <2>1, <2>4
  <2> WITNESS f \in [DOMAIN poll' -> Slots]
  <2> QED BY <2>3, <2>5
<1> QED BY <1>4, <1>7, <1>9, <1>10, <1>11

---------------------------------------------------------------------------
(* Most steps leave the tables, and who has a slot, as they are.            *)

Tame(x, y) ==
  /\ y.localPort = x.localPort /\ y.i = x.i /\ y.serv = x.serv
  /\ "USED" \in y.flags <=> "USED" \in x.flags
  /\ "SELECTED" \in y.flags => "SELECTED" \in x.flags
  /\ y.flags \cap {"SELECTED", "USED"} = {} => x.flags \cap {"SELECTED", "USED"} = {}
TameSlots ==
  /\ DOMAIN poll' = DOMAIN poll
  /\ \A k \in DOMAIN poll : /\ poll'[k].ctx = poll[k].ctx
                            /\ poll'[k].fd = poll[k].fd \/ (poll'[k].fd = Nothing /\ ev'.terminate)
  /\ ev.terminate => ev'.terminate
  /\ n' = n

LEMMA TameTables ==
  ASSUME SlotsOK, PortsOK, CountsOK, TameSlots, \A c \in Ctxs : Tame(ctxs[c], ctxs'[c])
  PROVE  SlotsOK' /\ PortsOK' /\ CountsOK'
<1>1. SlotsOK'
  BY DEF SlotsOK, TameSlots, Tame
<1>2. PortsOK'
  <2>1. \A c \in Ctxs : Allocated(c)' => Allocated(c)
    BY DEF Allocated, Tame
  <2> QED BY <2>1 DEF PortsOK, Tame
<1>3. CountsOK'
  BY DEF CountsOK, TameSlots, Tame
<1> QED BY <1>1, <1>2, <1>3

LEMMA TameSame == ASSUME NEW x PROVE Tame(x, x)
BY DEF Tame

LEMMA SlotsSame ==
  ASSUME UNCHANGED <<poll, n>>, ev.terminate => ev'.terminate
  PROVE  TameSlots
BY DEF TameSlots

(* A context takes, or gives up, a debugger.                                *)
LEMMA DebuggersKept ==
  ASSUME DebuggersOK, \A c \in Ctxs : ctxs'[c].debug = ctxs[c].debug \/ ctxs'[c].debug = None
  PROVE  DebuggersOK'
BY DEF DebuggersOK

LEMMA DebuggerTaken ==
  ASSUME DebuggersOK, NEW c \in Ctxs, ~Debugged(ctxs'[c].debug),
         \A d \in Ctxs : d # c => ctxs'[d].debug = ctxs[d].debug
  PROVE  DebuggersOK'
BY DEF DebuggersOK, Debugged

LEMMA VisitKept ==
  ASSUME VisitOK, srv' = srv, DOMAIN poll' = DOMAIN poll,
         \A k \in DOMAIN poll : poll'[k].ctx = poll[k].ctx
  PROVE  VisitOK'
BY DEF VisitOK

LEMMA VisitElsewhere ==
  ASSUME srv'.pc \notin {"accept", "close", "closed"} \/ ~(srv'.c < 0)
  PROVE  VisitOK'
BY DEF VisitOK

(* Nothing of it ends.                                                      *)
LEMMA EndKept ==
  ASSUME EndOK, ev.terminate => ev'.terminate,
         srv'.pc \in {"leave", "gone"} => srv.pc \in {"leave", "gone"} \/ ev'.terminate,
         menu' = menu \/ ev'.terminate, ~Over'
  PROVE  EndOK'
BY DEF EndOK

---------------------------------------------------------------------------
(* The steps of the poll loop                                               *)

LEMMA PollsBase ==
  ASSUME Base, ServerPolls
  PROVE  /\ Base'
         /\ ev.terminate => poll' = poll
         /\ ~ev.terminate => /\ DOMAIN poll' = DOMAIN poll /\ srv'.pc = "visit" /\ srv'.i = 1
                             /\ \A k \in DOMAIN poll : poll'[k].fd = poll[k].fd /\ poll'[k].ctx = poll[k].ctx
                                                       /\ poll'[k].revents = Revents(poll[k])
<1> USE DEF Base
<1>1. UNCHANGED <<ctxs, shouldClose, proc, line, backlog, ev, mon, compact_needed, n, menu, use>>
  BY DEF ServerPolls, At, connections
<1>2. CASE ev.terminate
  <2>1. To("abort") /\ "abort" \in SrvPlaces /\ poll' = poll
    BY <1>2 DEF ServerPolls, SrvPlaces
  <2>2. srv' \in ServerState /\ srv'.pc = "abort"
    BY <2>1, ToFacts DEF RestOK
  <2>3. Typed' /\ RestOK'
    BY <1>1, <2>1, <2>2, SlotNames DEF Typed, CtxTypes, RestOK, Serving
  <2>4. ContextsOK'
    BY <1>1, <2>2 DEF ContextsOK, ContextOK, OwnOK, PacketOK, PlaceOK, WaitOK, Allocated, Serves, Serving
  <2>5. SlotsOK' /\ PortsOK' /\ CountsOK'
    BY <1>1, <2>1, SlotsSame, TameSame, TameTables
  <2>6. DebuggersOK' /\ VisitOK' /\ EndOK'
    BY <1>1, <2>2, DebuggersKept, VisitElsewhere, EndKept DEF Over
  <2> QED BY <1>2, <2>1, <2>3, <2>4, <2>5, <2>6
<1>3. CASE ~ev.terminate
  <2>1. /\ srv' = [srv EXCEPT !.pc = "visit", !.i = 1] /\ srv.pc = "poll"
        /\ poll' = [k \in DOMAIN poll |-> [poll[k] EXCEPT !.revents = Revents(poll[k])]]
    BY <1>3 DEF ServerPolls, At
  <2>2. srv' \in ServerState /\ srv'.pc = "visit" /\ srv'.i = 1
    BY <2>1 DEF RestOK, ServerState, SrvPlaces
  <2>3. \A s : Revents(s) \in {"none", "in", "hup"}
    BY DEF Revents
  <2>5. \A k \in DOMAIN poll : poll[k] \in Slot
    BY DEF Typed
  <2>6. \A k \in DOMAIN poll : /\ poll'[k] \in Slot /\ poll'[k].revents = Revents(poll[k])
                               /\ poll'[k].fd = poll[k].fd /\ poll'[k].ctx = poll[k].ctx
    <3>1. \A k \in DOMAIN poll : poll'[k] = [poll[k] EXCEPT !.revents = Revents(poll[k])]
      BY <2>1, Zenon
    <3> SUFFICES ASSUME NEW k \in DOMAIN poll
                 PROVE  /\ poll'[k] \in Slot /\ poll'[k].revents = Revents(poll[k])
                        /\ poll'[k].fd = poll[k].fd /\ poll'[k].ctx = poll[k].ctx
      OBVIOUS
    <3> DEFINE s == poll[k]
               r == Revents(s)
               t == poll'[k]
    <3>2. s \in Slot /\ r \in {"none", "in", "hup"} /\ t = [s EXCEPT !.revents = r]
      BY <2>3, <2>5, <3>1
    <3> HIDE DEF s, r, t
    <3>3. t \in Slot /\ t.revents = r /\ t.fd = s.fd /\ t.ctx = s.ctx
      BY <3>2 DEF Slot
    <3> QED BY <3>3 DEF s, r, t
  <2>7. poll' \in [DOMAIN poll -> Slot]
    BY <2>1, <2>6, Zenon
  <2>8. poll' \in Seq(Slot) /\ Len(poll') = Len(poll) /\ DOMAIN poll' = DOMAIN poll
    BY <2>7, Mapped DEF Typed
  <2>9. Typed' /\ RestOK'
    BY <1>1, <2>2, <2>8 DEF Typed, CtxTypes, RestOK, Serving
  <2>10. ContextsOK'
    BY <1>1, <2>2 DEF ContextsOK, ContextOK, OwnOK, PacketOK, PlaceOK, WaitOK, Allocated, Serves, Serving
  <2>11. TameSlots
    BY <1>1, <2>6, <2>8 DEF TameSlots
  <2>12. SlotsOK' /\ PortsOK' /\ CountsOK'
    BY <1>1, <2>11, TameSame, TameTables
  <2>13. DebuggersOK' /\ VisitOK' /\ EndOK'
    BY <1>1, <2>2, DebuggersKept, VisitElsewhere, EndKept DEF Over
  <2> QED BY <1>3, <2>2, <2>6, <2>8, <2>9, <2>10, <2>12, <2>13
<1> QED BY <1>2, <1>3

LEMMA VisitsBase ==
  ASSUME Base, ServerVisits
  PROVE  /\ Base'
         /\ \/ srv'.pc = "visit" /\ srv'.i = Len(poll) + 1
               /\ \A k \in DOMAIN poll : k >= srv.i => ~Waiting(k)
            \/ /\ srv'.i \in DOMAIN poll /\ srv'.i >= srv.i /\ srv'.c = poll[srv'.i].ctx
               /\ Waiting(srv'.i) /\ \A k \in DOMAIN poll : k >= srv.i /\ k < srv'.i => ~Waiting(k)
               /\ srv'.pc = IF srv'.c = Nothing THEN "fault"
                            ELSE IF poll[srv'.i].revents = "hup" \/ srv'.c \in shouldClose THEN "close"
                            ELSE IF srv'.c < 0 THEN "accept" ELSE "data"
<1> USE DEF Base
<1> DEFINE rest == {k \in srv.i .. Len(poll) : Waiting(k)}
<1>1. /\ UNCHANGED <<ctxs, shouldClose, proc, line, backlog, ev, mon, poll, compact_needed, n, menu, use>>
      /\ srv.pc = "visit" /\ srv.i > 0
  BY DEF ServerVisits, At, connections, tables, RestOK
<1>2. Len(poll) \in Nat /\ srv.i \in Nat /\ rest \subseteq Nat /\ DOMAIN poll = 1 .. Len(poll)
  BY DEF Typed, RestOK, ServerState
<1>3. SlotsOK' /\ PortsOK' /\ CountsOK' /\ DebuggersOK'
  BY <1>1, SlotsSame, TameSame, TameTables, DebuggersKept
<1>4. CASE rest = {}
  <2>1. srv' = [srv EXCEPT !.i = Len(poll) + 1]
    BY <1>4 DEF ServerVisits
  <2>2. Len(poll) + 1 \in Nat /\ Len(poll) + 1 > 0
    BY <1>2
  <2>3. srv' \in ServerState /\ srv'.pc = "visit" /\ srv'.i = Len(poll) + 1
    BY <1>1, <2>1, <2>2 DEF RestOK, ServerState
  <2>4. Typed' /\ RestOK'
    BY <1>1, <2>2, <2>3 DEF Typed, CtxTypes, RestOK, Serving
  <2>5. ContextsOK'
    BY <1>1, <2>3 DEF ContextsOK, ContextOK, OwnOK, PacketOK, PlaceOK, WaitOK, Allocated, Serves, Serving
  <2>6. VisitOK' /\ EndOK'
    BY <1>1, <2>3, VisitElsewhere, EndKept DEF Over
  <2>7. \A k \in DOMAIN poll : k >= srv.i => ~Waiting(k)
    BY <1>2, <1>4
  <2> QED BY <1>3, <2>3, <2>4, <2>5, <2>6, <2>7
<1>5. CASE rest # {}
  <2> DEFINE k == Min(rest)
  <2>1. k \in rest /\ \A j \in rest : k =< j
    BY <1>2, <1>5, MinFacts
  <2>2. k \in DOMAIN poll /\ k \in Nat /\ k > 0 /\ k >= srv.i /\ Waiting(k)
    BY <1>1, <1>2, <2>1
  <2>3. \A j \in DOMAIN poll : j >= srv.i /\ j < k => ~Waiting(j)
    BY <1>1, <1>2, <2>1
  <2>4. poll[k] \in Slot
    BY <2>2 DEF Typed
  <2>5. poll[k].ctx \in (-NPorts) .. MAX_DEBUG
    BY <2>4 DEF Slot
  <2> DEFINE pc == IF poll[k].ctx = Nothing THEN "fault"
                   ELSE IF poll[k].revents = "hup" \/ poll[k].ctx \in shouldClose THEN "close"
                   ELSE IF poll[k].ctx < 0 THEN "accept" ELSE "data"
  <2>6. srv' = [pc |-> pc, i |-> k, c |-> poll[k].ctx]
    BY <1>5 DEF ServerVisits
  <2>7. pc \in {"fault", "close", "accept", "data"}
    OBVIOUS
  <2> HIDE DEF k
  <2>8. srv' \in ServerState /\ srv'.pc = pc /\ srv'.i = k /\ srv'.c = poll[k].ctx
    BY <2>2, <2>5, <2>6, <2>7 DEF ServerState, SrvPlaces
  <2>9. pc = "data" => poll[k].ctx \in Ctxs
    <3> SUFFICES ASSUME pc = "data" PROVE poll[k].ctx \in Ctxs
      OBVIOUS
    <3>1. MAX_DEBUG \in Nat /\ NPorts \in Nat
      BY GdbAssumption
    <3>2. \A z \in (-NPorts) .. MAX_DEBUG : z # 0 /\ ~(z < 0) => z \in 1 .. MAX_DEBUG
      BY <3>1
    <3> QED BY <2>5, <3>2 DEF Ctxs, Nothing
  <2>10. Typed' /\ RestOK'
    BY <1>1, <2>2, <2>8, <2>9 DEF Typed, CtxTypes, RestOK, Serving
  <2>11. ContextsOK'
    <3>1. \A c \in Ctxs : poll[k].ctx = c => "USED" \in ctxs[c].flags
      BY <2>2 DEF SlotsOK
    <3> QED BY <1>1, <2>8, <3>1
          DEF ContextsOK, ContextOK, OwnOK, PacketOK, PlaceOK, WaitOK, Allocated, Serves, Serving
  <2>12. VisitOK' /\ EndOK'
    <3>1. VisitOK'
      BY <1>1, <2>2, <2>8 DEF VisitOK
    <3>2. EndOK'
      BY <1>1, <2>8, EndKept DEF Over
    <3> QED BY <3>1, <3>2
  <2>13. srv'.pc = IF srv'.c = Nothing THEN "fault"
                   ELSE IF poll[srv'.i].revents = "hup" \/ srv'.c \in shouldClose THEN "close"
                   ELSE IF srv'.c < 0 THEN "accept" ELSE "data"
    BY <2>8
  <2> HIDE DEF pc
  <2> QED BY <1>3, <2>2, <2>3, <2>8, <2>10, <2>11, <2>12, <2>13
<1> QED BY <1>4, <1>5

LEMMA CompactsBase ==
  ASSUME Base, ServerCompacts
  PROVE  Base'
<1> USE DEF Base
<1>1. /\ UNCHANGED <<shouldClose, proc, line, backlog, ev, mon, n, menu, use>>
      /\ srv.pc = "visit"
  BY DEF ServerCompacts, At, connections
<1>2. CASE ev.terminate
  <2>1. To("abort") /\ "abort" \in SrvPlaces /\ UNCHANGED <<poll, compact_needed, ctxs>>
    BY <1>2 DEF ServerCompacts, SrvPlaces
  <2>2. srv' \in ServerState /\ srv'.pc = "abort"
    BY <2>1, ToFacts DEF RestOK
  <2>3. Typed' /\ RestOK'
    BY <1>1, <2>1, <2>2, SlotNames DEF Typed, CtxTypes, RestOK, Serving
  <2>4. ContextsOK'
    BY <1>1, <2>1, <2>2 DEF ContextsOK, ContextOK, OwnOK, PacketOK, PlaceOK, WaitOK, Allocated, Serves, Serving
  <2>5. SlotsOK' /\ PortsOK' /\ CountsOK'
    BY <1>1, <2>1, SlotsSame, TameSame, TameTables
  <2>6. DebuggersOK' /\ VisitOK' /\ EndOK'
    BY <1>1, <2>1, <2>2, DebuggersKept, VisitElsewhere, EndKept DEF Over
  <2> QED BY <2>3, <2>4, <2>5, <2>6
<1>3. CASE ~ev.terminate
  <2>1. srv' = Polling /\ compact_needed' = FALSE
    BY <1>3 DEF ServerCompacts
  <2>2. srv' \in ServerState /\ srv'.pc = "poll"
    BY <2>1, SlotNames DEF Polling, ServerState, SrvPlaces
  <2>3. EndOK' /\ VisitOK'
    BY <1>1, <2>2, EndKept, VisitElsewhere DEF Over
  <2>4. CASE ~compact_needed
    <3>1. /\ poll' \in Seq(Slot) /\ Len(poll') = Len(poll) /\ DOMAIN poll' = DOMAIN poll
          /\ \A k \in DOMAIN poll : poll'[k].fd = poll[k].fd /\ poll'[k].ctx = poll[k].ctx
          /\ ctxs' = ctxs
      BY <1>3, <2>4, NotCompacted
    <3>2. Typed' /\ RestOK'
      BY <1>1, <2>1, <2>2, <3>1 DEF Typed, CtxTypes, RestOK, Serving
    <3>3. ContextsOK'
      BY <1>1, <2>2, <3>1
      DEF ContextsOK, ContextOK, OwnOK, PacketOK, PlaceOK, WaitOK, Allocated, Serves, Serving
    <3>4. SlotsOK' /\ PortsOK' /\ CountsOK'
      BY <1>1, <3>1, TameSame, TameTables DEF TameSlots
    <3>5. DebuggersOK'
      BY <3>1, DebuggersKept
    <3> QED BY <2>3, <3>2, <3>3, <3>4, <3>5
  <2>5. CASE compact_needed
    <3>1. /\ poll' \in Seq(Slot) /\ Len(poll') <= Len(poll)
          /\ \A c \in Ctxs :
               /\ SameButIndex(ctxs[c], ctxs'[c])
               /\ IF \E k \in DOMAIN poll' : poll'[k].ctx = c
                  THEN ctxs'[c].i \in DOMAIN poll' /\ poll'[ctxs'[c].i].ctx = c
                  ELSE ctxs'[c].i = ctxs[c].i
          /\ ctxs' \in [Ctxs -> Context]
      BY <1>3, <2>5, Compacted
    <3>2. PICK f \in [DOMAIN poll' -> Slots] :
               /\ \A k \in DOMAIN poll' : /\ poll'[k].fd = poll[f[k]].fd /\ poll'[k].ctx = poll[f[k]].ctx
                                          /\ poll'[k].revents = "none"
               /\ \A j, k \in DOMAIN poll' : f[j] = f[k] => j = k
               /\ \A k \in Slots : \E j \in DOMAIN poll' : f[j] = k
      BY <1>3, <2>5, Compacted
    <3>3. Typed' /\ RestOK'
      <4>1. Len(poll') \in Nat /\ Len(poll) \in Nat /\ MAX_CTXS \in Nat
        BY <3>1, GdbAssumption DEF Typed
      <4>2. Len(poll') <= MAX_CTXS
        BY <3>1, <4>1 DEF Typed
      <4>3. CtxTypes'
        BY <3>1 DEF Typed, CtxTypes, SameButIndex
      <4>4. RestOK'
        BY <1>1, <2>1, <2>2 DEF RestOK, Serving
      <4> QED BY <1>1, <3>1, <4>2, <4>3, <4>4 DEF Typed
    <3>4. ContextsOK'
      BY <1>1, <2>2, <3>1
      DEF ContextsOK, ContextOK, OwnOK, PacketOK, PlaceOK, WaitOK, Allocated, Serves, Serving, SameButIndex
    <3>5. SlotsOK'
      <4>1. \A k \in DOMAIN poll' : f[k] \in DOMAIN poll
        BY <3>2 DEF Slots
      <4>2. ASSUME NEW c \in Ctxs, "USED" \in ctxs'[c].flags
            PROVE  /\ ctxs'[c].i \in DOMAIN poll' /\ poll'[ctxs'[c].i].ctx = c
                   /\ ctxs'[c].serv \in Ports
        <5>1. ctxs[c].i \in DOMAIN poll /\ poll[ctxs[c].i].ctx = c /\ ctxs[c].serv \in Ports
          BY <3>1, <4>2 DEF SlotsOK, SameButIndex
        <5>2. ctxs[c].i \in Slots
          BY <1>3, <5>1, SlotNames DEF Slots, SlotsOK, Nothing
        <5>3. \E j \in DOMAIN poll' : poll'[j].ctx = c
          BY <3>2, <5>1, <5>2
        <5> QED BY <3>1, <5>1, <5>3 DEF SameButIndex
      <4>3. ASSUME NEW k \in DOMAIN poll', poll'[k].ctx \in Ctxs
            PROVE  "USED" \in ctxs'[poll'[k].ctx].flags /\ ctxs'[poll'[k].ctx].i = k
        <5> DEFINE c == poll'[k].ctx
                   j == ctxs'[c].i
        <5>1. c \in Ctxs /\ poll[f[k]].ctx = c
          BY <3>2, <4>3
        <5>2. "USED" \in ctxs[c].flags /\ ctxs[c].i = f[k]
          BY <4>1, <5>1 DEF SlotsOK
        <5>3. j \in DOMAIN poll' /\ poll'[j].ctx = c
          BY <3>1, <5>1
        <5>4. poll[f[j]].ctx = c
          BY <3>2, <5>3
        <5>5. ctxs[c].i = f[j]
          BY <4>1, <5>1, <5>3, <5>4 DEF SlotsOK
        <5>6. j = k
          <6>1. f[j] = f[k]
            BY <5>2, <5>5
          <6> HIDE DEF j, c
          <6> QED BY <3>2, <5>3, <6>1
        <5>7. "USED" \in ctxs'[c].flags
          BY <3>1, <5>1, <5>2 DEF SameButIndex
        <5> QED BY <5>6, <5>7
      <4>4. \A k \in DOMAIN poll' : poll'[k].fd # poll'[k].ctx => poll'[k].fd = Nothing /\ ev'.terminate
        BY <1>1, <3>2, <4>1 DEF SlotsOK
      <4> QED BY <4>2, <4>3, <4>4 DEF SlotsOK
    <3>6. PortsOK' /\ CountsOK'
      BY <1>1, <3>1 DEF PortsOK, CountsOK, Allocated, SameButIndex
    <3>7. DebuggersOK'
      BY <3>1, DebuggersKept DEF SameButIndex
    <3> QED BY <2>3, <3>3, <3>4, <3>5, <3>6, <3>7
  <2> QED BY <2>4, <2>5
<1> QED BY <1>2, <1>3

---------------------------------------------------------------------------
(* Connections                                                              *)

(* What ServerAccepts does when there is room                               *)
Accepts(c, p, k) ==
  /\ c \in GetClient(p) /\ p \in Ports /\ HasRoom(p) /\ k = Len(poll) + 1 /\ p = -srv.c
  /\ ctxs' = [ctxs EXCEPT ![c] = Connected(ctxs[c], p, k)]
  /\ shouldClose' = shouldClose \ {c}
  /\ line' = [line EXCEPT ![c] = [NoLine EXCEPT !.st = "open"]]
  /\ poll' = Append(poll, [fd |-> c, ctx |-> c, revents |-> "none"])
  /\ n' = [n EXCEPT ![p] = n[p] + 1]
  /\ srv' = [srv EXCEPT !.pc = "accepted", !.c = c]

LEMMA AcceptsCases ==
  ASSUME Base, ServerAccepts
  PROVE  /\ UNCHANGED <<proc, ev, mon, compact_needed, menu, use>> /\ srv.pc = "accept" /\ srv.c < 0
         /\ backlog' \in [Ports -> BOOLEAN]
         /\ \/ ev.terminate /\ To("abort") /\ UNCHANGED <<ctxs, shouldClose, line, poll, n>>
            \/ ~ev.terminate /\ NextSlot /\ UNCHANGED <<ctxs, shouldClose, line, poll, n>>
            \/ ~ev.terminate /\ \E c \in Ctxs : Accepts(c, -srv.c, Len(poll) + 1)
<1> USE DEF Base
<1>1. UNCHANGED <<proc, ev, mon, compact_needed, menu, use>> /\ srv.pc = "accept" /\ srv.c < 0
  BY DEF ServerAccepts, At, RestOK
<1>2. -srv.c \in Ports
  <2>1. srv.c \in (-NPorts) .. MAX_DEBUG /\ MAX_DEBUG \in Nat /\ NPorts \in Nat
    BY GdbAssumption DEF RestOK, ServerState
  <2>2. \A z \in (-NPorts) .. MAX_DEBUG : z < 0 => -z \in 1 .. NPorts
    BY <2>1
  <2> QED BY <1>1, <2>1, <2>2 DEF Ports
<1>3. backlog' \in [Ports -> BOOLEAN]
  BY DEF ServerAccepts, RestOK
<1>4. \A c \in GetClient(-srv.c) : c \in Ctxs
  <2>1. Free \subseteq Nat /\ Tied(-srv.c) \subseteq Nat
    BY SlotNames, GdbAssumption DEF Free, Tied, Ctxs
  <2>2. Free # {} => Min(Free) \in Free
    BY <2>1, MinFacts
  <2>3. Tied(-srv.c) # {} => Min(Tied(-srv.c)) \in Tied(-srv.c)
    BY <2>1, MinFacts
  <2> QED BY <2>2, <2>3 DEF GetClient, Free, Tied
<1>5. CASE ev.terminate
  BY <1>1, <1>3, <1>5 DEF ServerAccepts
<1>6. CASE ~ev.terminate /\ (~HasRoom(-srv.c) \/ GetClient(-srv.c) = {})
  BY <1>1, <1>3, <1>6 DEF ServerAccepts
<1>7. CASE ~ev.terminate /\ ~(~HasRoom(-srv.c) \/ GetClient(-srv.c) = {})
  <2>1. \E c \in GetClient(-srv.c) : Accepts(c, -srv.c, Len(poll) + 1)
    BY <1>2, <1>7 DEF ServerAccepts, Accepts
  <2> QED BY <1>1, <1>3, <1>4, <1>7, <2>1
<1> QED BY <1>5, <1>6, <1>7

LEMMA ClientFacts ==
  ASSUME Base, NEW c \in Ctxs, NEW p \in Ports, c \in GetClient(p)
  PROVE  /\ "USED" \notin ctxs[c].flags /\ ctxs[c].debug = None /\ ctxs[c].state # "ATTACHED"
         /\ \A d \in Ctxs : d # c /\ Allocated(d) => ctxs[d].localPort # p
         /\ Tied(p) # {} => ctxs[c].localPort = p
         /\ Tied(p) = {} => ~Allocated(c)
<1> USE DEF Base
<1>1. Free \subseteq Nat /\ Tied(p) \subseteq Nat
  BY SlotNames, GdbAssumption DEF Free, Tied, Ctxs
<1>2. CASE Tied(p) # {}
  <2>1. c \in Tied(p) /\ "USED" \notin ctxs[c].flags
    BY <1>1, <1>2, MinFacts DEF GetClient
  <2>2. Allocated(c)
    BY <2>1, SlotNames DEF Tied, ContextsOK, ContextOK, OwnOK, Nothing, Ports
  <2> QED BY <1>2, <2>1, <2>2 DEF Tied, PortsOK, ContextsOK, ContextOK, OwnOK
<1>3. CASE Tied(p) = {}
  <2>1. Free # {} /\ c = Min(Free)
    BY <1>3 DEF GetClient
  <2>2. c \in Free
    BY <1>1, <2>1, MinFacts
  <2> QED BY <1>3, <2>2 DEF Free, Tied, Allocated, ContextsOK, ContextOK, OwnOK
<1> QED BY <1>2, <1>3

LEMMA AcceptsFacts ==
  ASSUME Base, NEW c \in Ctxs, NEW p, NEW k, Accepts(c, p, k), proc' = proc
  PROVE  /\ k \in 1 .. MAX_CTXS /\ k = Len(poll) + 1 /\ DOMAIN poll = 1 .. Len(poll) /\ Len(poll) \in Nat
         /\ ctxs'[c] = Connected(ctxs[c], p, k) /\ \A d \in Ctxs : d # c => ctxs'[d] = ctxs[d]
         /\ Typed'
         /\ DOMAIN poll' = 1 .. k /\ poll'[k] = [fd |-> c, ctx |-> c, revents |-> "none"]
         /\ \A j \in DOMAIN poll : poll'[j] = poll[j]
         /\ srv' \in ServerState /\ srv'.pc = "accepted" /\ srv'.c = c /\ srv'.i = srv.i
         /\ line'[c] = [NoLine EXCEPT !.st = "open"] /\ \A d \in Ctxs : d # c => line'[d] = line[d]
         /\ n[p] = 0 /\ n'[p] = 1 /\ \A q \in Ports : q # p => n'[q] = n[q]
<1> USE DEF Base
<1>1. poll \in Seq(Slot) /\ p \in Ports /\ HasRoom(p) /\ k = Len(poll) + 1
  BY DEF Accepts, Typed
<1>2. Len(poll) \in Nat /\ MAX_CTXS \in Nat /\ DOMAIN poll = 1 .. Len(poll)
  BY <1>1, GdbAssumption
<1>3. k \in 1 .. MAX_CTXS /\ k \in 0 .. MAX_CTXS
  BY <1>1, <1>2 DEF HasRoom
<1>4. n[p] = 0
  BY <1>1 DEF HasRoom, Typed
<1>5. n' \in [Ports -> {0, 1}] /\ n'[p] = 1 /\ \A q \in Ports : q # p => n'[q] = n[q]
  BY <1>1, <1>4 DEF Accepts, Typed
<1>6. [fd |-> c, ctx |-> c, revents |-> "none"] \in Slot
  BY SlotNames DEF Slot
<1>7. /\ poll' \in Seq(Slot) /\ Len(poll') = k /\ DOMAIN poll' = 1 .. k
      /\ poll'[k] = [fd |-> c, ctx |-> c, revents |-> "none"]
      /\ \A j \in DOMAIN poll : poll'[j] = poll[j]
  <2> DEFINE s == [fd |-> c, ctx |-> c, revents |-> "none"]
  <2>1. s \in Slot /\ poll' = Append(poll, s)
    BY <1>6 DEF Accepts
  <2> HIDE DEF s
  <2>2. /\ poll' \in Seq(Slot) /\ Len(poll') = k /\ DOMAIN poll' = 1 .. k /\ poll'[k] = s
        /\ \A j \in DOMAIN poll : poll'[j] = poll[j]
    BY <2>1, <1>1, <1>2
  <2> QED BY <2>2 DEF s
<1>8. Len(poll') <= MAX_CTXS
  BY <1>3, <1>7
<1>9. Connected(ctxs[c], p, k) \in Context /\ Connected(ctxs[c], p, k).state = "CONNECTED"
  BY <1>1, <1>3, ConnectedFacts DEF Typed, CtxTypes
<1>10. CtxTypes' /\ ctxs'[c] = Connected(ctxs[c], p, k) /\ \A d \in Ctxs : d # c => ctxs'[d] = ctxs[d]
  BY <1>9, CtxUpdate DEF Accepts, Typed
<1>11. [NoLine EXCEPT !.st = "open"] \in Connection
  BY NoLineType DEF Connection
<1>12. /\ line' \in [Ctxs -> Connection] /\ line'[c] = [NoLine EXCEPT !.st = "open"]
       /\ \A d \in Ctxs : d # c => line'[d] = line[d]
  BY <1>11 DEF Accepts, Typed
<1>13. srv' \in ServerState /\ srv'.pc = "accepted" /\ srv'.c = c /\ srv'.i = srv.i
  <2>1. srv' = [srv EXCEPT !.pc = "accepted", !.c = c]
    BY DEF Accepts
  <2> QED BY <2>1, SlotNames DEF RestOK, ServerState, SrvPlaces
<1> QED BY <1>1, <1>2, <1>3, <1>4, <1>5, <1>7, <1>8, <1>10, <1>12, <1>13 DEF Typed

LEMMA AcceptsBase ==
  ASSUME Base, ServerAccepts
  PROVE  Base'
<1> USE DEF Base
<1>1. UNCHANGED <<proc, ev, mon, compact_needed, menu, use>> /\ srv.pc = "accept" /\ srv.c < 0
      /\ backlog' \in [Ports -> BOOLEAN]
  BY AcceptsCases
<1>2. CASE ev.terminate /\ To("abort") /\ UNCHANGED <<ctxs, shouldClose, line, poll, n>>
  <2>1. srv' \in ServerState /\ srv'.pc = "abort"
    BY <1>2, ToFacts DEF RestOK, SrvPlaces
  <2>2. Typed' /\ RestOK'
    BY <1>1, <1>2, <2>1, SlotNames DEF Typed, CtxTypes, RestOK, Serving
  <2>3. ContextsOK'
    BY <1>1, <1>2, <2>1 DEF ContextsOK, ContextOK, OwnOK, PacketOK, PlaceOK, WaitOK, Allocated, Serves, Serving
  <2>4. SlotsOK' /\ PortsOK' /\ CountsOK'
    BY <1>1, <1>2, SlotsSame, TameSame, TameTables
  <2>5. DebuggersOK' /\ VisitOK' /\ EndOK'
    BY <1>1, <1>2, <2>1, DebuggersKept, VisitElsewhere, EndKept DEF Over
  <2> QED BY <2>2, <2>3, <2>4, <2>5
<1>3. CASE ~ev.terminate /\ NextSlot /\ UNCHANGED <<ctxs, shouldClose, line, poll, n>>
  <2>1. srv' \in ServerState /\ srv'.pc = "visit" /\ srv'.c = Nothing /\ srv'.i > 0
    <3>1. srv.i \in Nat
      BY DEF RestOK, ServerState
    <3> QED BY <1>3, <3>1, NextSlotFacts DEF RestOK
  <2>2. Typed' /\ RestOK'
    BY <1>1, <1>3, <2>1, SlotNames DEF Typed, CtxTypes, RestOK, Serving
  <2>3. ContextsOK'
    BY <1>1, <1>3, <2>1 DEF ContextsOK, ContextOK, OwnOK, PacketOK, PlaceOK, WaitOK, Allocated, Serves, Serving
  <2>4. SlotsOK' /\ PortsOK' /\ CountsOK'
    BY <1>1, <1>3, SlotsSame, TameSame, TameTables
  <2>5. DebuggersOK' /\ VisitOK' /\ EndOK'
    BY <1>1, <1>3, <2>1, DebuggersKept, VisitElsewhere, EndKept DEF Over
  <2> QED BY <2>2, <2>3, <2>4, <2>5
<1>4. CASE ~ev.terminate /\ \E c \in Ctxs : Accepts(c, -srv.c, Len(poll) + 1)
  <2>1. PICK c \in Ctxs : Accepts(c, -srv.c, Len(poll) + 1)
    BY <1>4
  <2> DEFINE p == -srv.c
             k == Len(poll) + 1
  <2>2. /\ k \in 1 .. MAX_CTXS /\ DOMAIN poll = 1 .. Len(poll) /\ Len(poll) \in Nat /\ k = Len(poll) + 1
        /\ ctxs'[c] = Connected(ctxs[c], p, k) /\ \A d \in Ctxs : d # c => ctxs'[d] = ctxs[d]
        /\ Typed'
        /\ DOMAIN poll' = 1 .. k /\ poll'[k] = [fd |-> c, ctx |-> c, revents |-> "none"]
        /\ \A j \in DOMAIN poll : poll'[j] = poll[j]
        /\ srv' \in ServerState /\ srv'.pc = "accepted" /\ srv'.c = c /\ srv'.i = srv.i
        /\ line'[c] = [NoLine EXCEPT !.st = "open"] /\ \A d \in Ctxs : d # c => line'[d] = line[d]
        /\ n[p] = 0 /\ n'[p] = 1 /\ \A q \in Ports : q # p => n'[q] = n[q]
    BY <1>1, <2>1, AcceptsFacts
  <2>3. c \in GetClient(p) /\ p \in Ports /\ shouldClose' = shouldClose \ {c}
    BY <2>1 DEF Accepts
  <2> HIDE DEF p, k
  <2>4. /\ "USED" \notin ctxs[c].flags /\ ctxs[c].debug = None /\ ctxs[c].state # "ATTACHED"
        /\ \A d \in Ctxs : d # c /\ Allocated(d) => ctxs[d].localPort # p
    BY <2>3, ClientFacts
  <2> DEFINE y == ctxs'[c]
  <2>5. /\ y.flags = ctxs[c].flags \cup {"USED"} /\ y.state = "CONNECTED" /\ y.localPort = p
        /\ y.pid = ctxs[c].pid /\ y.debug = None /\ y.eventToWaitFor = ctxs[c].eventToWaitFor
        /\ y.i = k /\ y.serv = p
    <3>1. k \in 0 .. MAX_CTXS
      BY <2>2
    <3> QED BY <2>2, <2>3, <2>4, <3>1, ConnectedFacts DEF Typed, CtxTypes
  <2> HIDE DEF y
  <2>6. "USED" \in y.flags /\ \A g \in Flags : g # "USED" => (g \in y.flags <=> g \in ctxs[c].flags)
    BY <2>5
  <2>7. RestOK'
    BY <1>1, <2>2, <2>3 DEF RestOK, Serving
  <2>8. ContextsOK'
    <3>1. \A d \in Ctxs : OwnOK(d)'
      BY <2>2, <2>5, <2>6 DEF ContextsOK, ContextOK, OwnOK, Allocated, Flags, y
    <3>2. \A d \in Ctxs : PacketOK(d)'
      BY <2>2 DEF ContextsOK, ContextOK, PacketOK, NoLine, NoPacket
    <3>3. \A d \in Ctxs : PlaceOK(d)'
      BY <2>2, <2>5, <2>6 DEF PlaceOK, Serves, y
    <3>4. \A d \in Ctxs : WaitOK(d)'
      BY <1>1, <2>2, <2>4, <2>5 DEF ContextsOK, ContextOK, WaitOK, y
    <3> QED BY <3>1, <3>2, <3>3, <3>4 DEF ContextsOK, ContextOK
  <2>9. SlotsOK'
    <3>1. \A j \in DOMAIN poll : j # k /\ j \in DOMAIN poll'
      BY <2>2
    <3>2. \A j \in DOMAIN poll' : j = k \/ j \in DOMAIN poll
      BY <2>2
    <3>3. k \in DOMAIN poll' /\ poll'[k].ctx = c /\ poll'[k].fd = c
      BY <2>2
    <3>4. \A j \in DOMAIN poll : poll[j].ctx # c
      BY <2>4 DEF SlotsOK
    <3> HIDE DEF k
    <3>5. \A d \in Ctxs : "USED" \in ctxs'[d].flags =>
            ctxs'[d].i \in DOMAIN poll' /\ poll'[ctxs'[d].i].ctx = d /\ ctxs'[d].serv \in Ports
      BY <2>2, <2>3, <2>5, <3>1, <3>3 DEF SlotsOK, y
    <3>6. \A j \in DOMAIN poll' : poll'[j].ctx \in Ctxs =>
            "USED" \in ctxs'[poll'[j].ctx].flags /\ ctxs'[poll'[j].ctx].i = j
      BY <2>2, <2>5, <2>6, <3>2, <3>3, <3>4 DEF SlotsOK, y
    <3>7. \A j \in DOMAIN poll' : poll'[j].fd # poll'[j].ctx => poll'[j].fd = Nothing /\ ev'.terminate
      BY <1>1, <2>2, <3>2, <3>3 DEF SlotsOK
    <3> QED BY <3>5, <3>6, <3>7 DEF SlotsOK
  <2>10. PortsOK'
    <3>1. \A d \in Ctxs : d # c => Allocated(d)' = Allocated(d)
      BY <2>2 DEF Allocated
    <3> QED BY <2>2, <2>4, <2>5, <3>1 DEF PortsOK, y
  <2>11. CountsOK'
    BY <2>2, <2>3, <2>4, <2>5, <2>6 DEF CountsOK, y
  <2>12. DebuggersOK' /\ VisitOK' /\ EndOK'
    <3>1. DebuggersOK'
      BY <2>2, <2>5, DebuggersKept DEF y
    <3>2. VisitOK' /\ EndOK'
      BY <1>1, <2>2, VisitElsewhere, EndKept DEF Over
    <3> QED BY <3>1, <3>2
  <2> QED BY <2>2, <2>7, <2>8, <2>9, <2>10, <2>11, <2>12
<1> QED BY <1>2, <1>3, <1>4, AcceptsCases

---------------------------------------------------------------------------
(* Steps at one context                                                     *)

LEMMA OneContext ==
  ASSUME Base, NEW c \in Ctxs, NEW y \in Context, ctxs' = [ctxs EXCEPT ![c] = y],
         Tame(ctxs[c], y), TameSlots,
         y.state = "ATTACHED" => y.debug # None /\ y.pid = y.debug,
         "SELECTED" \in y.flags => y.pid \in Pids,
         \/ y.debug = ctxs[c].debug \/ y.debug = None
         \/ ~Debugged(y.debug) /\ "USED" \in y.flags
  PROVE  /\ CtxTypes' /\ ctxs'[c] = y /\ \A d \in Ctxs : d # c => ctxs'[d] = ctxs[d]
         /\ (\A d \in Ctxs : OwnOK(d)') /\ SlotsOK' /\ PortsOK' /\ CountsOK' /\ DebuggersOK'
<1> USE DEF Base
<1>1. CtxTypes' /\ ctxs'[c] = y /\ \A d \in Ctxs : d # c => ctxs'[d] = ctxs[d]
  BY CtxUpdate DEF Typed
<1>2. OwnOK(c)'
  BY <1>1 DEF ContextsOK, ContextOK, OwnOK, Allocated, Tame
<1>3. \A d \in Ctxs : d # c => OwnOK(d)'
  BY <1>1 DEF ContextsOK, ContextOK, OwnOK, Allocated
<1>4. SlotsOK' /\ PortsOK' /\ CountsOK'
  <2>1. \A d \in Ctxs : Tame(ctxs[d], ctxs'[d])
    BY <1>1, TameSame
  <2> QED BY <2>1, TameTables
<1>5. DebuggersOK'
  <2>1. CASE y.debug = ctxs[c].debug \/ y.debug = None
    BY <1>1, <2>1, DebuggersKept
  <2>2. CASE ~Debugged(y.debug)
    BY <1>1, <2>2, DebuggerTaken
  <2> QED BY <2>1, <2>2
<1> QED BY <1>1, <1>2, <1>3, <1>4, <1>5

(* While the monitor waits, and when it has been woken, every debug handle  *)
(* that is to be waited for is there.                                       *)
LEMMA WaitAwake ==
  ASSUME ContextsOK, NEW c \in Ctxs, mon.pc \notin {"top", "leave", "gone", "call"}
  PROVE  ~(ctxs[c].eventToWaitFor = "debug" /\ ctxs[c].debug = None)
BY DEF ContextsOK, ContextOK, WaitOK

LEMMA AttachingFacts ==
  ASSUME Base, NEW c \in Ctxs, NEW p \in Pids, Attaching(c, p)
  PROVE  /\ proc' \in [Pids -> Process] /\ proc'[p] = [st |-> "stopped", event |-> "none"]
         /\ \A q \in Pids : q # p => proc'[q] = proc[q]
         /\ mon' \in MonitorState /\ (mon'.pc = "event" => mon'.c \in Ctxs)
         /\ \/ ~Asleep(c, "attached") /\ mon' = mon
            \/ Asleep(c, "attached") /\ Wakes(c) /\ mon.pc = "asleep" /\ mon'.pc = "event"
<1> USE DEF Base
<1>1. [st |-> "stopped", event |-> "none"] \in Process
  BY DEF Process
<1>2. /\ proc' \in [Pids -> Process] /\ proc'[p] = [st |-> "stopped", event |-> "none"]
      /\ \A q \in Pids : q # p => proc'[q] = proc[q]
  BY <1>1 DEF Attaching, Typed
<1>3. CASE Asleep(c, "attached")
  BY <1>2, <1>3, WakesFacts DEF Attaching, Asleep
<1>4. CASE ~Asleep(c, "attached")
  BY <1>2, <1>4 DEF Attaching, RestOK
<1> QED BY <1>3, <1>4

LEMMA AcceptClientFacts ==
  ASSUME Base, AcceptClient
  PROVE  /\ UNCHANGED <<shouldClose, backlog, ev, poll, compact_needed, n, menu, use>>
         /\ srv.pc = "accepted" /\ srv.c \in Ctxs
         /\ \/ "SELECTED" \notin ctxs[srv.c].flags /\ NextSlot /\ UNCHANGED <<ctxs, proc, mon, line>>
            \/ /\ "SELECTED" \in ctxs[srv.c].flags /\ ctxs[srv.c].pid \in Pids
               /\ Attachable(ctxs[srv.c].pid)
               /\ ctxs' = [ctxs EXCEPT ![srv.c] = AttachToProcess(ctxs[srv.c], ctxs[srv.c].pid)]
               /\ Attaching(srv.c, ctxs[srv.c].pid) /\ Tell(srv.c, "stopped") /\ NextSlot
            \/ /\ "SELECTED" \in ctxs[srv.c].flags
               /\ AttachFails \/ ~Attachable(ctxs[srv.c].pid)
               /\ CloseCtx(srv.c) /\ UNCHANGED <<ctxs, proc, mon, line>>
<1> USE DEF Base
<1>1. /\ UNCHANGED <<shouldClose, backlog, ev, poll, compact_needed, n, menu, use>>
      /\ srv.pc = "accepted" /\ srv.c \in Ctxs
  BY DEF AcceptClient, At, tables, RestOK, Serving
<1>2. "SELECTED" \in ctxs[srv.c].flags => ctxs[srv.c].pid \in Pids
  BY <1>1 DEF ContextsOK, ContextOK, OwnOK
<1>3. CASE "SELECTED" \notin ctxs[srv.c].flags
  BY <1>1, <1>3 DEF AcceptClient
<1>4. CASE "SELECTED" \in ctxs[srv.c].flags
  <2>1. PICK ok \in {Attachable(ctxs[srv.c].pid)} \cup (IF AttachFails THEN {FALSE} ELSE {}) :
              IF ok
              THEN /\ ctxs' = [ctxs EXCEPT ![srv.c] = AttachToProcess(ctxs[srv.c], ctxs[srv.c].pid)]
                   /\ Attaching(srv.c, ctxs[srv.c].pid) /\ Tell(srv.c, "stopped") /\ NextSlot
              ELSE CloseCtx(srv.c) /\ UNCHANGED <<ctxs, proc, mon, line>>
    BY <1>4 DEF AcceptClient
  <2>2. (ok = TRUE /\ Attachable(ctxs[srv.c].pid)) \/ (ok = FALSE /\ (AttachFails \/ ~Attachable(ctxs[srv.c].pid)))
    <3>1. Attachable(ctxs[srv.c].pid) \in BOOLEAN
      BY DEF Attachable
    <3> HIDE DEF Base
    <3> QED BY <2>1, <3>1, Zenon
  <2> QED BY <1>1, <1>2, <1>4, <2>1, <2>2
<1> QED BY <1>3, <1>4

LEMMA AcceptClientBase ==
  ASSUME Base, AcceptClient
  PROVE  Base'
<1> USE DEF Base
<1> DEFINE c == srv.c
           p == ctxs[c].pid
<1>1. /\ UNCHANGED <<shouldClose, backlog, ev, poll, compact_needed, n, menu, use>>
      /\ srv.pc = "accepted" /\ c \in Ctxs
  BY AcceptClientFacts
<1>2. srv.i \in Nat /\ srv.i > 0 /\ ctxs[c] \in Context /\ ctxs[c].debug = None /\ "USED" \in ctxs[c].flags
  BY <1>1 DEF RestOK, ServerState, Typed, CtxTypes, ContextsOK, ContextOK, PlaceOK, Serves, Serving
<1>3. CASE "SELECTED" \notin ctxs[c].flags /\ NextSlot /\ UNCHANGED <<ctxs, proc, mon, line>>
  <2>1. srv' \in ServerState /\ srv'.pc = "visit" /\ srv'.c = Nothing /\ srv'.i > 0
    BY <1>2, <1>3, NextSlotFacts DEF RestOK
  <2>2. Typed' /\ RestOK'
    BY <1>1, <1>3, <2>1, SlotNames DEF Typed, CtxTypes, RestOK, Serving
  <2>3. ContextsOK'
    BY <1>1, <1>3, <2>1 DEF ContextsOK, ContextOK, OwnOK, PacketOK, PlaceOK, WaitOK, Allocated, Serves, Serving
  <2>4. SlotsOK' /\ PortsOK' /\ CountsOK'
    BY <1>1, <1>3, SlotsSame, TameSame, TameTables
  <2>5. DebuggersOK' /\ VisitOK' /\ EndOK'
    BY <1>1, <1>3, <2>1, DebuggersKept, VisitElsewhere, EndKept DEF Over
  <2> QED BY <2>2, <2>3, <2>4, <2>5
<1>4. CASE CloseCtx(c) /\ UNCHANGED <<ctxs, proc, mon, line>>
  <2>1. srv' \in ServerState /\ srv'.pc = "close" /\ srv'.c = c /\ srv'.i = srv.i
    BY <1>1, <1>4, CloseCtxFacts DEF RestOK
  <2>2. Typed' /\ RestOK'
    BY <1>1, <1>2, <1>4, <2>1, SlotNames DEF Typed, CtxTypes, RestOK, Serving, Nothing
  <2>3. ContextsOK'
    BY <1>1, <1>2, <1>4, <2>1 DEF ContextsOK, ContextOK, OwnOK, PacketOK, PlaceOK, WaitOK, Allocated, Serves, Serving
  <2>4. SlotsOK' /\ PortsOK' /\ CountsOK'
    BY <1>1, <1>4, SlotsSame, TameSame, TameTables
  <2>5. DebuggersOK' /\ VisitOK' /\ EndOK'
    <3>1. ~(srv'.c < 0)
      BY <1>1, <2>1, SlotNames, GdbAssumption DEF Ctxs
    <3> QED BY <1>1, <1>4, <2>1, <3>1, DebuggersKept, VisitElsewhere, EndKept DEF Over
  <2> QED BY <2>2, <2>3, <2>4, <2>5
<1>5. CASE /\ "SELECTED" \in ctxs[c].flags /\ p \in Pids /\ Attachable(p)
           /\ ctxs' = [ctxs EXCEPT ![c] = AttachToProcess(ctxs[c], p)]
           /\ Attaching(c, p) /\ Tell(c, "stopped") /\ NextSlot
  <2>1. srv' \in ServerState /\ srv'.pc = "visit" /\ srv'.c = Nothing /\ srv'.i > 0
    BY <1>2, <1>5, NextSlotFacts DEF RestOK
  <2> DEFINE y == AttachToProcess(ctxs[c], p)
  <2>2. /\ y \in Context /\ y.flags = ctxs[c].flags /\ y.state = "ATTACHED" /\ y.pid = p /\ y.debug = p
        /\ Tame(ctxs[c], y) /\ p # None
    BY <1>2, <1>5, AttachFacts, GdbAssumption DEF Tame
  <2>3. ctxs' = [ctxs EXCEPT ![c] = y] /\ ~Debugged(p)
    BY <1>5 DEF Attachable
  <2> HIDE DEF y
  <2>4. TameSlots
    BY <1>1, SlotsSame
  <2>5. /\ CtxTypes' /\ ctxs'[c] = y /\ \A d \in Ctxs : d # c => ctxs'[d] = ctxs[d]
        /\ (\A d \in Ctxs : OwnOK(d)') /\ SlotsOK' /\ PortsOK' /\ CountsOK' /\ DebuggersOK'
    <3>1. ~Debugged(y.debug) /\ "USED" \in y.flags /\ y.debug # None /\ y.pid \in Pids
      BY <1>2, <1>5, <2>2, <2>3
    <3> QED BY <1>1, <2>2, <2>3, <2>4, <3>1, OneContext
  <2>6. /\ proc' \in [Pids -> Process] /\ mon' \in MonitorState /\ (mon'.pc = "event" => mon'.c \in Ctxs)
        /\ \/ mon' = mon
           \/ mon.pc = "asleep" /\ mon'.pc = "event"
    BY <1>1, <1>5, AttachingFacts
  <2>7. line' \in [Ctxs -> Connection] /\ \A d \in Ctxs : line'[d].pkt = line[d].pkt
    BY <1>1, <1>5, TellFacts DEF Typed
  <2>8. Typed' /\ RestOK'
    BY <1>1, <2>1, <2>5, <2>6, <2>7 DEF Typed, RestOK, Serving
  <2>9. ContextsOK'
    <3>1. \A d \in Ctxs : PacketOK(d)'
      BY <2>7 DEF PacketOK, ContextsOK, ContextOK
    <3>2. \A d \in Ctxs : PlaceOK(d)'
      BY <2>1 DEF PlaceOK, Serves, Serving
    <3>3. \A d \in Ctxs : WaitOK(d)'
      BY <2>2, <2>5, <2>6 DEF WaitOK, ContextsOK, ContextOK
    <3> QED BY <2>5, <3>1, <3>2, <3>3 DEF ContextsOK, ContextOK
  <2>10. VisitOK' /\ EndOK'
    BY <1>1, <2>1, VisitElsewhere, EndKept DEF Over
  <2> QED BY <2>5, <2>8, <2>9, <2>10
<1> QED BY <1>3, <1>4, <1>5, AcceptClientFacts

LEMMA ClosesFacts ==
  ASSUME Base, ServerCloses
  PROVE  /\ UNCHANGED <<shouldClose, proc, line, backlog, poll, n, menu, use>>
         /\ compact_needed' = TRUE /\ srv.pc = "close"
         /\ \/ srv.c < 0 /\ To("closed") /\ UNCHANGED <<ctxs, ev, mon>>
            \/ /\ srv.c \in Ctxs /\ ctxs' = [ctxs EXCEPT ![srv.c] = Resets(ctxs[srv.c])]
               /\ SignalStatusUpdated(FALSE) /\ To("closing")
<1> USE DEF Base
<1>1. /\ UNCHANGED <<shouldClose, proc, line, backlog, poll, n, menu, use>>
      /\ compact_needed' = TRUE /\ srv.pc = "close"
  BY DEF ServerCloses, At, connections
<1>2. srv.c < 0 \/ srv.c \in Ctxs
  <2>1. srv.c \in (-NPorts) .. MAX_DEBUG /\ srv.c # 0 /\ MAX_DEBUG \in Nat /\ NPorts \in Nat
    BY <1>1, GdbAssumption DEF RestOK, ServerState, Nothing
  <2> QED BY <2>1 DEF Ctxs
<1>3. CASE srv.c < 0
  BY <1>1, <1>3 DEF ServerCloses
<1>4. CASE srv.c \in Ctxs
  <2>1. ~(srv.c < 0)
    BY <1>4, GdbAssumption DEF Ctxs
  <2> QED BY <1>1, <1>4, <2>1 DEF ServerCloses
<1> QED BY <1>2, <1>3, <1>4

LEMMA ClosesBase ==
  ASSUME Base, ServerCloses
  PROVE  Base'
<1> USE DEF Base
<1> DEFINE c == srv.c
<1>1. /\ UNCHANGED <<shouldClose, proc, line, backlog, poll, n, menu, use>>
      /\ compact_needed' = TRUE /\ srv.pc = "close"
  BY ClosesFacts
<1>2. srv.i \in Nat /\ srv.i > 0
  BY <1>1 DEF RestOK, ServerState
<1>3. CASE c < 0 /\ To("closed") /\ UNCHANGED <<ctxs, ev, mon>>
  <2>1. srv' \in ServerState /\ srv'.pc = "closed" /\ srv'.i = srv.i /\ srv'.c = c
    BY <1>3, ToFacts DEF RestOK, SrvPlaces
  <2>2. Typed' /\ RestOK'
    BY <1>1, <1>2, <1>3, <2>1, SlotNames DEF Typed, CtxTypes, RestOK, Serving, Nothing
  <2>3. ContextsOK'
    <3>1. \A d \in Ctxs : ~(srv'.c = d)
      BY <1>3, <2>1, GdbAssumption DEF Ctxs
    <3> QED BY <1>1, <1>3, <2>1, <3>1 DEF ContextsOK, ContextOK, OwnOK, PacketOK, PlaceOK, WaitOK, Allocated, Serves, Serving
  <2>4. SlotsOK' /\ PortsOK' /\ CountsOK'
    BY <1>1, <1>3, SlotsSame, TameSame, TameTables
  <2>5. DebuggersOK' /\ EndOK'
    BY <1>1, <1>3, <2>1, DebuggersKept, EndKept DEF Over
  <2>6. VisitOK'
    BY <1>1, <1>3, <2>1 DEF VisitOK
  <2> QED BY <2>2, <2>3, <2>4, <2>5, <2>6
<1>4. CASE /\ c \in Ctxs /\ ctxs' = [ctxs EXCEPT ![c] = Resets(ctxs[c])]
           /\ SignalStatusUpdated(FALSE) /\ To("closing")
  <2>1. srv' \in ServerState /\ srv'.pc = "closing" /\ srv'.i = srv.i /\ srv'.c = c
    BY <1>4, ToFacts DEF RestOK, SrvPlaces
  <2> DEFINE y == Resets(ctxs[c])
  <2>2. ctxs[c] \in Context /\ "USED" \in ctxs[c].flags
    BY <1>1, <1>4 DEF Typed, CtxTypes, ContextsOK, ContextOK, PlaceOK, Serves
  <2>3. /\ y \in Context /\ y.flags = ctxs[c].flags /\ y.state = ctxs[c].state /\ y.pid = ctxs[c].pid
        /\ y.debug = ctxs[c].debug /\ Tame(ctxs[c], y) /\ y.eventToWaitFor = "attached"
    BY <2>2, ResetsFacts DEF Tame
  <2>4. ctxs' = [ctxs EXCEPT ![c] = y]
    BY <1>4
  <2> HIDE DEF y
  <2>5. /\ mon' \in MonitorState /\ ev' \in Events /\ ev'.terminate = ev.terminate
        /\ \/ mon.pc = "asleep" /\ mon'.pc = "ack"
           \/ mon' = mon
    BY <1>4, UpdatedFacts DEF RestOK
  <2>6. TameSlots
    BY <1>1, <2>5, SlotsSame
  <2>7. /\ CtxTypes' /\ ctxs'[c] = y /\ \A d \in Ctxs : d # c => ctxs'[d] = ctxs[d]
        /\ (\A d \in Ctxs : OwnOK(d)') /\ SlotsOK' /\ PortsOK' /\ CountsOK' /\ DebuggersOK'
    <3>1. OwnOK(c)
      BY <1>4 DEF ContextsOK, ContextOK
    <3> QED BY <1>4, <2>3, <2>4, <2>6, <3>1, OneContext DEF OwnOK
  <2>8. Typed' /\ RestOK'
    BY <1>1, <1>2, <1>4, <2>1, <2>5, <2>7 DEF Typed, RestOK, Serving
  <2>9. ContextsOK'
    <3>1. \A d \in Ctxs : PacketOK(d)'
      BY <1>1 DEF PacketOK, ContextsOK, ContextOK
    <3>2. \A d \in Ctxs : PlaceOK(d)'
      BY <2>1, <2>2, <2>3, <2>7 DEF PlaceOK, Serves, Serving
    <3>3. \A d \in Ctxs : WaitOK(d)'
      BY <2>3, <2>5, <2>7 DEF WaitOK, ContextsOK, ContextOK
    <3> QED BY <2>7, <3>1, <3>2, <3>3 DEF ContextsOK, ContextOK
  <2>10. VisitOK' /\ EndOK'
    BY <1>1, <2>1, <2>5, VisitElsewhere, EndKept DEF Over
  <2> QED BY <2>7, <2>8, <2>9, <2>10
<1> QED BY <1>3, <1>4, ClosesFacts

LEMMA AnswerBase ==
  ASSUME Base, ServerAsks \/ ServerIsAnswered
  PROVE  Base'
<1> USE DEF Base
<1>1. /\ UNCHANGED <<ctxs, shouldClose, proc, line, backlog, ev, mon, poll, compact_needed, n, menu, use>>
      /\ srv.pc \in {"closing", "waiting"}
  BY DEF ServerAsks, ServerIsAnswered, At, connections, tables
<1>2. PICK pc \in {"waiting", "closed"} : To(pc)
  BY DEF ServerAsks, ServerIsAnswered
<1>3. srv' \in ServerState /\ srv'.pc = pc /\ srv'.i = srv.i /\ srv'.c = srv.c
  BY <1>2, ToFacts DEF RestOK, SrvPlaces
<1>4. srv.c \in Ctxs /\ ~(srv.c < 0) /\ srv.c # Nothing /\ srv.i > 0
  BY <1>1, SlotNames, GdbAssumption DEF RestOK, Serving, Ctxs, Nothing
<1>5. Typed' /\ RestOK'
  BY <1>1, <1>3, <1>4 DEF Typed, CtxTypes, RestOK, Serving
<1>6. ContextsOK'
  BY <1>1, <1>3 DEF ContextsOK, ContextOK, OwnOK, PacketOK, PlaceOK, WaitOK, Allocated, Serves, Serving
<1>7. SlotsOK' /\ PortsOK' /\ CountsOK'
  BY <1>1, SlotsSame, TameSame, TameTables
<1>8. DebuggersOK' /\ VisitOK' /\ EndOK'
  BY <1>1, <1>3, <1>4, DebuggersKept, VisitElsewhere, EndKept DEF Over
<1> QED BY <1>5, <1>6, <1>7, <1>8

(* The slot of a closed connection is emptied.                              *)
LEMMA ClosedFactsOfServer ==
  ASSUME Base, ServerClosed
  PROVE  /\ UNCHANGED <<backlog, ev, mon, compact_needed, menu, use>> /\ srv.pc = "closed"
         /\ shouldClose' = shouldClose \ {srv.c}
         /\ srv' \in ServerState /\ srv'.pc = "visit" /\ srv'.c = Nothing /\ srv'.i = srv.i + 1 /\ srv.i \in Nat
         /\ \/ /\ srv.c < 0 /\ UNCHANGED <<ctxs, proc, n, line>> /\ srv.i \in DOMAIN poll
               /\ poll[srv.i].ctx = srv.c
               /\ poll' = [poll EXCEPT ![srv.i] = Unused]
            \/ /\ srv.c \in Ctxs /\ "USED" \in ctxs[srv.c].flags
               /\ ctxs' = [ctxs EXCEPT ![srv.c] = Closed(ctxs[srv.c])]
               /\ proc' = ClosedProc(proc, ctxs[srv.c])
               /\ ctxs[srv.c].serv \in Ports
               /\ n' = [n EXCEPT ![ctxs[srv.c].serv] = n[ctxs[srv.c].serv] - 1]
               /\ line' = [line EXCEPT ![srv.c] = NoLine]
               /\ ctxs[srv.c].i \in DOMAIN poll /\ poll[ctxs[srv.c].i].ctx = srv.c
               /\ poll' = [poll EXCEPT ![ctxs[srv.c].i] = Unused]
<1> USE DEF Base
<1>1. /\ UNCHANGED <<backlog, ev, mon, compact_needed, menu, use>> /\ srv.pc = "closed"
      /\ shouldClose' = shouldClose \ {srv.c}
  BY DEF ServerClosed, At
<1>2. srv' \in ServerState /\ srv'.pc = "visit" /\ srv'.c = Nothing /\ srv'.i = srv.i + 1 /\ srv.i \in Nat
  BY NextSlotFacts DEF ServerClosed, RestOK, ServerState
<1>3. srv.c < 0 \/ srv.c \in Ctxs
  <2>1. srv.c \in (-NPorts) .. MAX_DEBUG /\ srv.c # 0 /\ MAX_DEBUG \in Nat /\ NPorts \in Nat
    BY <1>1, GdbAssumption DEF RestOK, ServerState, Nothing
  <2> QED BY <2>1 DEF Ctxs
<1>4. CASE srv.c < 0
  BY <1>1, <1>2, <1>4 DEF ServerClosed, VisitOK
<1>5. CASE srv.c \in Ctxs
  <2>1. ~(srv.c < 0)
    BY <1>5, GdbAssumption DEF Ctxs
  <2>2. "USED" \in ctxs[srv.c].flags
    BY <1>1, <1>5 DEF ContextsOK, ContextOK, PlaceOK, Serves
  <2>3. /\ ctxs[srv.c].serv \in Ports /\ ctxs[srv.c].i \in DOMAIN poll /\ poll[ctxs[srv.c].i].ctx = srv.c
    BY <1>5, <2>2 DEF SlotsOK
  <2> QED BY <1>1, <1>2, <1>5, <2>1, <2>2, <2>3 DEF ServerClosed
<1> QED BY <1>3, <1>4, <1>5

LEMMA ReleasedFacts ==
  ASSUME proc \in [Pids -> Process], NEW x \in Context
  PROVE  /\ Released(proc, x) \in [Pids -> Process]
         /\ \A q \in Pids : q # x.debug => Released(proc, x)[q] = proc[q]
         /\ x.debug \in Pids => /\ Released(proc, x)[x.debug].event = "none"
                                /\ Released(proc, x)[x.debug].st \in {"dead", "running"}
<1>1. None \notin Pids
  BY GdbAssumption
<1>2. CASE x.debug = None
  BY <1>1, <1>2 DEF Released
<1>3. CASE x.debug # None
  <2>1. x.debug \in Pids
    BY <1>3 DEF Context
  <2> DEFINE s == IF proc[x.debug].st = "dead" \/ "TERMINATE_PROCESS" \in x.flags THEN "dead" ELSE "running"
             v == [event |-> "none", st |-> s]
  <2>2. Released(proc, x) = [proc EXCEPT ![x.debug] = v]
    BY <1>3, Zenon DEF Released
  <2>3. v \in Process /\ v.event = "none" /\ v.st \in {"dead", "running"}
    BY DEF Process
  <2> HIDE DEF v
  <2> QED BY <2>1, <2>2, <2>3
<1> QED BY <1>2, <1>3

LEMMA ClosedProcFacts ==
  ASSUME proc \in [Pids -> Process], NEW x \in Context
  PROVE  /\ ClosedProc(proc, x) \in [Pids -> Process]
         /\ \A q \in Pids : q # x.debug => ClosedProc(proc, x)[q] = proc[q]
         /\ x.debug \in Pids => /\ ClosedProc(proc, x)[x.debug].event = "none"
                                /\ ClosedProc(proc, x)[x.debug].st \in {"dead", "running"}
<1>1. x.debug \in Pids => MustDetach(x)
  BY GdbAssumption DEF MustDetach
<1> QED BY <1>1, ReleasedFacts DEF ClosedProc

LEMMA ClosedBase ==
  ASSUME Base, ServerClosed
  PROVE  Base'
<1> USE DEF Base
<1> DEFINE c == srv.c
<1>1. /\ UNCHANGED <<backlog, ev, mon, compact_needed, menu, use>> /\ srv.pc = "closed"
      /\ shouldClose' = shouldClose \ {c}
      /\ srv' \in ServerState /\ srv'.pc = "visit" /\ srv'.c = Nothing /\ srv'.i = srv.i + 1 /\ srv.i \in Nat
  BY ClosedFactsOfServer
<1>2. VisitOK' /\ EndOK'
  BY <1>1, VisitElsewhere, EndKept DEF Over
<1>3. \A d \in Ctxs : PlaceOK(d)'
  BY <1>1 DEF PlaceOK, Serves, Serving
<1>4. ASSUME NEW k \in DOMAIN poll, poll' = [poll EXCEPT ![k] = Unused]
      PROVE  /\ poll' \in Seq(Slot) /\ Len(poll') = Len(poll) /\ DOMAIN poll' = DOMAIN poll
             /\ poll'[k] = Unused /\ \A j \in DOMAIN poll : j # k => poll'[j] = poll[j]
  <2>1. poll \in Seq(Slot) /\ Unused \in Slot
    BY UnusedType DEF Typed
  <2>2. poll' \in [DOMAIN poll -> Slot]
    BY <1>4, <2>1
  <2> QED BY <1>4, <2>1, <2>2, Mapped
<1>5. RestOK'
  <2>1. srv'.i > 0
    BY <1>1
  <2>2. shouldClose' \subseteq (-NPorts) .. MAX_DEBUG
    BY <1>1 DEF RestOK
  <2> QED BY <1>1, <2>1, <2>2 DEF RestOK, Serving
<1>6. Nothing \notin Ctxs
  BY SlotNames DEF Ctxs, Nothing
<1>7. CASE /\ c < 0 /\ UNCHANGED <<ctxs, proc, n, line>> /\ srv.i \in DOMAIN poll
           /\ poll[srv.i].ctx = c
           /\ poll' = [poll EXCEPT ![srv.i] = Unused]
  <2>1. /\ poll' \in Seq(Slot) /\ Len(poll') = Len(poll) /\ DOMAIN poll' = DOMAIN poll
        /\ poll'[srv.i] = Unused /\ \A j \in DOMAIN poll : j # srv.i => poll'[j] = poll[j]
    BY <1>4, <1>7
  <2>2. c \notin Ctxs
    BY <1>7, SlotNames, GdbAssumption DEF Ctxs
  <2>3. Typed'
    BY <1>7, <2>1 DEF Typed, CtxTypes
  <2>4. ContextsOK'
    BY <1>1, <1>3, <1>7 DEF ContextsOK, ContextOK, OwnOK, PacketOK, WaitOK, Allocated
  <2>5. SlotsOK'
    BY <1>1, <1>7, <1>6, <2>1, <2>2, UnusedType DEF SlotsOK
  <2>6. PortsOK' /\ CountsOK' /\ DebuggersOK'
    BY <1>7 DEF PortsOK, CountsOK, DebuggersOK, Allocated
  <2> QED BY <1>2, <1>5, <2>3, <2>4, <2>5, <2>6
<1>8. CASE /\ c \in Ctxs /\ "USED" \in ctxs[c].flags
           /\ ctxs' = [ctxs EXCEPT ![c] = Closed(ctxs[c])]
           /\ proc' = ClosedProc(proc, ctxs[c])
           /\ ctxs[c].serv \in Ports
           /\ n' = [n EXCEPT ![ctxs[c].serv] = n[ctxs[c].serv] - 1]
           /\ line' = [line EXCEPT ![c] = NoLine]
           /\ ctxs[c].i \in DOMAIN poll /\ poll[ctxs[c].i].ctx = c
           /\ poll' = [poll EXCEPT ![ctxs[c].i] = Unused]
  <2> DEFINE x == ctxs[c]
             y == Closed(x)
  <2>1. x \in Context
    BY <1>8 DEF Typed, CtxTypes
  <2>2. /\ y \in Context /\ y.flags = {} /\ y.state = "DISCONNECTED" /\ y.localPort = Nothing
        /\ y.debug = None /\ y.eventToWaitFor = IF MustDetach(x) THEN "attached" ELSE x.eventToWaitFor
    BY <2>1, ClosedFacts
  <2>3. CtxTypes' /\ ctxs'[c] = y /\ \A d \in Ctxs : d # c => ctxs'[d] = ctxs[d]
    <3>1. ctxs' = [ctxs EXCEPT ![c] = y]
      BY <1>8
    <3> QED BY <1>8, <2>2, <3>1, CtxUpdate DEF Typed
  <2>4. /\ poll' \in Seq(Slot) /\ Len(poll') = Len(poll) /\ DOMAIN poll' = DOMAIN poll
        /\ poll'[x.i] = Unused /\ \A j \in DOMAIN poll : j # x.i => poll'[j] = poll[j]
    BY <1>4, <1>8
  <2>5. n[x.serv] = 1 /\ n' \in [Ports -> {0, 1}] /\ n'[x.serv] = 0 /\ \A q \in Ports : q # x.serv => n'[q] = n[q]
    <3>1. n[x.serv] = 1
      BY <1>8 DEF CountsOK
    <3> QED BY <1>8, <3>1 DEF Typed
  <2>6. proc' \in [Pids -> Process]
    BY <1>8, <2>1, ClosedProcFacts DEF Typed
  <2>7. line' \in [Ctxs -> Connection] /\ line'[c] = NoLine /\ \A d \in Ctxs : d # c => line'[d] = line[d]
    BY <1>8, NoLineType DEF Typed
  <2>8. Typed'
    BY <1>5, <2>3, <2>4, <2>5, <2>6, <2>7 DEF Typed
  <2> HIDE DEF y
  <2>9. ContextsOK'
    <3>1. \A d \in Ctxs : OwnOK(d)'
      BY <2>2, <2>3 DEF OwnOK, Allocated, ContextsOK, ContextOK
    <3>2. \A d \in Ctxs : PacketOK(d)'
      BY <2>7 DEF PacketOK, ContextsOK, ContextOK, NoLine, NoPacket
    <3>3. \A d \in Ctxs : WaitOK(d)'
      <4>1. \A d \in Ctxs : d = c => WaitOK(d)'
        <5>1. MustDetach(x) \/ x.debug = None
          BY DEF MustDetach
        <5>2. WaitOK(c) /\ mon' = mon
          BY <1>1, <1>8 DEF ContextsOK, ContextOK
        <5> QED BY <2>2, <2>3, <5>1, <5>2 DEF WaitOK
      <4>2. \A d \in Ctxs : d # c => WaitOK(d)'
        BY <1>1, <2>3 DEF WaitOK, ContextsOK, ContextOK
      <4> QED BY <4>1, <4>2
    <3> QED BY <1>3, <3>1, <3>2, <3>3 DEF ContextsOK, ContextOK
  <2>10. SlotsOK'
    <3>1. \A d \in Ctxs : "USED" \in ctxs'[d].flags =>
            ctxs'[d].i \in DOMAIN poll' /\ poll'[ctxs'[d].i].ctx = d /\ ctxs'[d].serv \in Ports
      BY <1>8, <2>2, <2>3, <2>4 DEF SlotsOK
    <3>2. \A j \in DOMAIN poll' : poll'[j].ctx \in Ctxs =>
            "USED" \in ctxs'[poll'[j].ctx].flags /\ ctxs'[poll'[j].ctx].i = j
      <4>1. Nothing \notin Ctxs
        BY SlotNames DEF Ctxs, Nothing
      <4>2. \A j \in DOMAIN poll : j # x.i => poll[j].ctx # c
        BY <1>8 DEF SlotsOK
      <4> QED BY <2>3, <2>4, <4>1, <4>2, UnusedType DEF SlotsOK
    <3>3. \A j \in DOMAIN poll' : poll'[j].fd # poll'[j].ctx => poll'[j].fd = Nothing /\ ev'.terminate
      BY <1>1, <2>4, UnusedType DEF SlotsOK
    <3> QED BY <3>1, <3>2, <3>3 DEF SlotsOK
  <2>11. PortsOK'
    BY <2>2, <2>3 DEF PortsOK, Allocated
  <2>12. CountsOK'
    BY <1>8, <2>2, <2>3, <2>5 DEF CountsOK
  <2>13. DebuggersOK'
    BY <2>2, <2>3, DebuggersKept
  <2> QED BY <1>2, <1>5, <2>8, <2>9, <2>10, <2>11, <2>12, <2>13
<1> QED BY <1>7, <1>8, ClosedFactsOfServer

---------------------------------------------------------------------------
(* Packets                                                                  *)

LEMMA FinishedFacts ==
  ASSUME Base, NEW c \in Ctxs, srv.c = c, srv.pc \in {"data", "detaching"}, NEW x \in Context, Finished(c, x)
  PROVE  \E y \in Context :
           /\ ctxs' = [ctxs EXCEPT ![c] = y]
           /\ y.flags = x.flags /\ y.localPort = x.localPort /\ y.pid = x.pid /\ y.debug = x.debug
           /\ y.eventToWaitFor = x.eventToWaitFor /\ y.attached = x.attached /\ y.continued = x.continued
           /\ y.i = x.i /\ y.serv = x.serv
           /\ srv' \in ServerState
           /\ \/ /\ srv'.pc = "visit" /\ srv'.i = srv.i + 1 /\ srv'.i > 0 /\ srv'.c = Nothing
                 /\ \/ x.state # "DETACHING" /\ y.state = x.state
                    \/ x.state = "DETACHING" /\ "EXTENDED_REMOTE" \in x.flags /\ y.state = "CONNECTED"
              \/ /\ srv'.pc = "close" /\ srv'.i = srv.i /\ srv'.c = c
                 /\ x.state = "DETACHING" /\ "EXTENDED_REMOTE" \notin x.flags /\ y.state = "DETACHING"
<1> USE DEF Base
<1>1. srv \in ServerState /\ srv.i \in Nat
  BY DEF RestOK, ServerState
<1>2. NextSlot => srv' \in ServerState /\ srv'.pc = "visit" /\ srv'.i = srv.i + 1 /\ srv'.i > 0 /\ srv'.c = Nothing
  BY <1>1, NextSlotFacts
<1>3. CloseCtx(c) => srv' \in ServerState /\ srv'.pc = "close" /\ srv'.i = srv.i /\ srv'.c = c
  BY <1>1, CloseCtxFacts
<1>4. CASE x.state # "DETACHING"
  BY <1>2, <1>4 DEF Finished
<1>5. CASE x.state = "DETACHING" /\ "EXTENDED_REMOTE" \in x.flags
  <2> DEFINE y == [x EXCEPT !.state = "CONNECTED"]
  <2>1. NextSlot /\ ctxs' = [ctxs EXCEPT ![c] = y]
    BY <1>5 DEF Finished
  <2>2. /\ y \in Context /\ y.state = "CONNECTED"
        /\ y.flags = x.flags /\ y.localPort = x.localPort /\ y.pid = x.pid /\ y.debug = x.debug
        /\ y.eventToWaitFor = x.eventToWaitFor /\ y.attached = x.attached /\ y.continued = x.continued
        /\ y.i = x.i /\ y.serv = x.serv
    BY DEF Context
  <2> HIDE DEF y
  <2> QED BY <1>2, <1>5, <2>1, <2>2
<1>6. CASE x.state = "DETACHING" /\ "EXTENDED_REMOTE" \notin x.flags
  BY <1>3, <1>6 DEF Finished
<1> QED BY <1>4, <1>5, <1>6

(* What the handlers of packets do to the rest of the system                *)
Around ==
  /\ UNCHANGED <<poll, n, shouldClose, backlog, compact_needed, menu, use>>
  /\ proc' \in [Pids -> Process] /\ line' \in [Ctxs -> Connection] /\ (\A d \in Ctxs : PacketOK(d)')
  /\ mon' \in MonitorState /\ (mon'.pc = "event" => mon'.c \in Ctxs)
  /\ ev' \in Events /\ ev'.terminate = ev.terminate
  /\ mon' = mon \/ mon.pc = "asleep"

(* What they do to the context, apart from its state                        *)
HandlesRest(c, x) ==
  /\ x \in Context /\ Tame(ctxs[c], x)
  /\ "SELECTED" \in x.flags => x.pid \in Pids
  /\ x.debug = ctxs[c].debug \/ x.debug = None \/ (~Debugged(x.debug) /\ "USED" \in x.flags)
  /\ x.eventToWaitFor = "debug" /\ x.debug = None => ctxs[c].eventToWaitFor = "debug" /\ ctxs[c].debug = None
Handles(c, x) == HandlesRest(c, x) /\ (x.state = "ATTACHED" => x.debug # None /\ x.pid = x.debug)

LEMMA HandledBase ==
  ASSUME Base, NEW c \in Ctxs, srv.c = c, srv.pc \in {"data", "detaching"}, Around,
         NEW y, Handles(c, y), ctxs' = [ctxs EXCEPT ![c] = y],
         srv' \in ServerState, srv'.i > 0,
         \/ srv'.pc = "visit"
         \/ srv'.pc = "close" /\ srv'.c = c
         \/ srv'.pc = "detaching" /\ srv'.c = c /\ y.state = "DETACHING"
  PROVE  Base'
<1> USE DEF Base
<1>1. TameSlots
  BY SlotsSame DEF Around
<1>2. /\ CtxTypes' /\ ctxs'[c] = y /\ \A d \in Ctxs : d # c => ctxs'[d] = ctxs[d]
      /\ (\A d \in Ctxs : OwnOK(d)') /\ SlotsOK' /\ PortsOK' /\ CountsOK' /\ DebuggersOK'
  BY <1>1, OneContext DEF Handles, HandlesRest
<1>3. "USED" \in y.flags
  BY DEF ContextsOK, ContextOK, PlaceOK, Serves, Serving, Handles, HandlesRest, Tame
<1>4. c > 0 /\ ~(c < 0) /\ c # Nothing
  BY SlotNames, GdbAssumption DEF Ctxs, Nothing
<1>5. Typed'
  BY <1>2 DEF Typed, Around
<1>6. RestOK'
  BY <1>4 DEF RestOK, Around, Serving
<1>7. ContextsOK'
  <2>1. \A d \in Ctxs : PlaceOK(d)'
    BY <1>2, <1>3 DEF PlaceOK, Serves, Serving
  <2>2. \A d \in Ctxs : WaitOK(d)'
    BY <1>2 DEF WaitOK, ContextsOK, ContextOK, Around, Handles, HandlesRest
  <2> QED BY <1>2, <2>1, <2>2 DEF ContextsOK, ContextOK, Around
<1>8. VisitOK' /\ EndOK'
  BY <1>4, VisitElsewhere, EndKept DEF Over, Around
<1> QED BY <1>2, <1>5, <1>6, <1>7, <1>8

LEMMA FinishedBase ==
  ASSUME Base, NEW c \in Ctxs, srv.c = c, srv.pc \in {"data", "detaching"}, Around,
         NEW x, Handles(c, x), Finished(c, x)
  PROVE  Base'
<1>1. x \in Context
  BY DEF Handles, HandlesRest
<1>2. PICK y \in Context :
           /\ ctxs' = [ctxs EXCEPT ![c] = y]
           /\ y.flags = x.flags /\ y.localPort = x.localPort /\ y.pid = x.pid /\ y.debug = x.debug
           /\ y.eventToWaitFor = x.eventToWaitFor /\ y.attached = x.attached /\ y.continued = x.continued
           /\ y.i = x.i /\ y.serv = x.serv
           /\ srv' \in ServerState
           /\ \/ /\ srv'.pc = "visit" /\ srv'.i = srv.i + 1 /\ srv'.i > 0 /\ srv'.c = Nothing
                 /\ \/ x.state # "DETACHING" /\ y.state = x.state
                    \/ x.state = "DETACHING" /\ "EXTENDED_REMOTE" \in x.flags /\ y.state = "CONNECTED"
              \/ /\ srv'.pc = "close" /\ srv'.i = srv.i /\ srv'.c = c
                 /\ x.state = "DETACHING" /\ "EXTENDED_REMOTE" \notin x.flags /\ y.state = "DETACHING"
  BY <1>1, FinishedFacts
<1>3. Handles(c, y)
  BY <1>2 DEF Handles, HandlesRest, Tame
<1>4. srv'.i > 0
  BY <1>2 DEF Base, RestOK
<1> QED BY <1>2, <1>3, <1>4, HandledBase

LEMMA DetachingBase ==
  ASSUME Base, NEW c \in Ctxs, srv.c = c, srv.pc = "data", NEW x, HandlesRest(c, x),
         Detaching(c, x), UNCHANGED <<poll, n, shouldClose, backlog, compact_needed, menu, use>>,
         line' \in [Ctxs -> Connection], \A d \in Ctxs : PacketOK(d)'
  PROVE  Base'
<1> DEFINE w == [x EXCEPT !.state = "DETACHING"]
           y == Resets(w)
<1>1. ctxs' = [ctxs EXCEPT ![c] = y] /\ SignalStatusUpdated(FALSE) /\ To("detaching") /\ UNCHANGED proc
  BY DEF Detaching
<1>2. /\ w \in Context /\ w.state = "DETACHING"
      /\ w.flags = x.flags /\ w.localPort = x.localPort /\ w.pid = x.pid /\ w.debug = x.debug
      /\ w.eventToWaitFor = x.eventToWaitFor /\ w.i = x.i /\ w.serv = x.serv
  BY DEF HandlesRest, Context
<1> HIDE DEF w
<1>3. /\ y \in Context /\ y.state = "DETACHING"
      /\ y.flags = x.flags /\ y.localPort = x.localPort /\ y.pid = x.pid /\ y.debug = x.debug
      /\ y.eventToWaitFor = "attached" /\ y.i = x.i /\ y.serv = x.serv
  BY <1>2, ResetsFacts
<1> HIDE DEF y
<1>4. Handles(c, y)
  BY <1>3 DEF Handles, HandlesRest, Tame
<1>5. /\ mon' \in MonitorState /\ ev' \in Events /\ ev'.terminate = ev.terminate
      /\ \/ mon.pc = "asleep" /\ mon'.pc = "ack"
         \/ mon' = mon
  BY <1>1, UpdatedFacts DEF Base, RestOK
<1>6. srv' \in ServerState /\ srv'.pc = "detaching" /\ srv'.c = c /\ srv'.i > 0
  BY <1>1, ToFacts DEF Base, RestOK, SrvPlaces
<1>7. Around
  BY <1>1, <1>5 DEF Around, Base, Typed, RestOK
<1> QED BY <1>1, <1>3, <1>4, <1>6, <1>7, HandledBase

LEMMA PacketFacts ==
  ASSUME Base, DoPacket
  PROVE  LET c == srv.c
             pkt == line[c].pkt
         IN  /\ c \in Ctxs /\ srv.pc = "data" /\ pkt \in Packet /\ (pkt.cmd = "vAttach" => pkt.pid \in Pids)
             /\ UNCHANGED <<shouldClose, backlog, poll, compact_needed, n, menu, use>>
             /\ (MonitorFirst /\ "EXTENDED_REMOTE" \in ctxs[c].flags /\ pkt.cmd \in {"D", "k", "vAttach"}
                  => Idle \/ mon.pc = "gone")
             /\ line' \in [Ctxs -> Connection] /\ line'[c].st = line[c].st /\ line'[c].pkt = NoPacket
             /\ line'[c].view = IF pkt.cmd = "vAttach" /\ Attachable(pkt.pid) THEN "stopped"
                                ELSE IF pkt.cmd \in {"D", "k", "vAttach"} THEN "none" ELSE line[c].view
             /\ \A d \in Ctxs : d # c => line'[d] = line[d]
             /\ \A d \in Ctxs : PacketOK(d)'
             /\ \/ pkt.cmd = "c" /\ Continue(c)
                \/ pkt.cmd = "brk" /\ Break(c)
                \/ pkt.cmd = "D" /\ EndSession(c, {})
                \/ pkt.cmd = "k" /\ EndSession(c, {"TERMINATE_PROCESS"})
                \/ pkt.cmd = "!" /\ EnableExtendedMode(c)
                \/ pkt.cmd = "vAttach" /\ VerboseAttach(c, pkt.pid)
                \/ pkt.cmd = "none" /\ CloseCtx(c) /\ UNCHANGED <<ctxs, proc, ev, mon>>
<1> USE DEF Base
<1> DEFINE c == srv.c
           pkt == line[c].pkt
           view == IF pkt.cmd = "vAttach" /\ Attachable(pkt.pid) THEN "stopped"
                   ELSE IF pkt.cmd \in {"D", "k", "vAttach"} THEN "none" ELSE line[c].view
<1>1. srv.pc = "data" /\ UNCHANGED <<shouldClose, backlog, poll, compact_needed, n, menu, use>>
  BY DEF DoPacket, At, tables
<1>2. c \in Ctxs
  BY <1>1 DEF RestOK, Serving
<1>3. pkt \in Packet /\ line \in [Ctxs -> Connection] /\ (pkt.cmd = "vAttach" => pkt.pid \in Pids)
  BY <1>2 DEF Typed, Connection, ContextsOK, ContextOK, PacketOK
<1>4. line' = [line EXCEPT ![c].pkt = NoPacket, ![c].view = view]
  BY Zenon DEF DoPacket
<1>5. view \in {"none", "stopped", "running", "breaking", "exited"}
  BY <1>2, <1>3 DEF Connection
<1>6. /\ line' \in [Ctxs -> Connection] /\ line'[c].st = line[c].st /\ line'[c].pkt = NoPacket
      /\ line'[c].view = view /\ \A d \in Ctxs : d # c => line'[d] = line[d]
  <2> HIDE DEF view, c
  <2> QED BY <1>2, <1>3, <1>4, <1>5, NoLineType DEF Connection
<1>7. \A d \in Ctxs : PacketOK(d)'
  <2>1. \A d \in Ctxs : d = c \/ PacketOK(d)'
    BY <1>6 DEF PacketOK, ContextsOK, ContextOK
  <2>2. \A d \in Ctxs : d = c => PacketOK(d)'
    BY <1>6 DEF PacketOK, NoPacket
  <2> QED BY <2>1, <2>2
<1>8. \/ pkt.cmd = "c" /\ Continue(c)
      \/ pkt.cmd = "brk" /\ Break(c)
      \/ pkt.cmd = "D" /\ EndSession(c, {})
      \/ pkt.cmd = "k" /\ EndSession(c, {"TERMINATE_PROCESS"})
      \/ pkt.cmd = "!" /\ EnableExtendedMode(c)
      \/ pkt.cmd = "vAttach" /\ VerboseAttach(c, pkt.pid)
      \/ pkt.cmd = "none" /\ CloseCtx(c) /\ UNCHANGED <<ctxs, proc, ev, mon>>
  <2>1. pkt.cmd \in {"c", "brk", "D", "k", "!", "vAttach", "none"}
    BY <1>3 DEF Packet, Commands
  <2> QED BY <2>1 DEF DoPacket
<1>9. MonitorFirst /\ "EXTENDED_REMOTE" \in ctxs[c].flags /\ pkt.cmd \in {"D", "k", "vAttach"}
        => Idle \/ mon.pc = "gone"
  BY DEF DoPacket
<1> QED BY <1>1, <1>2, <1>3, <1>6, <1>7, <1>8, <1>9

LEMMA ContinueFacts ==
  ASSUME Base, NEW c \in Ctxs, srv.c = c, srv.pc = "data", Continue(c)
  PROVE  \E x : /\ Finished(c, x) /\ Handles(c, x)
                /\ x.flags = ctxs[c].flags \cup {"PROCESS_CONTINUING"} /\ x.state = ctxs[c].state
                /\ x.debug = ctxs[c].debug /\ x.eventToWaitFor = ctxs[c].eventToWaitFor
                /\ x.attached = ctxs[c].attached
                /\ proc' \in [Pids -> Process] /\ (\A p \in Pids : p # ctxs[c].debug => proc'[p] = proc[p])
                /\ \A p \in Pids : p = ctxs[c].debug =>
                     /\ proc'[p].event = proc[p].event
                     /\ proc'[p].st = IF proc[p] = [st |-> "stopped", event |-> "none"] THEN "running" ELSE proc[p].st
                /\ mon' \in MonitorState /\ (mon'.pc = "event" => mon'.c \in Ctxs) /\ ev' = ev
                /\ mon' = mon \/ (mon.pc = "asleep" /\ mon.handles[c] = "continued" /\ Wakes(c))
<1> USE DEF Base
<1> DEFINE x == ctxs[c]
           b == x.continued \/ (MustSignal(x) /\ ~Asleep(c, "continued"))
           y == [x EXCEPT !.flags = x.flags \cup {"PROCESS_CONTINUING"}, !.continued = b]
<1>1. x \in Context /\ b \in BOOLEAN /\ OwnOK(c)
  BY DEF Typed, CtxTypes, Context, MustSignal, Asleep, ContextsOK, ContextOK
<1>2. Finished(c, y)
  BY DEF Continue
<1> HIDE DEF b
<1>3. /\ y \in Context /\ y.flags = x.flags \cup {"PROCESS_CONTINUING"} /\ y.state = x.state
      /\ y.debug = x.debug /\ y.pid = x.pid /\ y.eventToWaitFor = x.eventToWaitFor /\ y.attached = x.attached
      /\ Tame(x, y)
  BY <1>1 DEF Context, Tame
<1> HIDE DEF y
<1>4. Handles(c, y)
  BY <1>1, <1>3 DEF Handles, HandlesRest, OwnOK
<1>5. /\ proc' \in [Pids -> Process] /\ \A p \in Pids : p # x.debug => proc'[p] = proc[p]
      /\ \A p \in Pids : p = x.debug =>
                     /\ proc'[p].event = proc[p].event
                     /\ proc'[p].st = IF proc[p] = [st |-> "stopped", event |-> "none"] THEN "running" ELSE proc[p].st
  <2> DEFINE d == x.debug
             s == IF proc[d].st = "stopped" /\ proc[d].event = "none" THEN "running" ELSE proc[d].st
  <2>1. proc' = [proc EXCEPT ![d].st = s] /\ proc \in [Pids -> Process]
    BY DEF Continue, Typed
  <2>2. d \in Pids => s \in {"running", "stopped", "dead"}
    BY <2>1 DEF Process
  <2>3. \A p \in Pids : proc[p] = [st |-> "stopped", event |-> "none"] <=> proc[p].st = "stopped" /\ proc[p].event = "none"
    BY <2>1 DEF Process
  <2>4. d \in Pids => s = IF proc[d] = [st |-> "stopped", event |-> "none"] THEN "running" ELSE proc[d].st
    BY <2>3
  <2> HIDE DEF d, s
  <2>5. /\ proc' \in [Pids -> Process] /\ \A p \in Pids : p # d => proc'[p] = proc[p]
        /\ \A p \in Pids : p = d => proc'[p].event = proc[p].event /\ proc'[p].st = s
    BY <2>1, <2>2 DEF Process
  <2> QED BY <2>4, <2>5 DEF d
<1>6. /\ mon' \in MonitorState /\ (mon'.pc = "event" => mon'.c \in Ctxs) /\ ev' = ev
      /\ mon' = mon \/ (mon.pc = "asleep" /\ mon.handles[c] = "continued" /\ Wakes(c))
  <2>1. CASE MustSignal(x) /\ Asleep(c, "continued")
    BY <2>1, WakesFacts DEF Continue, Asleep
  <2>2. CASE ~(MustSignal(x) /\ Asleep(c, "continued"))
    BY <2>2 DEF Continue, RestOK
  <2> QED BY <2>1, <2>2
<1> QED BY <1>2, <1>3, <1>4, <1>5, <1>6

LEMMA BreakFacts ==
  ASSUME Base, NEW c \in Ctxs, srv.c = c, srv.pc = "data", Break(c)
  PROVE  \E x : /\ Finished(c, x) /\ Handles(c, x)
                /\ x.flags \cup {"PROCESS_CONTINUING"} = ctxs[c].flags \cup {"PROCESS_CONTINUING"}
                /\ x.state = ctxs[c].state
                /\ x.debug = ctxs[c].debug /\ x.eventToWaitFor = ctxs[c].eventToWaitFor
                /\ x.attached = ctxs[c].attached
                /\ proc' \in [Pids -> Process] /\ (\A p \in Pids : p # ctxs[c].debug => proc'[p] = proc[p])
                /\ \A p \in Pids : p = ctxs[c].debug =>
                     \/ proc'[p] = proc[p]
                     \/ proc[p].st = "running" /\ proc'[p] = [st |-> "stopped", event |-> "stop"]
                /\ mon' \in MonitorState /\ (mon'.pc = "event" => mon'.c \in Ctxs) /\ ev' = ev
                /\ mon' = mon \/ (mon.pc = "asleep" /\ mon.handles[c] = ctxs[c].debug /\ Wakes(c))
<1> USE DEF Base
<1> DEFINE x == ctxs[c]
           breaks == "PROCESS_CONTINUING" \in x.flags /\ proc[x.debug].st = "running"
           f == IF breaks THEN x.flags \ {"PROCESS_CONTINUING"} ELSE x.flags
           y == [x EXCEPT !.flags = f]
<1>1. x \in Context /\ OwnOK(c)
  BY DEF Typed, CtxTypes, ContextsOK, ContextOK
<1>2. Finished(c, y)
  BY DEF Break
<1>3. /\ f \in SUBSET Flags /\ f \cup {"PROCESS_CONTINUING"} = x.flags \cup {"PROCESS_CONTINUING"}
      /\ \A g : g # "PROCESS_CONTINUING" => (g \in f <=> g \in x.flags)
  BY <1>1 DEF Context, Flags
<1> HIDE DEF f
<1>4. /\ y \in Context /\ y.flags = f /\ y.state = x.state
      /\ y.debug = x.debug /\ y.pid = x.pid /\ y.eventToWaitFor = x.eventToWaitFor /\ y.attached = x.attached
      /\ Tame(x, y)
  BY <1>1, <1>3 DEF Context, Tame, Flags
<1> HIDE DEF y
<1>5. Handles(c, y)
  BY <1>1, <1>3, <1>4 DEF Handles, HandlesRest, OwnOK
<1>6. CASE ~breaks
  <2>1. UNCHANGED <<proc, mon, ev>>
    BY <1>6 DEF Break
  <2> QED BY <1>2, <1>3, <1>4, <1>5, <2>1 DEF Typed, RestOK
<1>7. CASE breaks
  <2> DEFINE v == [st |-> "stopped", event |-> "stop"]
  <2>1. proc' = [proc EXCEPT ![x.debug] = v] /\ proc \in [Pids -> Process] /\ ev' = ev
    BY <1>7 DEF Break, Typed
  <2>2. v \in Process /\ proc[x.debug].st = "running"
    BY <1>7 DEF Process
  <2> HIDE DEF v
  <2>3. /\ proc' \in [Pids -> Process] /\ (\A p \in Pids : p # ctxs[c].debug => proc'[p] = proc[p])
        /\ \A p \in Pids : p = ctxs[c].debug => proc[p].st = "running" /\ proc'[p] = v
    BY <2>1, <2>2
  <2>4. /\ mon' \in MonitorState /\ (mon'.pc = "event" => mon'.c \in Ctxs)
        /\ mon' = mon \/ (mon.pc = "asleep" /\ mon.handles[c] = ctxs[c].debug /\ Wakes(c))
    <3>1. CASE Asleep(c, x.debug)
      BY <1>7, <3>1, WakesFacts DEF Break, Asleep
    <3>2. CASE ~Asleep(c, x.debug)
      BY <1>7, <3>2 DEF Break, RestOK
    <3> QED BY <3>1, <3>2
  <2> HIDE DEF breaks
  <2> QED BY <1>2, <1>3, <1>4, <1>5, <2>1, <2>3, <2>4 DEF v
<1> QED BY <1>6, <1>7

LEMMA EndSessionFacts ==
  ASSUME Base, NEW c \in Ctxs, srv.c = c, srv.pc = "data", NEW fl \in SUBSET {"TERMINATE_PROCESS"}, EndSession(c, fl)
  PROVE  \E x : /\ Handles(c, x) /\ x.flags = ctxs[c].flags \cup fl /\ x.state = "DETACHING"
                /\ x.debug = ctxs[c].debug /\ x.eventToWaitFor = ctxs[c].eventToWaitFor
                /\ x.attached = ctxs[c].attached
                /\ \/ "EXTENDED_REMOTE" \in ctxs[c].flags /\ Detaching(c, x)
                   \/ "EXTENDED_REMOTE" \notin ctxs[c].flags /\ Finished(c, x) /\ UNCHANGED <<proc, ev, mon>>
<1> USE DEF Base
<1> DEFINE x == ctxs[c]
           y == [x EXCEPT !.state = "DETACHING", !.flags = x.flags \cup fl]
<1>1. x \in Context /\ OwnOK(c)
  BY DEF Typed, CtxTypes, ContextsOK, ContextOK
<1>2. IF "EXTENDED_REMOTE" \in y.flags THEN Detaching(c, y)
      ELSE Finished(c, y) /\ UNCHANGED <<proc, ev, mon>>
  BY DEF EndSession
<1>3. x.flags \cup fl \in SUBSET Flags
  BY <1>1 DEF Context, Flags
<1>4. /\ y \in Context /\ y.flags = x.flags \cup fl /\ y.state = "DETACHING"
      /\ y.debug = x.debug /\ y.pid = x.pid /\ y.eventToWaitFor = x.eventToWaitFor /\ y.attached = x.attached
      /\ y.localPort = x.localPort /\ y.i = x.i /\ y.serv = x.serv
  BY <1>1, <1>3 DEF Context, Flags
<1> HIDE DEF y
<1>5. /\ Tame(x, y)
      /\ "SELECTED" \in y.flags <=> "SELECTED" \in x.flags
      /\ "EXTENDED_REMOTE" \in y.flags <=> "EXTENDED_REMOTE" \in x.flags
  BY <1>4 DEF Tame
<1>6. Handles(c, y)
  BY <1>1, <1>4, <1>5 DEF Handles, HandlesRest, OwnOK
<1> QED BY <1>2, <1>4, <1>5, <1>6

LEMMA VerboseAttachFacts ==
  ASSUME Base, NEW c \in Ctxs, srv.c = c, srv.pc = "data", NEW p \in Pids, VerboseAttach(c, p)
  PROVE  \E x : /\ x.flags = ctxs[c].flags /\ x.pid = p
                /\ \/ /\ Attachable(p) /\ Handles(c, x) /\ Finished(c, x) /\ Attaching(c, p) /\ ev' = ev
                      /\ x.debug = p /\ x.state = "ATTACHED" /\ x.eventToWaitFor = ctxs[c].eventToWaitFor
                      /\ x.attached = ~Asleep(c, "attached")
                   \/ /\ ~Attachable(p) /\ HandlesRest(c, x) /\ Detaching(c, x)
                      /\ x.debug = ctxs[c].debug /\ x.state = ctxs[c].state
                      /\ x.eventToWaitFor = ctxs[c].eventToWaitFor /\ x.attached = ctxs[c].attached
<1> USE DEF Base
<1> DEFINE x == ctxs[c]
           z == [x EXCEPT !.pid = p]
           y == AttachToProcess(z, p)
<1>1. x \in Context /\ "USED" \in x.flags /\ p # None
  BY GdbAssumption DEF Typed, CtxTypes, ContextsOK, ContextOK, PlaceOK, Serves, Serving
<1>2. /\ z \in Context /\ z.flags = x.flags /\ z.state = x.state
      /\ z.debug = x.debug /\ z.pid = p /\ z.eventToWaitFor = x.eventToWaitFor /\ z.attached = x.attached
      /\ Tame(x, z)
  BY <1>1 DEF Context, Tame
<1>3. CASE Attachable(p)
  <2>1. Finished(c, y) /\ Attaching(c, p) /\ ev' = ev
    BY <1>3 DEF VerboseAttach
  <2> HIDE DEF z
  <2>2. /\ y \in Context /\ y.flags = x.flags /\ y.state = "ATTACHED" /\ y.pid = p /\ y.debug = p
        /\ y.eventToWaitFor = x.eventToWaitFor /\ y.attached = ~Asleep(c, "attached") /\ Tame(x, y)
    BY <1>2, AttachFacts DEF Tame
  <2> HIDE DEF y
  <2>3. Handles(c, y)
    BY <1>1, <1>3, <2>2 DEF Handles, HandlesRest, Attachable
  <2> QED BY <1>3, <2>1, <2>2, <2>3
<1>4. CASE ~Attachable(p)
  <2>1. Detaching(c, z)
    BY <1>4 DEF VerboseAttach
  <2> HIDE DEF z
  <2>2. HandlesRest(c, z)
    BY <1>2 DEF HandlesRest
  <2> QED BY <1>2, <1>4, <2>1, <2>2
<1> QED BY <1>3, <1>4

LEMMA ExtendedFacts ==
  ASSUME Base, NEW c \in Ctxs, srv.c = c, srv.pc = "data", EnableExtendedMode(c)
  PROVE  \E x : /\ Finished(c, x) /\ Handles(c, x) /\ UNCHANGED <<proc, ev, mon>>
                /\ x.flags = ctxs[c].flags \cup {"EXTENDED_REMOTE"} /\ x.state = ctxs[c].state
                /\ x.debug = ctxs[c].debug /\ x.eventToWaitFor = ctxs[c].eventToWaitFor
                /\ x.attached = ctxs[c].attached
<1> USE DEF Base
<1> DEFINE x == ctxs[c]
           y == [x EXCEPT !.flags = x.flags \cup {"EXTENDED_REMOTE"}]
<1>1. x \in Context /\ OwnOK(c)
  BY DEF Typed, CtxTypes, ContextsOK, ContextOK
<1>2. Finished(c, y) /\ UNCHANGED <<proc, ev, mon>>
  BY DEF EnableExtendedMode
<1>3. /\ y \in Context /\ y.flags = x.flags \cup {"EXTENDED_REMOTE"} /\ y.state = x.state
      /\ y.debug = x.debug /\ y.pid = x.pid /\ y.eventToWaitFor = x.eventToWaitFor /\ y.attached = x.attached
      /\ Tame(x, y)
  BY <1>1 DEF Context, Tame
<1> HIDE DEF y
<1>4. Handles(c, y)
  BY <1>1, <1>3 DEF Handles, HandlesRest, OwnOK
<1> QED BY <1>2, <1>3, <1>4

LEMMA PacketBase ==
  ASSUME Base, DoPacket
  PROVE  Base'
<1>0. PICK c : c = srv.c
  OBVIOUS
<1> DEFINE pkt == line[c].pkt
<1>1. /\ c \in Ctxs /\ srv.c = c /\ srv.pc = "data" /\ (pkt.cmd = "vAttach" => pkt.pid \in Pids)
      /\ UNCHANGED <<shouldClose, backlog, poll, compact_needed, n, menu, use>>
      /\ line' \in [Ctxs -> Connection] /\ \A d \in Ctxs : PacketOK(d)'
  BY <1>0, PacketFacts
<1>2. \/ pkt.cmd = "c" /\ Continue(c)
      \/ pkt.cmd = "brk" /\ Break(c)
      \/ pkt.cmd = "D" /\ EndSession(c, {})
      \/ pkt.cmd = "k" /\ EndSession(c, {"TERMINATE_PROCESS"})
      \/ pkt.cmd = "!" /\ EnableExtendedMode(c)
      \/ pkt.cmd = "vAttach" /\ VerboseAttach(c, pkt.pid)
      \/ pkt.cmd = "none" /\ CloseCtx(c) /\ UNCHANGED <<ctxs, proc, ev, mon>>
  BY <1>0, PacketFacts
<1> HIDE DEF pkt
<1>3. /\ proc \in [Pids -> Process] /\ mon \in MonitorState /\ (mon.pc = "event" => mon.c \in Ctxs)
      /\ ev \in Events /\ ev.terminate \in BOOLEAN
  BY DEF Base, Typed, RestOK, Events
<1>4. CASE Continue(c)
  <2>1. PICK x : /\ Finished(c, x) /\ Handles(c, x) /\ proc' \in [Pids -> Process]
                 /\ mon' \in MonitorState /\ (mon'.pc = "event" => mon'.c \in Ctxs) /\ ev' = ev
                 /\ mon' = mon \/ mon.pc = "asleep"
    BY <1>1, <1>4, ContinueFacts
  <2>2. Around
    BY <1>1, <1>3, <2>1 DEF Around
  <2> QED BY <1>1, <2>1, <2>2, FinishedBase
<1>5. CASE Break(c)
  <2>1. PICK x : /\ Finished(c, x) /\ Handles(c, x) /\ proc' \in [Pids -> Process]
                 /\ mon' \in MonitorState /\ (mon'.pc = "event" => mon'.c \in Ctxs) /\ ev' = ev
                 /\ mon' = mon \/ mon.pc = "asleep"
    BY <1>1, <1>5, BreakFacts
  <2>2. Around
    BY <1>1, <1>3, <2>1 DEF Around
  <2> QED BY <1>1, <2>1, <2>2, FinishedBase
<1>6. CASE EndSession(c, {}) \/ EndSession(c, {"TERMINATE_PROCESS"})
  <2>1. PICK fl \in SUBSET {"TERMINATE_PROCESS"} : EndSession(c, fl)
    BY <1>6
  <2>2. PICK x : /\ Handles(c, x)
                 /\ Detaching(c, x) \/ (Finished(c, x) /\ UNCHANGED <<proc, ev, mon>>)
    BY <1>1, <2>1, EndSessionFacts
  <2>3. CASE Detaching(c, x)
    BY <1>1, <2>2, <2>3, DetachingBase DEF Handles
  <2>4. CASE Finished(c, x) /\ UNCHANGED <<proc, ev, mon>>
    <3>1. Around
      BY <1>1, <1>3, <2>4 DEF Around
    <3> QED BY <1>1, <2>2, <2>4, <3>1, FinishedBase
  <2> QED BY <2>2, <2>3, <2>4
<1>7. CASE EnableExtendedMode(c)
  <2>1. PICK x : Finished(c, x) /\ Handles(c, x) /\ UNCHANGED <<proc, ev, mon>>
    BY <1>1, <1>7, ExtendedFacts
  <2>2. Around
    BY <1>1, <1>3, <2>1 DEF Around
  <2> QED BY <1>1, <2>1, <2>2, FinishedBase
<1>8. CASE pkt.cmd = "vAttach" /\ VerboseAttach(c, pkt.pid)
  <2>1. pkt.pid \in Pids
    BY <1>1, <1>8
  <2>2. PICK x : \/ Handles(c, x) /\ Finished(c, x) /\ Attaching(c, pkt.pid) /\ ev' = ev
                 \/ HandlesRest(c, x) /\ Detaching(c, x)
    BY <1>1, <1>8, <2>1, VerboseAttachFacts
  <2>3. CASE HandlesRest(c, x) /\ Detaching(c, x)
    BY <1>1, <2>3, DetachingBase
  <2>4. CASE Handles(c, x) /\ Finished(c, x) /\ Attaching(c, pkt.pid) /\ ev' = ev
    <3>1. /\ proc' \in [Pids -> Process] /\ mon' \in MonitorState /\ (mon'.pc = "event" => mon'.c \in Ctxs)
          /\ mon' = mon \/ mon.pc = "asleep"
      BY <1>1, <2>1, <2>4, AttachingFacts
    <3>2. Around
      BY <1>1, <1>3, <2>4, <3>1 DEF Around
    <3> QED BY <1>1, <2>4, <3>2, FinishedBase
  <2> QED BY <2>2, <2>3, <2>4
<1>9. CASE CloseCtx(c) /\ UNCHANGED <<ctxs, proc, ev, mon>>
  <2>1. srv' \in ServerState /\ srv'.pc = "close" /\ srv'.i = srv.i /\ srv'.c = c /\ srv'.i > 0
    <3>1. srv \in ServerState /\ srv.i > 0
      BY <1>1 DEF Base, RestOK
    <3> QED BY <1>1, <1>9, <3>1, CloseCtxFacts
  <2>2. Around
    BY <1>1, <1>3, <1>9 DEF Around
  <2>3. Handles(c, ctxs[c]) /\ ctxs' = [ctxs EXCEPT ![c] = ctxs[c]]
    BY <1>1, <1>9, TameSame DEF Handles, HandlesRest, Base, Typed, CtxTypes, ContextsOK, ContextOK, OwnOK
  <2> QED BY <1>1, <2>1, <2>2, <2>3, HandledBase
<1> QED BY <1>2, <1>4, <1>5, <1>6, <1>7, <1>8, <1>9

LEMMA DetachesFacts ==
  ASSUME Base, ServerDetaches
  PROVE  LET c == srv.c
             x == Kept(Detached(ctxs[c]))
         IN  /\ c \in Ctxs /\ srv.pc = "detaching" /\ ev.received
             /\ UNCHANGED <<shouldClose, line, backlog, ev, mon, poll, compact_needed, n, menu, use>>
             /\ proc' = Released(proc, ctxs[c])
             /\ x \in Context /\ x.flags = ctxs[c].flags \cap {"EXTENDED_REMOTE", "USED"}
             /\ x.state = "DETACHING" /\ x.debug = None /\ x.pid = None /\ x.eventToWaitFor = "attached"
             /\ x.attached = ctxs[c].attached
             /\ Handles(c, x) /\ Finished(c, x)
<1> USE DEF Base
<1> DEFINE c == srv.c
           x == Kept(Detached(ctxs[c]))
<1>1. /\ srv.pc = "detaching" /\ ev.received /\ proc' = Released(proc, ctxs[c]) /\ Finished(c, x)
      /\ UNCHANGED <<shouldClose, line, backlog, ev, mon, poll, compact_needed, n, menu, use>>
  BY DEF ServerDetaches, At, connections, tables
<1>2. c \in Ctxs /\ ctxs[c] \in Context /\ ctxs[c].state = "DETACHING" /\ "USED" \in ctxs[c].flags
  BY <1>1 DEF RestOK, Serving, Typed, CtxTypes, ContextsOK, ContextOK, PlaceOK, Serves
<1>3. /\ x \in Context /\ x.flags = ctxs[c].flags \cap {"EXTENDED_REMOTE", "USED"}
      /\ x.state = "DETACHING" /\ x.debug = None /\ x.pid = None /\ x.eventToWaitFor = "attached"
      /\ x.localPort = ctxs[c].localPort /\ x.i = ctxs[c].i /\ x.serv = ctxs[c].serv
      /\ x.attached = ctxs[c].attached
  BY <1>2, DetachedFacts, KeptFacts
<1> HIDE DEF x
<1>4. Handles(c, x)
  BY <1>2, <1>3 DEF Handles, HandlesRest, Tame
<1> QED BY <1>1, <1>2, <1>3, <1>4 DEF x

LEMMA DetachesBase ==
  ASSUME Base, ServerDetaches
  PROVE  Base'
<1>0. PICK c : c = srv.c
  OBVIOUS
<1>1. /\ c \in Ctxs /\ srv.c = c /\ srv.pc = "detaching" /\ proc' = Released(proc, ctxs[c])
      /\ UNCHANGED <<shouldClose, line, backlog, ev, mon, poll, compact_needed, n, menu, use>>
  BY <1>0, DetachesFacts
<1>2. PICK x : Handles(c, x) /\ Finished(c, x)
  BY <1>0, DetachesFacts
<1>3. proc' \in [Pids -> Process]
  BY <1>1, ReleasedFacts DEF Base, Typed, CtxTypes
<1>4. Around
  BY <1>1, <1>3 DEF Around, Base, Typed, RestOK, ContextsOK, ContextOK, PacketOK
<1> QED BY <1>1, <1>2, <1>4, FinishedBase

---------------------------------------------------------------------------
(* The end                                                                  *)

LEMMA KillFacts ==
  ASSUME Base, KillConnections
  PROVE  /\ poll' \in Seq(Slot) /\ Len(poll') = Len(poll) /\ DOMAIN poll' = DOMAIN poll
         /\ \A k \in DOMAIN poll : /\ poll'[k].fd = Nothing /\ poll'[k].ctx = poll[k].ctx
                                   /\ poll'[k].revents = poll[k].revents
         /\ shouldClose' \subseteq (-NPorts) .. MAX_DEBUG
         /\ line' \in [Ctxs -> Connection] /\ (\A c \in Ctxs : PacketOK(c)')
         /\ \A c \in Ctxs : line'[c] = NoLine \/ line'[c] = line[c]
         /\ \A k \in DOMAIN poll : poll[k].fd \in Ctxs => line'[poll[k].fd] = NoLine
<1> USE DEF Base
<1>1. poll' = [k \in DOMAIN poll |-> [poll[k] EXCEPT !.fd = Nothing]]
  BY DEF KillConnections, Killed
<1>2. poll \in Seq(Slot) /\ \A k \in DOMAIN poll : poll[k] \in Slot
  BY DEF Typed
<1>3. \A k \in DOMAIN poll : /\ poll'[k] \in Slot /\ poll'[k].fd = Nothing /\ poll'[k].ctx = poll[k].ctx
                             /\ poll'[k].revents = poll[k].revents
  <2> SUFFICES ASSUME NEW k \in DOMAIN poll
               PROVE  /\ poll'[k] \in Slot /\ poll'[k].fd = Nothing /\ poll'[k].ctx = poll[k].ctx
                      /\ poll'[k].revents = poll[k].revents
    OBVIOUS
  <2> DEFINE s == poll[k]
             t == poll'[k]
  <2>1. s \in Slot /\ t = [s EXCEPT !.fd = Nothing] /\ Nothing \in (-NPorts) .. MAX_DEBUG
    BY <1>1, <1>2, SlotNames
  <2> HIDE DEF s, t
  <2>2. t \in Slot /\ t.fd = Nothing /\ t.ctx = s.ctx /\ t.revents = s.revents
    BY <2>1 DEF Slot
  <2> QED BY <2>2 DEF s, t
<1>4. poll' \in [DOMAIN poll -> Slot]
  BY <1>1, <1>3, Zenon
<1>5. poll' \in Seq(Slot) /\ Len(poll') = Len(poll) /\ DOMAIN poll' = DOMAIN poll
  BY <1>2, <1>4, Mapped
<1>6. shouldClose' \subseteq (-NPorts) .. MAX_DEBUG
  <2>1. \A k \in DOMAIN poll : poll[k].ctx \in (-NPorts) .. MAX_DEBUG
    BY <1>2 DEF Slot
  <2>2. ToClose \subseteq (-NPorts) .. MAX_DEBUG
    BY <2>1 DEF ToClose, Slots
  <2>3. shouldClose' = shouldClose \cup ToClose
    BY DEF KillConnections
  <2> QED BY <2>2, <2>3 DEF RestOK
<1>7. line' = [c \in Ctxs |-> IF \E k \in Slots : poll[k].fd = c THEN NoLine ELSE line[c]]
  BY DEF KillConnections
<1>8. line' \in [Ctxs -> Connection] /\ \A c \in Ctxs : line'[c] = NoLine \/ line'[c] = line[c]
  BY <1>7, NoLineType DEF Typed
<1>9. \A c \in Ctxs : PacketOK(c)'
  BY <1>8 DEF PacketOK, ContextsOK, ContextOK, NoLine, NoPacket
<1>10. \A k \in DOMAIN poll : poll[k].fd \in Ctxs => line'[poll[k].fd] = NoLine
  <2>1. Nothing \notin Ctxs
    BY SlotNames DEF Ctxs, Nothing
  <2> QED BY <1>7, <2>1 DEF Slots
<1> QED BY <1>3, <1>5, <1>6, <1>8, <1>9, <1>10

LEMMA AbortsBase ==
  ASSUME Base, ServerAborts
  PROVE  Base'
<1> USE DEF Base
<1>1. /\ KillConnections /\ SignalTerminate /\ To("leave") /\ srv.pc = "abort"
      /\ UNCHANGED <<ctxs, proc, backlog, compact_needed, n, menu, use>>
  BY DEF ServerAborts, At
<1>2. /\ poll' \in Seq(Slot) /\ Len(poll') = Len(poll) /\ DOMAIN poll' = DOMAIN poll
      /\ \A k \in DOMAIN poll : poll'[k].fd = Nothing /\ poll'[k].ctx = poll[k].ctx
      /\ shouldClose' \subseteq (-NPorts) .. MAX_DEBUG
      /\ line' \in [Ctxs -> Connection] /\ (\A c \in Ctxs : PacketOK(c)')
  BY <1>1, KillFacts
<1>3. /\ mon' \in MonitorState /\ ev' \in Events /\ ev'.terminate = TRUE
      /\ \/ mon.pc = "asleep" /\ mon'.pc = "leave"
         \/ mon' = mon
  BY <1>1, TerminateFacts DEF RestOK
<1>4. srv' \in ServerState /\ srv'.pc = "leave"
  BY <1>1, ToFacts DEF RestOK, SrvPlaces
<1>5. Typed' /\ RestOK'
  BY <1>1, <1>2, <1>3, <1>4 DEF Typed, CtxTypes, RestOK, Serving
<1>6. ContextsOK'
  <2>1. \A c \in Ctxs : OwnOK(c)'
    BY <1>1 DEF ContextsOK, ContextOK, OwnOK, Allocated
  <2>2. \A c \in Ctxs : PlaceOK(c)'
    BY <1>4 DEF PlaceOK, Serves, Serving
  <2>3. \A c \in Ctxs : WaitOK(c)'
    BY <1>1, <1>3 DEF ContextsOK, ContextOK, WaitOK
  <2> QED BY <1>2, <2>1, <2>2, <2>3 DEF ContextsOK, ContextOK
<1>7. SlotsOK' /\ PortsOK' /\ CountsOK'
  <2>1. TameSlots
    BY <1>1, <1>2, <1>3 DEF TameSlots
  <2> QED BY <1>1, <2>1, TameSame, TameTables
<1>8. DebuggersOK' /\ VisitOK' /\ EndOK'
  BY <1>1, <1>3, <1>4, DebuggersKept, VisitElsewhere, EndKept DEF Over
<1> QED BY <1>5, <1>6, <1>7, <1>8

LEMMA FinalizedFacts ==
  ASSUME Base, Finalized
  PROVE  /\ Typed' /\ shouldClose' = {} /\ line' = [c \in Ctxs |-> NoLine]
         /\ \A c \in Ctxs : /\ ctxs'[c].debug = None /\ ctxs'[c].state # "ATTACHED"
                            /\ "USED" \notin ctxs'[c].flags
                            /\ ctxs'[c] = ctxs[c] \/ (ctxs'[c].flags = {} /\ ctxs'[c].localPort = Nothing)
         /\ \A k \in DOMAIN poll' : poll'[k] = Unused
         /\ \A p \in Ports : n'[p] = 0
         /\ \A p \in Pids : proc'[p] = proc[p] \/ (proc'[p].st \in {"dead", "running"} /\ proc'[p].event = "none")
         /\ \A p \in Pids : IF Debugged(p) THEN proc'[p].st \in {"dead", "running"} /\ proc'[p].event = "none"
                           ELSE proc'[p] = proc[p]
<1> USE DEF Base
<1>1. ctxs' = [c \in Ctxs |-> IF c \in ToFinalize THEN Closed(Resets(ctxs[c])) ELSE ctxs[c]]
  BY DEF Finalized
<1>2. \A c \in Ctxs : ctxs[c] \in Context
  BY DEF Typed, CtxTypes
<1>3. ASSUME NEW c \in Ctxs, c \in ToFinalize
      PROVE  /\ ctxs'[c] \in Context /\ ctxs'[c].debug = None /\ ctxs'[c].state # "ATTACHED"
             /\ ctxs'[c].flags = {} /\ ctxs'[c].localPort = Nothing
  <2>1. Resets(ctxs[c]) \in Context
    BY <1>2, ResetsFacts
  <2> QED BY <1>1, <1>3, <2>1, ClosedFacts
<1>4. ASSUME NEW c \in Ctxs, c \notin ToFinalize
      PROVE  /\ ctxs'[c] = ctxs[c] /\ ctxs[c].debug = None /\ ctxs[c].state # "ATTACHED"
             /\ "USED" \notin ctxs[c].flags
  <2>1. ctxs[c].debug = None /\ \A k \in DOMAIN poll : poll[k].ctx # c
    BY <1>4 DEF ToFinalize
  <2> QED BY <1>1, <1>4, <2>1 DEF SlotsOK, ContextsOK, ContextOK, OwnOK
<1>5. CtxTypes' /\ \A c \in Ctxs :
                     /\ ctxs'[c].debug = None /\ ctxs'[c].state # "ATTACHED"
                     /\ "USED" \notin ctxs'[c].flags
                     /\ ctxs'[c] = ctxs[c] \/ (ctxs'[c].flags = {} /\ ctxs'[c].localPort = Nothing)
  <2>1. \A c \in Ctxs : /\ ctxs'[c] \in Context /\ ctxs'[c].debug = None /\ ctxs'[c].state # "ATTACHED"
                        /\ "USED" \notin ctxs'[c].flags
                        /\ ctxs'[c] = ctxs[c] \/ (ctxs'[c].flags = {} /\ ctxs'[c].localPort = Nothing)
    BY <1>2, <1>3, <1>4
  <2>2. ctxs' \in [Ctxs -> Context]
    BY <1>1, <2>1
  <2> QED BY <2>1, <2>2 DEF CtxTypes
<1>6. poll' \in Seq(Slot) /\ Len(poll') = Len(poll) /\ \A k \in DOMAIN poll' : poll'[k] = Unused
  <2>1. poll' = [k \in DOMAIN poll |-> Unused] /\ poll \in Seq(Slot) /\ Unused \in Slot
    BY UnusedType DEF Finalized, Typed
  <2>2. poll' \in [DOMAIN poll -> Slot]
    BY <2>1
  <2>3. poll' \in Seq(Slot) /\ Len(poll') = Len(poll) /\ DOMAIN poll' = DOMAIN poll
    BY <2>1, <2>2, Mapped
  <2> QED BY <2>1, <2>3
<1>7. n' \in [Ports -> {0, 1}] /\ \A p \in Ports : n'[p] = 0
  BY DEF Finalized
<1>8. line' \in [Ctxs -> Connection] /\ line' = [c \in Ctxs |-> NoLine] /\ shouldClose' = {}
  BY NoLineType DEF Finalized
<1>9. ASSUME NEW p \in Pids
      PROVE  /\ proc'[p] \in Process
             /\ proc'[p] = proc[p] \/ (proc'[p].st \in {"dead", "running"} /\ proc'[p].event = "none")
             /\ IF Debugged(p) THEN proc'[p].st \in {"dead", "running"} /\ proc'[p].event = "none"
                ELSE proc'[p] = proc[p]
  <2> DEFINE by == {c \in ToFinalize : ctxs[c].debug = p}
  <2>1. proc'[p] = IF by = {} THEN proc[p] ELSE ClosedProc(proc, ctxs[Min(by)])[p]
    BY DEF Finalized
  <2>2. by \subseteq Nat
    BY DEF ToFinalize, Ctxs
  <2>3. CASE by = {}
    <3>1. ~Debugged(p)
      BY <2>3, GdbAssumption DEF Debugged, ToFinalize
    <3> QED BY <2>1, <2>3, <3>1 DEF Typed
  <2>4. CASE by # {}
    <3>1. Min(by) \in by
      BY <2>2, <2>4, MinFacts
    <3> DEFINE c == Min(by)
    <3>2. c \in Ctxs /\ ctxs[c].debug = p
      BY <3>1 DEF ToFinalize
    <3> HIDE DEF c, by
    <3>3. /\ ClosedProc(proc, ctxs[c]) \in [Pids -> Process]
          /\ ClosedProc(proc, ctxs[c])[p].event = "none"
          /\ ClosedProc(proc, ctxs[c])[p].st \in {"dead", "running"}
      BY <3>2, <1>2, ClosedProcFacts DEF Typed
    <3>4. proc'[p] = ClosedProc(proc, ctxs[c])[p]
      BY <2>1, <2>4 DEF c
    <3>5. Debugged(p)
      BY <3>2 DEF Debugged
    <3> QED BY <3>3, <3>4, <3>5
  <2> QED BY <2>3, <2>4
<1>10. proc' \in [Pids -> Process]
  BY <1>9 DEF Finalized
<1>11. Len(poll') <= MAX_CTXS
  BY <1>6 DEF Typed
<1> QED BY <1>5, <1>6, <1>7, <1>8, <1>9, <1>10, <1>11 DEF Typed

LEMMA FinalizedBase ==
  ASSUME Base, Finalized, UNCHANGED <<backlog, ev, compact_needed, menu, use>>, ev.terminate,
         srv' \in ServerState, srv'.pc = "gone", mon' \in MonitorState, mon'.pc = "gone"
  PROVE  Base'
<1> USE DEF Base
<1>1. /\ Typed' /\ shouldClose' = {} /\ line' = [c \in Ctxs |-> NoLine]
      /\ \A c \in Ctxs : /\ ctxs'[c].debug = None /\ ctxs'[c].state # "ATTACHED"
                         /\ "USED" \notin ctxs'[c].flags
                         /\ ctxs'[c] = ctxs[c] \/ (ctxs'[c].flags = {} /\ ctxs'[c].localPort = Nothing)
      /\ \A k \in DOMAIN poll' : poll'[k] = Unused
      /\ \A p \in Ports : n'[p] = 0
  BY FinalizedFacts
<1>2. RestOK'
  BY <1>1 DEF RestOK, Serving
<1>3. ContextsOK'
  <2>1. \A c \in Ctxs : OwnOK(c)'
    <3> SUFFICES ASSUME NEW c \in Ctxs PROVE OwnOK(c)'
      OBVIOUS
    <3>1. CASE ctxs'[c] = ctxs[c]
      BY <1>1, <3>1 DEF ContextsOK, ContextOK, OwnOK, Allocated
    <3>2. CASE ctxs'[c].flags = {} /\ ctxs'[c].localPort = Nothing
      BY <1>1, <3>2 DEF OwnOK, Allocated
    <3> QED BY <1>1, <3>1, <3>2
  <2>2. \A c \in Ctxs : PacketOK(c)'
    BY <1>1 DEF PacketOK, NoLine, NoPacket
  <2>3. \A c \in Ctxs : PlaceOK(c)' /\ WaitOK(c)'
    BY DEF PlaceOK, WaitOK, Serves, Serving
  <2> QED BY <2>1, <2>2, <2>3 DEF ContextsOK, ContextOK
<1>4. \A k \in DOMAIN poll' : poll'[k].fd = Nothing /\ poll'[k].ctx = Nothing /\ Nothing \notin Ctxs
  BY <1>1, UnusedType, SlotNames DEF Nothing
<1>5. SlotsOK'
  BY <1>1, <1>4 DEF SlotsOK
<1>6. PortsOK'
  <2>1. \A c \in Ctxs : Allocated(c)' => ctxs'[c] = ctxs[c] /\ Allocated(c)
    BY <1>1 DEF Allocated
  <2> QED BY <2>1 DEF PortsOK
<1>7. CountsOK'
  <2>1. \A p \in Ports : n'[p] # 1
    BY <1>1
  <2> QED BY <1>1, <2>1 DEF CountsOK
<1>8. DebuggersOK' /\ VisitOK'
  BY <1>1, DebuggersKept, VisitElsewhere
<1>9. EndOK'
  BY <1>1, <1>4 DEF EndOK, Slots
<1> QED BY <1>1, <1>2, <1>3, <1>5, <1>6, <1>7, <1>8, <1>9

LEMMA LeavesBase ==
  ASSUME Base, ServerLeaves \/ MonitorLeaves
  PROVE  Base'
<1> USE DEF Base
<1>1. CASE ServerLeaves
  <2>1. /\ srv.pc = "leave" /\ To("gone") /\ mon' = mon /\ mon \in MonitorState /\ ev.terminate
        /\ UNCHANGED <<backlog, ev, compact_needed, menu, use>>
    BY <1>1 DEF ServerLeaves, Dereference, RestOK, EndOK
  <2>2. srv' \in ServerState /\ srv'.pc = "gone"
    BY <2>1, ToFacts DEF RestOK, SrvPlaces
  <2>3. CASE mon.pc = "gone"
    <3>1. Finalized
      BY <1>1, <2>3 DEF ServerLeaves, Dereference
    <3> QED BY <2>1, <2>2, <2>3, <3>1, FinalizedBase
  <2>4. CASE mon.pc # "gone"
    <3>1. UNCHANGED <<ctxs, proc, poll, line, n, shouldClose>>
      BY <1>1, <2>4 DEF ServerLeaves, Dereference
    <3>2. Typed' /\ RestOK'
      BY <2>1, <2>2, <3>1 DEF Typed, CtxTypes, RestOK, Serving
    <3>3. ContextsOK'
      BY <2>1, <2>2, <3>1 DEF ContextsOK, ContextOK, OwnOK, PacketOK, PlaceOK, WaitOK, Allocated, Serves, Serving
    <3>4. SlotsOK' /\ PortsOK' /\ CountsOK'
      BY <2>1, <3>1, SlotsSame, TameSame, TameTables
    <3>5. DebuggersOK' /\ VisitOK' /\ EndOK'
      BY <2>1, <2>2, <2>4, <3>1, DebuggersKept, VisitElsewhere, EndKept DEF Over
    <3> QED BY <3>2, <3>3, <3>4, <3>5
  <2> QED BY <2>3, <2>4
<1>2. CASE MonitorLeaves
  <2>1. /\ mon.pc = "leave" /\ mon' = [mon EXCEPT !.pc = "gone"] /\ srv' = srv /\ srv \in ServerState
        /\ UNCHANGED <<backlog, ev, compact_needed, menu, use>>
    BY <1>2 DEF MonitorLeaves, Dereference, RestOK
  <2>2. mon' \in MonitorState /\ mon'.pc = "gone" /\ mon'.c = mon.c
    BY <2>1 DEF RestOK, MonitorState, MonPlaces
  <2>3. CASE srv.pc = "gone"
    <3>1. Finalized /\ ev.terminate
      BY <1>2, <2>3 DEF MonitorLeaves, Dereference, EndOK
    <3> QED BY <2>1, <2>2, <2>3, <3>1, FinalizedBase
  <2>4. CASE srv.pc # "gone"
    <3>1. UNCHANGED <<ctxs, proc, poll, line, n, shouldClose>>
      BY <1>2, <2>4 DEF MonitorLeaves, Dereference
    <3>2. Typed' /\ RestOK'
      BY <2>1, <2>2, <3>1 DEF Typed, CtxTypes, RestOK, Serving
    <3>3. ContextsOK'
      BY <2>1, <2>2, <3>1 DEF ContextsOK, ContextOK, OwnOK, PacketOK, PlaceOK, WaitOK, Allocated, Serves, Serving
    <3>4. SlotsOK' /\ PortsOK' /\ CountsOK'
      BY <2>1, <3>1, SlotsSame, TameSame, TameTables
    <3>5. DebuggersOK' /\ VisitOK' /\ EndOK'
      BY <2>1, <2>2, <2>4, <3>1, DebuggersKept, VisitKept, EndKept DEF Over
    <3> QED BY <3>2, <3>3, <3>4, <3>5
  <2> QED BY <2>3, <2>4
<1> QED BY <1>1, <1>2

---------------------------------------------------------------------------
(* The monitor                                                              *)

LEMMA MonitorRest ==
  ASSUME Base, MonitorSteps, mon' \in MonitorState, ev' \in Events,
         mon'.pc = "event" => mon'.c \in Ctxs, ev'.terminate = ev.terminate, mon'.pc # "gone"
  PROVE  RestOK' /\ VisitOK' /\ EndOK'
<1> USE DEF Base
<1>1. UNCHANGED <<shouldClose, backlog, poll, compact_needed, n, srv, menu, use>>
  BY DEF MonitorSteps, tables
<1>2. RestOK'
  BY <1>1 DEF RestOK, Serving
<1>3. VisitOK'
  BY <1>1, VisitKept
<1>4. EndOK'
  BY <1>1, EndKept DEF Over
<1> QED BY <1>2, <1>3, <1>4

(* What MonitorHandles makes of the context                                 *)
Reset(x, y) == y.eventToWaitFor = "attached" /\ y.attached = FALSE
SameSession(x, y) == y.state = x.state /\ y.debug = x.debug /\ y.pid = x.pid
                     /\ (\A f \in {"SELECTED", "USED", "EXTENDED_REMOTE"} : f \in y.flags <=> f \in x.flags)
Ended(x, y) == y.state = "DETACHING" /\ y.debug = None /\ y.pid = None /\ "SELECTED" \notin y.flags
Outcome(c, x, y) ==
  \/ /\ x.state \in {"DISCONNECTED", "DETACHING"} /\ UNCHANGED <<proc, line>>
     /\ Reset(x, y) /\ SameSession(x, y)
  \/ /\ x.state \in {"CONNECTED", "ATTACHED"} /\ UNCHANGED <<proc, line>>
     /\ SameSession(x, y) /\ y.attached = x.attached
     /\ \/ x.eventToWaitFor = "attached" /\ y.eventToWaitFor = "continued"
        \/ x.eventToWaitFor = "continued" /\ y.eventToWaitFor = "debug"
  \/ /\ x.state \in {"CONNECTED", "ATTACHED"} /\ x.eventToWaitFor = "debug" /\ x.debug \in Pids
     /\ \/ proc[x.debug].event \in {"none", "auto"} /\ line' = line /\ y = x
        \/ /\ proc[x.debug].event = "stop" /\ Tell(c, "stopped")
           /\ SameSession(x, y) /\ y.attached = x.attached
           /\ y.eventToWaitFor \in {"continued", "debug"}
        \/ /\ proc[x.debug].event = "exit" /\ Tell(c, "exited") /\ Reset(x, y)
           /\ SameSession(x, y) \/ Ended(x, y)
     /\ proc' = [proc EXCEPT ![x.debug].event = "none"]

LEMMA EventFacts ==
  ASSUME Base, MonitorHandles
  PROVE  /\ mon.pc = "event" /\ mon.c \in Ctxs /\ ~Held(mon.c) /\ MonitorSteps /\ ev' = ev
         /\ mon' \in MonitorState /\ mon'.pc = Again /\ mon'.c = Nothing
         /\ \A d \in Ctxs : mon'.handles[d] = None
         /\ \E y \in Context : /\ ctxs' = [ctxs EXCEPT ![mon.c] = y] /\ Tame(ctxs[mon.c], y)
                               /\ Outcome(mon.c, ctxs[mon.c], y)
<1> USE DEF Base
<1> DEFINE c == mon.c
           x == ctxs[c]
<1>1. /\ mon.pc = "event" /\ c \in Ctxs /\ ~Held(c) /\ MonitorSteps /\ ev' = ev /\ mon' = NoHandles(Again)
      /\ x \in Context
  BY DEF MonitorHandles, RestOK, Typed, CtxTypes
<1>2. Again \in MonPlaces
  BY DEF Again, MonPlaces
<1>3. /\ mon' \in MonitorState /\ mon'.pc = Again /\ mon'.c = Nothing
      /\ \A d \in Ctxs : mon'.handles[d] = None
  BY <1>1, <1>2, NoHandlesFacts
<1>4. ctxs \in [Ctxs -> Context] /\ proc \in [Pids -> Process] /\ line \in [Ctxs -> Connection]
  BY DEF Typed, CtxTypes
<1>5. CASE x.state \in {"DISCONNECTED", "DETACHING"}
  <2>1. ctxs' = [ctxs EXCEPT ![c] = Resets(x)] /\ UNCHANGED <<proc, line>>
    BY <1>5 DEF MonitorHandles
  <2>2. Resets(x) \in Context /\ Tame(x, Resets(x)) /\ Outcome(c, x, Resets(x))
    BY <1>1, <1>5, <2>1, ResetsFacts DEF Tame, Outcome, Reset, SameSession
  <2> QED BY <1>1, <1>3, <2>1, <2>2
<1>6. CASE x.state \in {"CONNECTED", "ATTACHED"} /\ x.eventToWaitFor = "attached"
  <2>1. ctxs' = [ctxs EXCEPT ![c].eventToWaitFor = "continued"] /\ UNCHANGED <<proc, line>>
    BY <1>6 DEF MonitorHandles
  <2> DEFINE y == [x EXCEPT !.eventToWaitFor = "continued"]
  <2>2. ctxs' = [ctxs EXCEPT ![c] = y]
    BY <2>1, <1>4
  <2>3. y \in Context /\ Tame(x, y) /\ Outcome(c, x, y)
    BY <1>1, <1>6, <2>1 DEF Tame, Outcome, SameSession, Context
  <2> QED BY <1>1, <1>3, <2>2, <2>3
<1>7. CASE x.state \in {"CONNECTED", "ATTACHED"} /\ x.eventToWaitFor = "continued"
  <2>1. ctxs' = [ctxs EXCEPT ![c].eventToWaitFor = "debug"] /\ UNCHANGED <<proc, line>>
    BY <1>7 DEF MonitorHandles
  <2> DEFINE y == [x EXCEPT !.eventToWaitFor = "debug"]
  <2>2. ctxs' = [ctxs EXCEPT ![c] = y]
    BY <2>1, <1>4
  <2>3. y \in Context /\ Tame(x, y) /\ Outcome(c, x, y)
    BY <1>1, <1>7, <2>1 DEF Tame, Outcome, SameSession, Context
  <2> QED BY <1>1, <1>3, <2>2, <2>3
<1>8. CASE x.state \in {"CONNECTED", "ATTACHED"} /\ x.eventToWaitFor = "debug"
  <2> DEFINE p == x.debug
  <2>1. HandleDebugEvents(c)
    BY <1>8 DEF MonitorHandles
  <2>2. p \in Pids /\ "USED" \in x.flags
    <3>1. p # None
      BY <1>1, <1>8, WaitAwake
    <3> QED BY <1>1, <3>1 DEF Context, ContextsOK, ContextOK, OwnOK
  <2>3. proc[p] \in Process
    BY <2>2, <1>4
  <2>4. Tame(x, x)
    BY TameSame
  <2>5. CASE proc[p].event = "none"
    <3>1. UNCHANGED <<ctxs, proc, line>>
      BY <2>1, <2>5 DEF HandleDebugEvents
    <3>2. proc' = [proc EXCEPT ![p].event = "none"] /\ ctxs' = [ctxs EXCEPT ![c] = x]
      BY <3>1, <2>2, <2>3, <2>5, <1>4, <1>1 DEF Process
    <3>3. Outcome(c, x, x)
      BY <3>1, <3>2, <1>8, <2>2, <2>5 DEF Outcome
    <3> QED BY <1>1, <1>3, <2>4, <3>2, <3>3
  <2>6. CASE proc[p].event = "auto"
    <3>1. UNCHANGED <<ctxs, line>> /\ proc' = [proc EXCEPT ![p].event = "none"]
      BY <2>1, <2>6 DEF HandleDebugEvents
    <3>2. ctxs' = [ctxs EXCEPT ![c] = x]
      BY <3>1, <1>4, <1>1
    <3>3. Outcome(c, x, x)
      BY <3>1, <1>8, <2>2, <2>6 DEF Outcome
    <3> QED BY <1>1, <1>3, <2>4, <3>2, <3>3
  <2>7. CASE proc[p].event = "stop"
    <3>1. PICK sent \in BOOLEAN : ctxs' = [ctxs EXCEPT ![c] = Stopped(x, sent)]
      BY <2>1, <2>7 DEF HandleDebugEvents
    <3>2. Tell(c, "stopped") /\ proc' = [proc EXCEPT ![p].event = "none"]
      BY <2>1, <2>7 DEF HandleDebugEvents
    <3> DEFINE y == Stopped(x, sent)
    <3>3. y \in Context /\ Tame(x, y) /\ SameSession(x, y) /\ y.attached = x.attached
          /\ y.eventToWaitFor \in {"continued", "debug"}
      BY <1>1, <1>8, StoppedFacts DEF Tame, SameSession
    <3>4. Outcome(c, x, y)
      BY <3>2, <3>3, <1>8, <2>2, <2>7 DEF Outcome
    <3> QED BY <1>1, <1>3, <3>1, <3>3, <3>4
  <2>8. CASE proc[p].event = "exit"
    <3> DEFINE d == [x EXCEPT !.state = "DETACHING"]
               gone == Kept(Detached(d))
               y == IF "EXTENDED_REMOTE" \in x.flags THEN Resets(gone) ELSE Resets(x)
    <3>1. Tell(c, "exited") /\ proc' = [proc EXCEPT ![p].event = "none"] /\ ctxs' = [ctxs EXCEPT ![c] = y]
      BY <2>1, <2>8 DEF HandleDebugEvents
    <3>2. /\ d \in Context /\ d.flags = x.flags /\ d.state = "DETACHING" /\ d.localPort = x.localPort
          /\ d.i = x.i /\ d.serv = x.serv
      BY <1>1 DEF Context
    <3> HIDE DEF d
    <3>3. /\ Detached(d) \in Context /\ Detached(d).flags = x.flags /\ Detached(d).state = "DETACHING"
          /\ Detached(d).localPort = x.localPort /\ Detached(d).i = x.i /\ Detached(d).serv = x.serv
          /\ Detached(d).debug = None /\ Detached(d).pid = None
      BY <3>2, DetachedFacts
    <3>4. gone \in Context
      BY <3>3, KeptFacts
    <3>5. /\ gone.flags = x.flags \cap {"EXTENDED_REMOTE", "USED"} /\ gone.state = "DETACHING"
          /\ gone.localPort = x.localPort /\ gone.i = x.i /\ gone.serv = x.serv
          /\ gone.debug = None /\ gone.pid = None
      BY <3>3, KeptFacts
    <3> HIDE DEF gone
    <3>6. CASE "EXTENDED_REMOTE" \in x.flags
      <4>0. y = Resets(gone)
        BY <3>6
      <4> HIDE DEF y
      <4>3. /\ y \in Context /\ y.flags = gone.flags /\ y.state = gone.state /\ y.localPort = gone.localPort
            /\ y.i = gone.i /\ y.serv = gone.serv /\ y.debug = None /\ y.pid = None
            /\ y.eventToWaitFor = "attached" /\ y.attached = FALSE
        BY <4>0, <3>4, <3>5, ResetsFacts
      <4>1. y \in Context /\ Tame(x, y) /\ Reset(x, y) /\ Ended(x, y)
        BY <2>2, <3>5, <4>3 DEF Tame, Reset, Ended
      <4>2. Outcome(c, x, y)
        BY <4>1, <3>1, <1>8, <2>2, <2>8 DEF Outcome
      <4> QED BY <1>1, <1>3, <3>1, <4>1, <4>2
    <3>7. CASE "EXTENDED_REMOTE" \notin x.flags
      <4>1. y \in Context /\ Tame(x, y) /\ Reset(x, y) /\ SameSession(x, y)
        BY <1>1, <3>7, ResetsFacts DEF Tame, Reset, SameSession
      <4>2. Outcome(c, x, y)
        BY <4>1, <3>1, <1>8, <2>2, <2>8 DEF Outcome
      <4> QED BY <1>1, <1>3, <3>1, <4>1, <4>2
    <3> QED BY <3>6, <3>7
  <2> QED BY <2>3, <2>5, <2>6, <2>7, <2>8 DEF Process
<1> QED BY <1>1, <1>5, <1>6, <1>7, <1>8 DEF Context

(* A debug event has been dealt with.                                       *)
LEMMA EventTaken ==
  ASSUME proc \in [Pids -> Process], NEW p \in Pids, proc' = [proc EXCEPT ![p].event = "none"]
  PROVE  /\ proc' \in [Pids -> Process] /\ proc'[p].event = "none"
         /\ \A q \in Pids : proc'[q].st = proc[q].st /\ (q # p => proc'[q] = proc[q])
BY DEF Process

LEMMA EventBase ==
  ASSUME Base, MonitorHandles
  PROVE  Base'
<1> USE DEF Base
<1>1. /\ mon.pc = "event" /\ mon.c \in Ctxs /\ ~Held(mon.c) /\ MonitorSteps /\ ev' = ev
      /\ mon' \in MonitorState /\ mon'.pc = Again /\ mon'.c = Nothing
  BY EventFacts
<1>2. PICK y \in Context : /\ ctxs' = [ctxs EXCEPT ![mon.c] = y] /\ Tame(ctxs[mon.c], y)
                           /\ Outcome(mon.c, ctxs[mon.c], y)
  BY EventFacts
<1> DEFINE c == mon.c
           x == ctxs[c]
<1>3. UNCHANGED <<poll, n, srv, shouldClose, backlog, compact_needed, menu, use>>
      /\ mon'.pc \in {"top", "leave"} /\ x \in Context /\ c \in Ctxs
  BY <1>1 DEF MonitorSteps, tables, Again, Typed, CtxTypes
<1>4. /\ proc' \in [Pids -> Process] /\ line' \in [Ctxs -> Connection]
      /\ \A d \in Ctxs : line'[d].pkt = line[d].pkt
  <2>1. proc' = proc \/ (x.debug \in Pids /\ proc' = [proc EXCEPT ![x.debug].event = "none"])
    BY <1>2 DEF Outcome
  <2>2. proc' \in [Pids -> Process]
    BY <2>1, EventTaken DEF Typed
  <2>3. line' = line \/ Tell(c, "stopped") \/ Tell(c, "exited")
    BY <1>2 DEF Outcome
  <2>4. Tell(c, "stopped") => line' \in [Ctxs -> Connection] /\ \A d \in Ctxs : line'[d].pkt = line[d].pkt
    BY <1>3, TellFacts DEF Typed
  <2>5. Tell(c, "exited") => line' \in [Ctxs -> Connection] /\ \A d \in Ctxs : line'[d].pkt = line[d].pkt
    BY <1>3, TellFacts DEF Typed
  <2> QED BY <2>2, <2>3, <2>4, <2>5 DEF Typed
<1>5. /\ y.state = "ATTACHED" => y.debug # None /\ y.pid = y.debug
      /\ "SELECTED" \in y.flags => y.pid \in Pids
      /\ y.debug = x.debug \/ y.debug = None
      /\ y.state = x.state \/ y.state = "DETACHING"
  <2>1. y = x \/ SameSession(x, y) \/ Ended(x, y)
    BY <1>2 DEF Outcome
  <2> QED BY <2>1, <1>3 DEF SameSession, Ended, ContextsOK, ContextOK, OwnOK
<1>6. TameSlots
  BY <1>1, <1>3, SlotsSame
<1>7. /\ CtxTypes' /\ ctxs'[c] = y /\ \A d \in Ctxs : d # c => ctxs'[d] = ctxs[d]
      /\ (\A d \in Ctxs : OwnOK(d)') /\ SlotsOK' /\ PortsOK' /\ CountsOK' /\ DebuggersOK'
  BY <1>2, <1>3, <1>5, <1>6, OneContext
<1>8. Typed'
  BY <1>3, <1>4, <1>7 DEF Typed
<1>9. RestOK' /\ VisitOK' /\ EndOK'
  BY <1>1, <1>3, MonitorRest DEF RestOK
<1>10. ContextsOK'
  <2>1. \A d \in Ctxs : PacketOK(d)'
    BY <1>4 DEF ContextsOK, ContextOK, PacketOK
  <2>2. \A d \in Ctxs : PlaceOK(d)'
    <3>1. \A d \in Ctxs : d # c => PlaceOK(d)'
      BY <1>3, <1>7 DEF ContextsOK, ContextOK, PlaceOK, Serves
    <3>2. \A d \in Ctxs : d = c => PlaceOK(d)'
      BY <1>1, <1>2, <1>3, <1>5, <1>7 DEF ContextsOK, ContextOK, PlaceOK, Serves, Tame, Held
    <3> QED BY <3>1, <3>2
  <2>3. \A d \in Ctxs : WaitOK(d)'
    BY <1>3 DEF WaitOK
  <2> QED BY <1>7, <2>1, <2>2, <2>3 DEF ContextsOK, ContextOK
<1> QED BY <1>7, <1>8, <1>9, <1>10

LEMMA ReadsFacts ==
  ASSUME Base, MonitorReads
  PROVE  /\ mon.pc = "top" /\ NoneHeld /\ MonitorSteps /\ UNCHANGED <<ctxs, proc, line, ev>>
         /\ mon' \in MonitorState /\ mon'.pc = "call" /\ mon'.c = mon.c
         /\ \A c \in Ctxs : mon'.handles[c] = Handle(c)
<1> USE DEF Base
<1> DEFINE h == [c \in Ctxs |-> Handle(c)]
<1>1. /\ mon.pc = "top" /\ NoneHeld /\ MonitorSteps /\ UNCHANGED <<ctxs, proc, line, ev>>
      /\ mon' = [mon EXCEPT !.pc = "call", !.handles = h]
  BY DEF MonitorReads
<1>2. \A c \in Ctxs : Handle(c) \in Pids \cup {None, "attached", "continued"}
  BY DEF Handle, Typed, CtxTypes, Context
<1>3. h \in [Ctxs -> Pids \cup {None, "attached", "continued"}]
  BY <1>2
<1> HIDE DEF h
<1>4. mon' \in MonitorState /\ mon'.pc = "call" /\ mon'.c = mon.c /\ mon'.handles = h
  BY <1>1, <1>3 DEF RestOK, MonitorState, MonPlaces
<1> QED BY <1>1, <1>4 DEF h

LEMMA ReadsBase ==
  ASSUME Base, MonitorReads
  PROVE  Base'
<1> USE DEF Base
<1>1. /\ mon.pc = "top" /\ MonitorSteps /\ UNCHANGED <<ctxs, proc, line, ev>>
      /\ mon' \in MonitorState /\ mon'.pc = "call"
      /\ \A c \in Ctxs : mon'.handles[c] = Handle(c)
  BY ReadsFacts
<1>2. UNCHANGED <<poll, n, srv>>
  BY <1>1 DEF MonitorSteps, tables
<1>3. Typed'
  BY <1>1, <1>2 DEF Typed, CtxTypes
<1>4. RestOK' /\ VisitOK' /\ EndOK'
  BY <1>1, MonitorRest DEF RestOK
<1>5. ContextsOK'
  BY <1>1, <1>2 DEF ContextsOK, ContextOK, OwnOK, PacketOK, PlaceOK, WaitOK, Allocated, Serves, Serving, Handle
<1>6. SlotsOK' /\ PortsOK' /\ CountsOK' /\ DebuggersOK'
  BY <1>1, <1>2, SlotsSame, TameSame, TameTables, DebuggersKept
<1> QED BY <1>3, <1>4, <1>5, <1>6

(* A wait that does not fail: the handles it waits for are valid.           *)
LEMMA WaitFacts ==
  ASSUME Base, MonitorWaits
  PROVE  /\ mon.pc = "call" /\ MonitorSteps /\ UNCHANGED <<proc, line>>
         /\ mon' \in MonitorState
         /\ \/ /\ (\E c \in Ctxs : ~Valid(c)) \/ ev.terminate
               /\ mon' = NoHandles("leave") /\ mon'.pc = "leave" /\ UNCHANGED <<ctxs, ev>>
            \/ /\ (\A c \in Ctxs : Valid(c)) /\ ~ev.terminate /\ ev.updated
               /\ mon' = NoHandles("ack") /\ mon'.pc = "ack" /\ mon'.c = Nothing /\ ctxs' = ctxs
               /\ ev' \in Events /\ ev'.updated = FALSE /\ ev'.received = ev.received /\ ev'.terminate = ev.terminate
            \/ /\ (\A c \in Ctxs : Valid(c)) /\ ~ev.terminate /\ ~ev.updated
               /\ \A c \in Ctxs : ~Signalled(c)
               /\ mon'.pc = "asleep" /\ mon'.handles = mon.handles /\ mon'.c = mon.c /\ UNCHANGED <<ctxs, ev>>
            \/ /\ (\A c \in Ctxs : Valid(c)) /\ ~ev.terminate /\ ~ev.updated /\ ev' = ev
               /\ mon'.pc = "event" /\ mon'.c \in Ctxs /\ Signalled(mon'.c)
               /\ \A d \in Ctxs : mon'.handles[d] = None
               /\ \E b \in BOOLEAN : ctxs' = [ctxs EXCEPT ![mon'.c] = [ctxs[mon'.c] EXCEPT !.continued = b]]
<1> USE DEF Base
<1> DEFINE ready == {c \in Ctxs : Signalled(c)}
<1>1. mon.pc = "call" /\ MonitorSteps /\ UNCHANGED <<proc, line>>
  BY DEF MonitorWaits
<1>2. \A pc \in {"leave", "ack", "event"} : /\ NoHandles(pc) \in MonitorState /\ NoHandles(pc).pc = pc
                                            /\ NoHandles(pc).c = Nothing
  BY NoHandlesFacts DEF MonPlaces
<1>3. CASE (\E c \in Ctxs : ~Valid(c)) \/ ev.terminate
  BY <1>1, <1>2, <1>3 DEF MonitorWaits
<1>4. CASE ~((\E c \in Ctxs : ~Valid(c)) \/ ev.terminate) /\ ev.updated
  <2>1. mon' = NoHandles("ack") /\ ev' = [ev EXCEPT !.updated = FALSE] /\ ctxs' = ctxs
    BY <1>4 DEF MonitorWaits
  <2>2. ev' \in Events /\ ev'.updated = FALSE /\ ev'.received = ev.received /\ ev'.terminate = ev.terminate
    BY <2>1 DEF RestOK, Events
  <2> QED BY <1>1, <1>2, <1>4, <2>1, <2>2
<1>5. CASE ~((\E c \in Ctxs : ~Valid(c)) \/ ev.terminate) /\ ~ev.updated /\ ready = {}
  <2>1. mon' = [mon EXCEPT !.pc = "asleep"] /\ UNCHANGED <<ctxs, ev>>
    BY <1>5 DEF MonitorWaits
  <2>2. mon' \in MonitorState /\ mon'.pc = "asleep" /\ mon'.handles = mon.handles /\ mon'.c = mon.c
    BY <2>1 DEF RestOK, MonitorState, MonPlaces
  <2> QED BY <1>1, <1>5, <2>1, <2>2
<1>6. CASE ~((\E c \in Ctxs : ~Valid(c)) \/ ev.terminate) /\ ~ev.updated /\ ready # {}
  <2> DEFINE c == Min(ready)
             b == ctxs[c].continued /\ mon.handles[c] # "continued"
  <2>1. ready \subseteq Nat
    BY GdbAssumption DEF Ctxs
  <2>2. c \in ready
    BY <1>6, <2>1, MinFacts
  <2>3. Wakes(c) /\ ev' = ev /\ ctxs' = [ctxs EXCEPT ![c].continued = b]
    BY <1>6 DEF MonitorWaits
  <2>4. b \in BOOLEAN
    OBVIOUS
  <2> HIDE DEF c, b
  <2>5. c \in Ctxs /\ Signalled(c)
    BY <2>2
  <2>6. mon' \in MonitorState /\ mon'.pc = "event" /\ mon'.c = c /\ \A d \in Ctxs : mon'.handles[d] = None
    BY <2>3, <2>5, WakesFacts
  <2>7. ctxs' = [ctxs EXCEPT ![c] = [ctxs[c] EXCEPT !.continued = b]]
    BY <2>3, <2>5 DEF Typed, CtxTypes
  <2> QED BY <1>1, <1>6, <2>3, <2>4, <2>5, <2>6, <2>7
<1> QED BY <1>3, <1>4, <1>5, <1>6

LEMMA WaitsBase ==
  ASSUME Base, MonitorWaits
  PROVE  Base'
<1> USE DEF Base
<1>1. mon.pc = "call" /\ MonitorSteps /\ UNCHANGED <<proc, line>> /\ mon' \in MonitorState
  BY WaitFacts
<1>2. UNCHANGED <<poll, n, srv>>
  BY <1>1 DEF MonitorSteps, tables
<1>3. /\ ev' \in Events /\ ev'.terminate = ev.terminate
      /\ mon'.pc \in {"leave", "ack", "asleep", "event"} /\ (mon'.pc = "event" => mon'.c \in Ctxs)
      /\ mon'.pc # "leave" => \A c \in Ctxs : Valid(c)
  BY WaitFacts DEF RestOK
<1>4. RestOK' /\ VisitOK' /\ EndOK'
  BY <1>1, <1>3, MonitorRest
<1>5. \A c \in Ctxs : WaitOK(c)
  BY DEF ContextsOK, ContextOK
<1>6. mon'.pc # "leave" => \A c \in Ctxs : ~(ctxs[c].eventToWaitFor = "debug" /\ ctxs[c].debug = None)
  <2>1. \A c \in Ctxs : Valid(c) => mon.handles[c] # None
    BY GdbAssumption DEF Valid
  <2> QED BY <1>1, <1>3, <1>5, <2>1 DEF WaitOK
<1>7. TameSlots
  BY <1>2, <1>3, SlotsSame
<1>8. CASE ctxs' = ctxs
  <2>1. Typed'
    BY <1>1, <1>2, <1>8 DEF Typed, CtxTypes
  <2>2. ContextsOK'
    BY <1>1, <1>2, <1>3, <1>6, <1>8
    DEF ContextsOK, ContextOK, OwnOK, PacketOK, PlaceOK, WaitOK, Allocated, Serves, Serving
  <2>3. SlotsOK' /\ PortsOK' /\ CountsOK' /\ DebuggersOK'
    BY <1>7, <1>8, TameSame, TameTables, DebuggersKept
  <2> QED BY <1>4, <2>1, <2>2, <2>3
<1>9. CASE /\ mon'.pc = "event" /\ mon'.c \in Ctxs
           /\ \E b \in BOOLEAN : ctxs' = [ctxs EXCEPT ![mon'.c] = [ctxs[mon'.c] EXCEPT !.continued = b]]
  <2>1. PICK b \in BOOLEAN : ctxs' = [ctxs EXCEPT ![mon'.c] = [ctxs[mon'.c] EXCEPT !.continued = b]]
    BY <1>9
  <2>2. PICK c \in Ctxs : c = mon'.c
    BY <1>9
  <2> DEFINE x == ctxs[c]
             y == [x EXCEPT !.continued = b]
  <2>3. ctxs' = [ctxs EXCEPT ![c] = y] /\ x \in Context
    BY <2>1, <2>2 DEF Typed, CtxTypes
  <2>4. y \in Context /\ y.debug = x.debug /\ y.state = x.state /\ y.pid = x.pid /\ y.flags = x.flags
        /\ y.eventToWaitFor = x.eventToWaitFor /\ Tame(x, y)
    BY <2>3 DEF Context, Tame
  <2> HIDE DEF y
  <2>5. /\ x.state = "ATTACHED" => x.debug # None /\ x.pid = x.debug
        /\ "SELECTED" \in x.flags => x.pid \in Pids
    BY DEF ContextsOK, ContextOK, OwnOK
  <2>6. /\ CtxTypes' /\ ctxs'[c] = y /\ \A d \in Ctxs : d # c => ctxs'[d] = ctxs[d]
        /\ (\A d \in Ctxs : OwnOK(d)') /\ SlotsOK' /\ PortsOK' /\ CountsOK' /\ DebuggersOK'
    BY <1>7, <2>3, <2>4, <2>5, OneContext
  <2>7. Typed'
    BY <1>1, <1>2, <2>6 DEF Typed
  <2>8. \A d \in Ctxs : ctxs'[d].flags = ctxs[d].flags /\ ctxs'[d].state = ctxs[d].state
                        /\ ctxs'[d].debug = ctxs[d].debug /\ ctxs'[d].eventToWaitFor = ctxs[d].eventToWaitFor
    BY <2>4, <2>6
  <2>9. ContextsOK'
    <3>1. \A d \in Ctxs : PacketOK(d)' /\ PlaceOK(d)'
      BY <1>1, <1>2, <2>8 DEF ContextsOK, ContextOK, PacketOK, PlaceOK, Serves, Serving
    <3>2. \A d \in Ctxs : WaitOK(d)'
      BY <1>6, <1>9, <2>8 DEF WaitOK
    <3> QED BY <2>6, <3>1, <3>2 DEF ContextsOK, ContextOK
  <2> QED BY <1>4, <2>6, <2>7, <2>9
<1> QED BY WaitFacts, <1>8, <1>9

LEMMA AcknowledgeFacts ==
  ASSUME Base, MonitorAcknowledges
  PROVE  /\ mon.pc = "ack" /\ MonitorSteps /\ UNCHANGED <<ctxs, proc, line>>
         /\ mon' \in MonitorState /\ mon'.pc = Again /\ mon'.c = Nothing /\ (\A c \in Ctxs : mon'.handles[c] = None)
         /\ ev' \in Events /\ ev'.received = TRUE /\ ev'.updated = ev.updated /\ ev'.terminate = ev.terminate
<1> USE DEF Base
<1>1. Again \in MonPlaces
  BY DEF Again, MonPlaces
<1>2. ev' = [ev EXCEPT !.received = TRUE] /\ mon' = NoHandles(Again)
  BY DEF MonitorAcknowledges
<1>3. ev' \in Events /\ ev'.received = TRUE /\ ev'.updated = ev.updated /\ ev'.terminate = ev.terminate
  BY <1>2 DEF RestOK, Events
<1> QED BY <1>1, <1>2, <1>3, NoHandlesFacts DEF MonitorAcknowledges

LEMMA AcknowledgesBase ==
  ASSUME Base, MonitorAcknowledges
  PROVE  Base'
<1> USE DEF Base
<1>1. /\ mon.pc = "ack" /\ MonitorSteps /\ UNCHANGED <<ctxs, proc, line>>
      /\ mon' \in MonitorState /\ mon'.pc = Again /\ ev' \in Events /\ ev'.terminate = ev.terminate
  BY AcknowledgeFacts
<1>2. UNCHANGED <<poll, n, srv>> /\ mon'.pc \in {"top", "leave"}
  BY <1>1 DEF MonitorSteps, tables, Again
<1>3. Typed'
  BY <1>1, <1>2 DEF Typed, CtxTypes
<1>4. RestOK' /\ VisitOK' /\ EndOK'
  BY <1>1, <1>2, MonitorRest
<1>5. ContextsOK'
  BY <1>1, <1>2 DEF ContextsOK, ContextOK, OwnOK, PacketOK, PlaceOK, WaitOK, Allocated, Serves, Serving
<1>6. SlotsOK' /\ PortsOK' /\ CountsOK' /\ DebuggersOK'
  BY <1>1, <1>2, SlotsSame, TameSame, TameTables, DebuggersKept
<1> QED BY <1>3, <1>4, <1>5, <1>6
---------------------------------------------------------------------------
(* The clients and the processes                                            *)

LEMMA SurroundingsBase ==
  ASSUME Base, UNCHANGED <<ctxs, shouldClose, ev, tables, srv, menu, use>>,
         backlog' \in [Ports -> BOOLEAN], proc' \in [Pids -> Process],
         line' \in [Ctxs -> Connection], \A c \in Ctxs : PacketOK(c)', mon' \in MonitorState,
         mon' = mon \/ (mon.pc = "asleep" /\ mon'.pc = "event" /\ mon'.c \in Ctxs)
  PROVE  Base'
<1> USE DEF Base
<1>1. UNCHANGED <<poll, compact_needed, n>>
  BY DEF tables
<1>2. Typed'
  BY <1>1 DEF Typed, CtxTypes
<1>3. RestOK'
  BY <1>1 DEF RestOK, Serving
<1>4. ContextsOK'
  <2>1. \A c \in Ctxs : OwnOK(c)' /\ PlaceOK(c)'
    BY DEF ContextsOK, ContextOK, OwnOK, PlaceOK, Allocated, Serves, Serving
  <2>2. \A c \in Ctxs : WaitOK(c)'
    BY DEF ContextsOK, ContextOK, WaitOK
  <2> QED BY <2>1, <2>2 DEF ContextsOK, ContextOK
<1>5. SlotsOK' /\ PortsOK' /\ CountsOK' /\ DebuggersOK' /\ VisitOK'
  BY <1>1, SlotsSame, TameSame, TameTables, DebuggersKept, VisitKept
<1>6. EndOK'
  BY <1>1 DEF EndOK, Over, Slots
<1> QED BY <1>2, <1>3, <1>4, <1>5, <1>6

LEMMA UseFacts ==
  ASSUME Base
  PROVE  /\ use.ports \subseteq Ports /\ use.pids \subseteq Pids /\ use.cmds \subseteq Commands
         /\ use.events \subseteq {"stop", "auto", "exit"} /\ use.disables \in BOOLEAN
<1>1. use \in [disables : BOOLEAN, ports : SUBSET Ports, pids : SUBSET Pids,
               cmds : SUBSET Commands, events : SUBSET {"stop", "auto", "exit"}]
  BY GdbAssumption DEF Base, RestOK
<1> QED BY <1>1

LEMMA SendFacts ==
  ASSUME Base, NEW c \in Ctxs, Send(c)
  PROVE  /\ ClientSteps /\ backlog' = backlog
         /\ line[c].st = "open" /\ line[c].pkt = NoPacket
         /\ \E pkt \in Packet :
              /\ pkt \in Packets(c) /\ pkt.cmd \in Commands
              /\ pkt.cmd = "vAttach" =>
                   /\ pkt.pid \in Pids /\ line[c].view \in {"none", "exited"}
                   /\ "EXTENDED_REMOTE" \in ctxs[c].flags /\ (AttachFails \/ ~Selected(pkt.pid))
              /\ pkt.cmd = "c" => line[c].view = "stopped"
              /\ line' \in [Ctxs -> Connection]
              /\ line'[c].st = "open" /\ line'[c].pkt = pkt
              /\ line'[c].view = IF pkt.cmd = "c" THEN "running"
                                 ELSE IF pkt.cmd = "brk" THEN "breaking" ELSE line[c].view
              /\ \A d \in Ctxs : d # c => line'[d] = line[d]
<1> USE DEF Base
<1>1. /\ ClientSteps /\ backlog' = backlog /\ line[c].st = "open" /\ line[c].pkt = NoPacket
      /\ line \in [Ctxs -> Connection]
  BY DEF Send, Typed
<1> DEFINE v(pkt) == IF pkt.cmd = "c" THEN "running" ELSE IF pkt.cmd = "brk" THEN "breaking" ELSE line[c].view
<1>2. PICK pkt \in Packets(c) : line' = [line EXCEPT ![c].pkt = pkt, ![c].view = v(pkt)]
  BY DEF Send
<1>3. /\ pkt \in Packet /\ pkt.cmd \in Commands
      /\ pkt.cmd = "vAttach" =>
           /\ pkt.pid \in Pids /\ line[c].view \in {"none", "exited"}
           /\ "EXTENDED_REMOTE" \in ctxs[c].flags /\ (AttachFails \/ ~Selected(pkt.pid))
      /\ pkt.cmd = "c" => line[c].view = "stopped"
  <2>1. CASE /\ pkt \in [cmd : {"vAttach"}, pid : {p \in use.pids : AttachFails \/ ~Selected(p)}]
             /\ line[c].view \in {"none", "exited"} /\ "EXTENDED_REMOTE" \in ctxs[c].flags
    BY <2>1, UseFacts DEF Packet, Commands
  <2>2. CASE pkt \in [cmd : use.cmds \cap
           CASE line[c].view = "stopped" -> {"c", "D", "k"}
             [] line[c].view = "running" -> {"brk"}
             [] OTHER -> IF "EXTENDED_REMOTE" \notin ctxs[c].flags THEN {"!"} ELSE {},
                      pid : {None}]
    <3>1. pkt.pid = None /\ pkt \in [cmd : use.cmds, pid : {None}]
      BY <2>2
    <3>2. CASE line[c].view = "stopped"
      BY <2>2, <3>1, <3>2, UseFacts DEF Packet, Commands
    <3>3. CASE line[c].view = "running"
      BY <2>2, <3>1, <3>3, UseFacts DEF Packet, Commands
    <3>4. CASE line[c].view \notin {"stopped", "running"}
      BY <2>2, <3>1, <3>4, UseFacts DEF Packet, Commands
    <3> QED BY <3>2, <3>3, <3>4
  <2> QED BY <1>2, <2>1, <2>2 DEF Packets
<1>4. v(pkt) \in {"none", "stopped", "running", "breaking", "exited"}
  BY <1>1 DEF Connection
<1> DEFINE w == v(pkt)
<1>5. w = IF pkt.cmd = "c" THEN "running" ELSE IF pkt.cmd = "brk" THEN "breaking" ELSE line[c].view
  OBVIOUS
<1>6. line' = [line EXCEPT ![c].pkt = pkt, ![c].view = w] /\ w \in {"none", "stopped", "running", "breaking", "exited"}
  BY <1>2, <1>4
<1> HIDE DEF w
<1>7. /\ line' \in [Ctxs -> Connection]
      /\ line'[c].st = "open" /\ line'[c].pkt = pkt /\ line'[c].view = w
      /\ \A d \in Ctxs : d # c => line'[d] = line[d]
  BY <1>1, <1>3, <1>6 DEF Connection
<1> QED BY <1>1, <1>3, <1>5, <1>7

LEMMA HangUpFacts ==
  ASSUME Base, NEW c \in Ctxs, HangUp(c)
  PROVE  /\ ClientSteps /\ backlog' = backlog /\ line[c].st = "open"
         /\ Polite => line[c].view \in {"none", "exited"} /\ line[c].pkt = NoPacket
         /\ line' \in [Ctxs -> Connection]
         /\ line'[c].st = "hup" /\ line'[c].pkt = NoPacket /\ line'[c].view = line[c].view
         /\ \A d \in Ctxs : d # c => line'[d] = line[d]
<1>1. line[c] \in Connection /\ NoPacket \in Packet /\ line \in [Ctxs -> Connection]
  BY NoLineType DEF Base, Typed
<1> DEFINE y == [line[c] EXCEPT !.st = "hup", !.pkt = NoPacket]
<1>2. line' = [line EXCEPT ![c] = y]
  BY <1>1 DEF HangUp
<1>3. y \in Connection /\ y.st = "hup" /\ y.pkt = NoPacket /\ y.view = line[c].view
  BY <1>1 DEF Connection
<1> HIDE DEF y
<1>4. line' \in [Ctxs -> Connection] /\ line'[c] = y /\ \A d \in Ctxs : d # c => line'[d] = line[d]
  BY <1>1, <1>2, <1>3
<1> QED BY <1>3, <1>4 DEF HangUp

LEMMA ClientsBase ==
  ASSUME Base, Clients
  PROVE  Base'
<1> USE DEF Base
<1>1. UNCHANGED <<ctxs, shouldClose, proc, ev, mon, tables, srv, menu, use>>
  BY DEF Clients, Connect, Send, HangUp, ClientSteps
<1>2. backlog \in [Ports -> BOOLEAN] /\ mon \in MonitorState /\ proc \in [Pids -> Process]
      /\ line \in [Ctxs -> Connection] /\ \A c \in Ctxs : PacketOK(c)
  BY DEF RestOK, Typed, ContextsOK, ContextOK
<1>3. CASE \E p \in Ports : Connect(p)
  <2>1. backlog' \in [Ports -> BOOLEAN] /\ line' = line
    BY <1>2, <1>3 DEF Connect
  <2>2. \A c \in Ctxs : PacketOK(c)'
    BY <1>2, <2>1 DEF PacketOK
  <2> QED BY <1>1, <1>2, <2>1, <2>2, SurroundingsBase
<1>4. CASE \E c \in Ctxs : Send(c)
  <2>1. PICK c \in Ctxs : Send(c)
    BY <1>4
  <2>2. PICK pkt \in Packet : /\ pkt.cmd = "vAttach" => pkt.pid \in Pids
                              /\ line' \in [Ctxs -> Connection] /\ line'[c].pkt = pkt
                              /\ \A d \in Ctxs : d # c => line'[d] = line[d]
    BY <2>1, SendFacts
  <2>3. \A d \in Ctxs : PacketOK(d)'
    BY <1>2, <2>2 DEF PacketOK
  <2>4. backlog' = backlog
    BY <2>1, SendFacts
  <2> QED BY <1>1, <1>2, <2>2, <2>3, <2>4, SurroundingsBase
<1>5. CASE \E c \in Ctxs : HangUp(c)
  <2>1. PICK c \in Ctxs : HangUp(c)
    BY <1>5
  <2>2. /\ line' \in [Ctxs -> Connection] /\ line'[c].pkt = NoPacket /\ backlog' = backlog
        /\ \A d \in Ctxs : d # c => line'[d] = line[d]
    BY <2>1, HangUpFacts
  <2>3. \A d \in Ctxs : PacketOK(d)'
    BY <1>2, <2>2 DEF PacketOK, NoPacket
  <2> QED BY <1>1, <1>2, <2>2, <2>3, SurroundingsBase
<1> QED BY <1>3, <1>4, <1>5 DEF Clients

LEMMA DebuggeeFacts ==
  ASSUME Base, NEW p \in Pids, Debuggee(p)
  PROVE  /\ UNCHANGED <<ctxs, shouldClose, connections, ev, tables, srv, menu, use>>
         /\ proc[p] = [st |-> "running", event |-> "none"]
         /\ proc' \in [Pids -> Process] /\ \A q \in Pids : q # p => proc'[q] = proc[q]
         /\ \/ proc'[p].event = "stop" /\ proc'[p].st = "stopped"
            \/ proc'[p].event = "auto" /\ proc'[p].st = "running"
            \/ proc'[p].event = "exit" /\ proc'[p].st = "dead"
         /\ mon' \in MonitorState
         /\ \E c \in Ctxs : /\ ctxs[c].debug = p
                            /\ IF Asleep(c, p) THEN mon'.pc = "event" /\ mon'.c = c /\ Wakes(c)
                               ELSE mon' = mon
<1> USE DEF Base
<1>1. /\ UNCHANGED <<ctxs, shouldClose, connections, ev, tables, srv, menu, use>>
      /\ proc[p] = [st |-> "running", event |-> "none"] /\ proc \in [Pids -> Process]
  BY DEF Debuggee, Typed
<1>2. /\ proc' \in [Pids -> Process] /\ \A q \in Pids : q # p => proc'[q] = proc[q]
      /\ \/ proc'[p].event = "stop" /\ proc'[p].st = "stopped"
         \/ proc'[p].event = "auto" /\ proc'[p].st = "running"
         \/ proc'[p].event = "exit" /\ proc'[p].st = "dead"
  <2>1. PICK e \in use.events :
               proc' = [proc EXCEPT ![p] = [event |-> e, st |-> CASE e = "stop" -> "stopped"
                                                                  [] e = "auto" -> "running"
                                                                  [] e = "exit" -> "dead"]]
    BY DEF Debuggee
  <2>2. e \in {"stop", "auto", "exit"}
    BY UseFacts
  <2>3. CASE e = "stop"
    BY <1>1, <2>1, <2>3 DEF Process
  <2>4. CASE e = "auto"
    BY <1>1, <2>1, <2>4 DEF Process
  <2>5. CASE e = "exit"
    BY <1>1, <2>1, <2>5 DEF Process
  <2> QED BY <2>2, <2>3, <2>4, <2>5
<1> DEFINE c == CHOOSE x \in Ctxs : ctxs[x].debug = p
<1>3. c \in Ctxs /\ ctxs[c].debug = p
  BY DEF Debuggee, Debugged
<1>4. IF Asleep(c, p) THEN Wakes(c) ELSE UNCHANGED mon
  BY DEF Debuggee
<1> HIDE DEF c
<1>5. Wakes(c) => mon' \in MonitorState /\ mon'.pc = "event" /\ mon'.c = c
  BY <1>3, WakesFacts
<1>6. mon \in MonitorState
  BY DEF RestOK
<1> QED BY <1>1, <1>2, <1>3, <1>4, <1>5, <1>6

LEMMA ProcessesBase ==
  ASSUME Base, Processes
  PROVE  Base'
<1> USE DEF Base
<1>1. \A c \in Ctxs : PacketOK(c)
  BY DEF ContextsOK, ContextOK
<1>2. backlog \in [Ports -> BOOLEAN] /\ mon \in MonitorState /\ line \in [Ctxs -> Connection]
      /\ proc \in [Pids -> Process]
  BY DEF RestOK, Typed
<1>3. CASE \E p \in Pids : Debuggee(p)
  <2>1. PICK p \in Pids : Debuggee(p)
    BY <1>3
  <2>2. /\ UNCHANGED <<ctxs, shouldClose, connections, ev, tables, srv, menu, use>>
        /\ proc' \in [Pids -> Process] /\ mon' \in MonitorState
        /\ \E c \in Ctxs : IF Asleep(c, p) THEN mon'.pc = "event" /\ mon'.c = c ELSE mon' = mon
    BY <2>1, DebuggeeFacts
  <2>3. backlog' = backlog /\ line' = line
    BY <2>2 DEF connections
  <2>4. \A c \in Ctxs : PacketOK(c)'
    BY <1>1, <2>3 DEF PacketOK
  <2>5. mon' = mon \/ (mon.pc = "asleep" /\ mon'.pc = "event" /\ mon'.c \in Ctxs)
    BY <2>2 DEF Asleep
  <2> QED BY <1>2, <2>2, <2>3, <2>4, <2>5, SurroundingsBase
<1>4. CASE \E p \in Pids : Restarted(p)
  <2>1. /\ UNCHANGED <<ctxs, shouldClose, line, backlog, ev, mon, tables, srv, menu, use>>
        /\ \E p \in Pids : proc' = [proc EXCEPT ![p] = [st |-> "running", event |-> "none"]]
    BY <1>4 DEF Restarted, connections
  <2>2. proc' \in [Pids -> Process]
    BY <1>2, <2>1 DEF Process
  <2>3. \A c \in Ctxs : PacketOK(c)'
    BY <1>1, <2>1 DEF PacketOK
  <2> QED BY <1>2, <2>1, <2>2, <2>3, SurroundingsBase
<1> QED BY <1>3, <1>4 DEF Processes

LEMMA StutterBase ==
  ASSUME Base, UNCHANGED vars
  PROVE  Base'
<1> USE DEF Base
<1>1. /\ UNCHANGED <<ctxs, shouldClose, ev, tables, srv, menu, use>>
      /\ UNCHANGED <<backlog, proc, line, mon>>
  BY DEF vars, connections, tables
<1>2. backlog' \in [Ports -> BOOLEAN] /\ proc' \in [Pids -> Process] /\ line' \in [Ctxs -> Connection]
      /\ mon' \in MonitorState
  BY <1>1 DEF RestOK, Typed
<1>3. \A c \in Ctxs : PacketOK(c)'
  BY <1>1 DEF ContextsOK, ContextOK, PacketOK
<1> QED BY <1>1, <1>2, <1>3, SurroundingsBase
---------------------------------------------------------------------------
(* The menu                                                                 *)

LEMMA GreatestElement ==
  ASSUME NEW m \in Nat, NEW S, S \subseteq 1 .. m, S # {}
  PROVE  Max(S) \in S /\ \A y \in S : y =< Max(S)
<1> DEFINE T == {m - x : x \in S}
<1>0. \A x \in S : x \in 1 .. m /\ m - x \in Nat
  <2>1. \A x \in 1 .. m : m - x \in Nat
    OBVIOUS
  <2> QED BY <2>1
<1>1. T \subseteq Nat /\ T # {}
  BY <1>0, Zenon
<1>2. PICK t \in T : \A u \in T : t =< u
  BY <1>1, LeastElement
<1>3. PICK x \in S : t = m - x
  BY <1>2
<1>4. ASSUME NEW y \in S
      PROVE  x >= y
  <2>1. m - x =< m - y
    BY <1>2, <1>3
  <2>2. x \in 1 .. m /\ y \in 1 .. m
    BY <1>0, Zenon
  <2> HIDE DEF T
  <2> QED BY <2>1, <2>2
<1>5. \E z \in S : \A y \in S : z >= y
  BY <1>3, <1>4
<1>6. Max(S) \in S /\ \A y \in S : Max(S) >= y
  BY <1>5 DEF Max
<1> QED BY <1>6

LEMMA SelectFacts ==
  ASSUME Base, NEW p \in Pids, SelectProcess(p)
  PROVE  /\ UNCHANGED <<shouldClose, line, ev, mon, poll, menu, proc, backlog, compact_needed, n, srv, use>>
         /\ menu = "open" /\ Running /\ NoneHeld /\ proc[p].st # "dead"
         /\ AttachFails \/ ~(Debugged(p) \/ Asked(p))
         /\ Found(p) = {} /\ ctxs \in [Ctxs -> Context]
         /\ \E c \in Ctxs, q \in Ports :
              /\ c \in Free /\ q \notin UsedPorts /\ ctxs' = [ctxs EXCEPT ![c] = SetAside(ctxs[c], p, q)]
<1> USE DEF Base
<1>1. /\ UNCHANGED <<shouldClose, line, ev, mon, poll, menu, proc, backlog, compact_needed, n, srv, use>>
      /\ menu = "open" /\ Running /\ NoneHeld /\ proc[p].st # "dead"
      /\ AttachFails \/ ~(Debugged(p) \/ Asked(p))
      /\ Found(p) = {} /\ Free # {} /\ Ports \ UsedPorts # {}
  BY DEF SelectProcess, MenuSteps
<1>2. Min(Free) \in Free
  <2>1. Free \subseteq Nat
    BY SlotNames, GdbAssumption DEF Free, Ctxs
  <2> QED BY <1>1, <2>1, MinFacts
<1>3. Min(Ports \ UsedPorts) \in Ports \ UsedPorts
  <2>1. Ports \ UsedPorts \subseteq Nat
    BY SlotNames
  <2> QED BY <1>1, <2>1, MinFacts
<1>4. ctxs \in [Ctxs -> Context] /\ ctxs' = [ctxs EXCEPT ![Min(Free)] = SetAside(ctxs[Min(Free)], p, Min(Ports \ UsedPorts))]
  BY <1>2 DEF SelectProcess, Typed, CtxTypes, Free
<1>5. Min(Free) \in Ctxs
  BY <1>2 DEF Free
<1> QED BY <1>1, <1>2, <1>3, <1>4, <1>5

LEMMA DeselectFacts ==
  ASSUME Base, NEW p \in Pids, DeselectProcess(p)
  PROVE  /\ UNCHANGED <<shouldClose, line, ev, mon, poll, menu, proc, backlog, compact_needed, n, srv, use>>
         /\ menu = "open" /\ Running /\ NoneHeld
         /\ \E c \in Ctxs : /\ "SELECTED" \in ctxs[c].flags /\ "USED" \notin ctxs[c].flags
                            /\ ctxs' = [ctxs EXCEPT ![c] = GivenUp(ctxs[c])]
<1> DEFINE c == Max(Found(p))
<1>1. /\ UNCHANGED <<shouldClose, line, ev, mon, poll, menu, proc, backlog, compact_needed, n, srv, use>>
      /\ menu = "open" /\ Running /\ NoneHeld /\ Found(p) # {}
      /\ ctxs[c].flags \cap {"SELECTED", "USED"} = {"SELECTED"}
      /\ ctxs' = [ctxs EXCEPT ![c] = GivenUp(@)]
  BY DEF DeselectProcess, MenuSteps
<1>2. c \in Found(p)
  <2>1. Found(p) \subseteq 1 .. MAX_DEBUG /\ MAX_DEBUG \in Nat
    BY GdbAssumption DEF Found, Ctxs
  <2> QED BY <1>1, <2>1, GreatestElement
<1>3. c \in Ctxs
  BY <1>2 DEF Found
<1> HIDE DEF c
<1>4. ctxs' = [ctxs EXCEPT ![c] = GivenUp(ctxs[c])]
  BY <1>1, <1>3 DEF Base, Typed, CtxTypes
<1> QED BY <1>1, <1>3, <1>4

(* A context without a client is set aside, or given up.                    *)
LEMMA SetAsideBase ==
  ASSUME Base,
         UNCHANGED <<shouldClose, line, ev, mon, poll, menu, proc, backlog, compact_needed, n, srv, use>>,
         NEW c \in Ctxs, NEW y \in Context, "USED" \notin ctxs[c].flags, ctxs' = [ctxs EXCEPT ![c] = y],
         "USED" \notin y.flags, y.state = ctxs[c].state, y.debug = ctxs[c].debug,
         y.eventToWaitFor = ctxs[c].eventToWaitFor,
         \/ "SELECTED" \in y.flags /\ y.pid \in Pids /\ y.localPort \notin UsedPorts
         \/ "SELECTED" \notin y.flags /\ y.localPort = Nothing
  PROVE  Base'
<1> USE DEF Base
<1>1. ctxs[c].debug = None /\ ctxs[c].state # "ATTACHED"
  BY DEF ContextsOK, ContextOK, OwnOK
<1>2. CtxTypes' /\ ctxs'[c] = y /\ \A d \in Ctxs : d # c => ctxs'[d] = ctxs[d]
  BY <1>1, CtxUpdate DEF Typed
<1>3. Typed' /\ RestOK'
  <2>1. Typed'
    BY <1>2 DEF Typed
  <2>2. RestOK'
    BY DEF RestOK, Serving
  <2> QED BY <2>1, <2>2
<1>4. ContextsOK'
  <2>1. OwnOK(c)' /\ \A d \in Ctxs : d # c => OwnOK(d)'
    BY <1>1, <1>2 DEF ContextsOK, ContextOK, OwnOK, Allocated
  <2>2. \A d \in Ctxs : PacketOK(d)' /\ WaitOK(d)'
    BY <1>2 DEF ContextsOK, ContextOK, PacketOK, WaitOK
  <2>3. \A d \in Ctxs : PlaceOK(d)'
    BY <1>2 DEF ContextsOK, ContextOK, PlaceOK, Serves, Serving
  <2> QED BY <2>1, <2>2, <2>3 DEF ContextsOK, ContextOK
<1>5. \A d \in Ctxs : "USED" \in ctxs'[d].flags <=> "USED" \in ctxs[d].flags
  BY <1>2
<1>6. \A d \in Ctxs : "USED" \in ctxs[d].flags => ctxs'[d] = ctxs[d]
  BY <1>2
<1>7. SlotsOK'
  BY <1>5, <1>6 DEF SlotsOK
<1>8. CountsOK'
  BY <1>5, <1>6 DEF CountsOK
<1>9. PortsOK'
  <2>1. \A d \in Ctxs : d # c => (Allocated(d)' <=> Allocated(d)) /\ ctxs'[d].localPort = ctxs[d].localPort
    BY <1>2 DEF Allocated
  <2>2. \A d \in Ctxs : d # c /\ Allocated(d) /\ Allocated(c)' => ctxs[d].localPort # ctxs'[c].localPort
    BY <1>2 DEF Allocated, UsedPorts
  <2> QED BY <2>1, <2>2 DEF PortsOK
<1>10. DebuggersOK' /\ VisitOK'
  BY <1>2, DebuggersKept, VisitKept
<1>11. EndOK'
  BY <1>2 DEF EndOK, Over, Slots
<1> QED BY <1>3, <1>4, <1>7, <1>8, <1>9, <1>10, <1>11

LEMMA MenuBase ==
  ASSUME Base, Menu
  PROVE  Base'
<1> USE DEF Base
<1>1. CASE Disable
  <2>1. /\ menu' = "killing" /\ SignalTerminate
        /\ UNCHANGED <<ctxs, shouldClose, line, poll, proc, backlog, compact_needed, n, srv, use>>
    BY <1>1 DEF Disable, MenuSteps
  <2>2. /\ mon' \in MonitorState /\ ev' \in Events /\ ev'.terminate = TRUE
        /\ mon' = mon \/ (mon.pc = "asleep" /\ mon'.pc = "leave")
    BY <2>1, TerminateFacts DEF RestOK
  <2>3. Typed' /\ RestOK'
    BY <2>1, <2>2 DEF Typed, CtxTypes, RestOK, Serving
  <2>4. ContextsOK'
    <3>1. \A c \in Ctxs : OwnOK(c)' /\ PacketOK(c)' /\ PlaceOK(c)'
      BY <2>1 DEF ContextsOK, ContextOK, OwnOK, PacketOK, PlaceOK, Allocated, Serves, Serving
    <3>2. \A c \in Ctxs : WaitOK(c)'
      BY <2>1, <2>2 DEF ContextsOK, ContextOK, WaitOK
    <3> QED BY <3>1, <3>2 DEF ContextsOK, ContextOK
  <2>5. SlotsOK' /\ PortsOK' /\ CountsOK' /\ DebuggersOK' /\ VisitOK'
    BY <2>1, <2>2, SlotsSame, TameSame, TameTables, DebuggersKept, VisitKept
  <2>6. EndOK'
    BY <2>1, <2>2 DEF EndOK, Over, Slots
  <2> QED BY <2>3, <2>4, <2>5, <2>6
<1>2. CASE DisableKills
  <2>1. /\ menu = "killing" /\ menu' = "joining" /\ KillConnections
        /\ UNCHANGED <<ctxs, ev, mon, proc, backlog, compact_needed, n, srv, use>>
    BY <1>2 DEF DisableKills, MenuSteps
  <2>2. /\ poll' \in Seq(Slot) /\ Len(poll') = Len(poll) /\ DOMAIN poll' = DOMAIN poll
        /\ \A k \in DOMAIN poll : poll'[k].fd = Nothing /\ poll'[k].ctx = poll[k].ctx
        /\ shouldClose' \subseteq (-NPorts) .. MAX_DEBUG
        /\ line' \in [Ctxs -> Connection] /\ (\A c \in Ctxs : PacketOK(c)')
    BY <2>1, KillFacts
  <2>3. Typed' /\ RestOK' /\ ev.terminate
    BY <2>1, <2>2 DEF Typed, CtxTypes, RestOK, Serving, EndOK
  <2>4. ContextsOK'
    BY <2>1, <2>2 DEF ContextsOK, ContextOK, OwnOK, PlaceOK, WaitOK, Allocated, Serves, Serving
  <2>5. SlotsOK' /\ PortsOK' /\ CountsOK'
    <3>1. TameSlots
      BY <2>1, <2>2, <2>3 DEF TameSlots
    <3> QED BY <2>1, <3>1, TameSame, TameTables
  <2>6. DebuggersOK' /\ VisitOK'
    BY <2>1, <2>2, DebuggersKept, VisitKept
  <2>7. EndOK'
    BY <2>1, <2>2, <2>3 DEF EndOK, Over, Slots
  <2> QED BY <2>2, <2>3, <2>4, <2>5, <2>6, <2>7
<1>3. CASE DisableJoins
  <2>1. /\ menu = "joining" /\ menu' = "off"
        /\ UNCHANGED <<ctxs, shouldClose, line, ev, mon, poll, proc, backlog, compact_needed, n, srv, use>>
    BY <1>3 DEF DisableJoins, MenuSteps
  <2>2. Typed' /\ RestOK'
    BY <2>1 DEF Typed, CtxTypes, RestOK, Serving
  <2>3. ContextsOK'
    BY <2>1 DEF ContextsOK, ContextOK, OwnOK, PacketOK, PlaceOK, WaitOK, Allocated, Serves, Serving
  <2>4. SlotsOK' /\ PortsOK' /\ CountsOK' /\ DebuggersOK' /\ VisitOK'
    BY <2>1, SlotsSame, TameSame, TameTables, DebuggersKept, VisitKept
  <2>5. EndOK'
    BY <2>1 DEF EndOK, Over, Slots
  <2> QED BY <2>2, <2>3, <2>4, <2>5
<1>4. CASE \E p \in Pids : SelectProcess(p)
  <2>1. PICK p \in Pids : SelectProcess(p)
    BY <1>4
  <2>2. UNCHANGED <<shouldClose, line, ev, mon, poll, menu, proc, backlog, compact_needed, n, srv, use>>
    BY <2>1, SelectFacts
  <2>3. PICK c \in Ctxs, q \in Ports :
              /\ c \in Free /\ q \notin UsedPorts /\ ctxs' = [ctxs EXCEPT ![c] = SetAside(ctxs[c], p, q)]
    BY <2>1, SelectFacts
  <2> DEFINE y == SetAside(ctxs[c], p, q)
  <2>4. ctxs[c] \in Context /\ "USED" \notin ctxs[c].flags
    BY <2>3 DEF Typed, CtxTypes, Free, Allocated
  <2>5. /\ y \in Context /\ "USED" \notin y.flags /\ "SELECTED" \in y.flags /\ y.state = ctxs[c].state
        /\ y.debug = ctxs[c].debug /\ y.pid = p /\ y.localPort = q
        /\ y.eventToWaitFor = ctxs[c].eventToWaitFor
    BY <2>4, SetAsideFacts
  <2> HIDE DEF y
  <2> QED BY <2>2, <2>3, <2>4, <2>5, SetAsideBase DEF y
<1>5. CASE \E p \in Pids : DeselectProcess(p)
  <2>1. PICK p \in Pids : DeselectProcess(p)
    BY <1>5
  <2>2. UNCHANGED <<shouldClose, line, ev, mon, poll, menu, proc, backlog, compact_needed, n, srv, use>>
    BY <2>1, DeselectFacts
  <2>3. PICK c \in Ctxs : "USED" \notin ctxs[c].flags /\ ctxs' = [ctxs EXCEPT ![c] = GivenUp(ctxs[c])]
    BY <2>1, DeselectFacts
  <2> DEFINE y == GivenUp(ctxs[c])
  <2>4. ctxs[c] \in Context
    BY DEF Typed, CtxTypes
  <2>5. /\ y \in Context /\ "USED" \notin y.flags /\ "SELECTED" \notin y.flags /\ y.state = ctxs[c].state
        /\ y.debug = ctxs[c].debug /\ y.localPort = Nothing
        /\ y.eventToWaitFor = ctxs[c].eventToWaitFor
    BY <2>3, <2>4, GivenUpFacts
  <2> HIDE DEF y
  <2> QED BY <2>2, <2>3, <2>5, SetAsideBase DEF y
<1> QED BY <1>1, <1>2, <1>3, <1>4, <1>5 DEF Menu

---------------------------------------------------------------------------
(* The type invariant                                                       *)

LEMMA InitBase == ASSUME Init PROVE Base
<1> USE DEF Init
<1>1. Blank \in Context
  <2>1. 0 \in 0 .. MAX_CTXS
    BY GdbAssumption
  <2> QED BY <2>1 DEF Blank, Context
<1>2. CtxTypes
  BY <1>1 DEF CtxTypes, Blank
<1>3. \A p \in Ports : [fd |-> Listening(p), ctx |-> Listening(p), revents |-> "none"] \in Slot
  BY SlotNames DEF Slot, Listening
<1>4. poll \in Seq(Slot) /\ Len(poll) <= MAX_CTXS /\ DOMAIN poll = Ports
  <2>1. NPorts \in Nat /\ MAX_CTXS \in Nat /\ NPorts <= MAX_CTXS
    BY GdbAssumption
  <2>2. poll \in [1 .. NPorts -> Slot]
    BY <1>3 DEF Ports
  <2>3. poll \in Seq(Slot) /\ Len(poll) = NPorts
    BY <2>1, <2>2
  <2> QED BY <2>1, <2>3 DEF Ports
<1>5. Typed
  BY <1>2, <1>4, NoLineType DEF Typed, Process
<1>6. mon \in MonitorState /\ mon.pc = "top"
  BY NoHandlesFacts DEF MonPlaces
<1>7. srv \in ServerState /\ srv.pc = "poll"
  BY SlotNames DEF Polling, ServerState, SrvPlaces
<1>8. RestOK
  BY <1>6, <1>7 DEF RestOK, Serving, Events
<1>9. ContextsOK
  BY <1>6, <1>7 DEF ContextsOK, ContextOK, OwnOK, PacketOK, PlaceOK, WaitOK, Allocated, Serves, Serving,
                    Blank, NoLine, NoPacket
<1>10. \A k \in DOMAIN poll : poll[k].ctx \notin Ctxs /\ poll[k].fd = poll[k].ctx
  BY <1>4, SlotNames DEF Listening
<1>11. SlotsOK
  BY <1>10 DEF SlotsOK, Blank
<1>12. PortsOK /\ CountsOK /\ DebuggersOK
  BY DEF PortsOK, CountsOK, DebuggersOK, Allocated, Blank
<1>13. VisitOK /\ EndOK
  BY <1>6, <1>7 DEF VisitOK, EndOK, Over
<1> QED BY <1>5, <1>8, <1>9, <1>11, <1>12, <1>13 DEF Base

LEMMA NextBase == ASSUME Base, [Next]_vars PROVE Base'
<1>1. CASE Server
  BY <1>1, PollsBase, CompactsBase, VisitsBase, AcceptsBase, AcceptClientBase, ClosesBase, AnswerBase,
     ClosedBase, PacketBase, DetachesBase, AbortsBase, LeavesBase DEF Server
<1>2. CASE Monitor
  BY <1>2, ReadsBase, WaitsBase, AcknowledgesBase, EventBase, LeavesBase DEF Monitor
<1> QED BY <1>1, <1>2, MenuBase, ClientsBase, ProcessesBase, StutterBase DEF Next

(* The tables of sockets and contexts, the debugged processes and the       *)
(* connections keep their types whatever happens, and what is attached has  *)
(* a process: no action of the server, the monitor or the menu leaves an    *)
(* index or a count out of its range.                                       *)
THEOREM TypeCorrect == Spec => []TypeOK
<1>1. Base => TypeOK
  BY DEF Base, Typed, CtxTypes, TypeOK
<1> QED BY <1>1, InitBase, NextBase, PTL DEF Spec

(* A process has one debugger at most, whoever attaches to it: the menu's   *)
(* selection (GDB_AcceptClient) or a client's vAttach.                      *)
THEOREM OneDebugger == Spec => []DebuggersOK
<1>1. Base => DebuggersOK
  BY DEF Base
<1> QED BY <1>1, InitBase, NextBase, PTL DEF Spec

---------------------------------------------------------------------------
(* When attaching does not fail: what waits for a client, and empty slots   *)

(* Nothing is awaited that was not, and nobody gets hold of a process.      *)
Steady(c) ==
  /\ "SELECTED" \in ctxs'[c].flags =>
       /\ "SELECTED" \in ctxs[c].flags /\ ctxs'[c].debug = ctxs[c].debug /\ ctxs'[c].pid = ctxs[c].pid
       /\ "USED" \in ctxs'[c].flags => "USED" \in ctxs[c].flags
  /\ ctxs'[c].debug = ctxs[c].debug \/ ctxs'[c].debug = None
NoneDies == \A p \in Pids : ~Debugged(p) /\ proc[p].st # "dead" => proc'[p].st # "dead"
NoneAsks == \A c \in Ctxs : line'[c].pkt.cmd = "vAttach" => line'[c].pkt = line[c].pkt

LEMMA AwaitsSteady ==
  ASSUME Base, AwaitsOK, \A c \in Ctxs : Steady(c), NoneDies, NoneAsks,
         srv.pc = "accepted" => srv' = srv \/ "SELECTED" \notin ctxs[srv.c].flags
  PROVE  AwaitsOK'
<1>1. \A c \in Ctxs : Awaits(c)' => /\ Awaits(c) /\ ctxs'[c].pid = ctxs[c].pid /\ ctxs[c].pid \in Pids
                                    /\ "USED" \in ctxs'[c].flags => "USED" \in ctxs[c].flags
  BY DEF Awaits, Steady, Base, ContextsOK, ContextOK, OwnOK
<1>2. \A p \in Pids : Debugged(p)' => Debugged(p)
  BY GdbAssumption DEF Debugged, Steady
<1>3. \A c \in Ctxs : Awaits(c)' => Attachable(ctxs[c].pid)'
  <2>1. \A p \in Pids : Attachable(p) => Attachable(p)'
    BY <1>2 DEF Attachable, NoneDies
  <2>2. \A c \in Ctxs : Awaits(c)' => ctxs'[c].pid \in Pids /\ Attachable(ctxs[c].pid) /\ ctxs'[c].pid = ctxs[c].pid
    BY <1>1 DEF AwaitsOK
  <2> QED BY <2>1, <2>2 DEF Attachable, Debugged
<1>4. \A c \in Ctxs : Awaits(c)' /\ "USED" \in ctxs'[c].flags => srv'.pc = "accepted" /\ srv'.c = c
  <2> SUFFICES ASSUME NEW c \in Ctxs, Awaits(c)', "USED" \in ctxs'[c].flags
               PROVE  srv'.pc = "accepted" /\ srv'.c = c
    OBVIOUS
  <2>1. Awaits(c) /\ srv.pc = "accepted" /\ srv.c = c
    BY <1>1 DEF AwaitsOK
  <2>2. "SELECTED" \in ctxs[srv.c].flags
    BY <2>1 DEF Awaits
  <2> QED BY <2>1, <2>2
<1>5. \A c, d \in Ctxs : Awaits(c)' /\ Awaits(d)' /\ ctxs'[c].pid = ctxs'[d].pid => c = d
  BY <1>1 DEF AwaitsOK
<1>6. \A c, d \in Ctxs : Awaits(c)' /\ line'[d].pkt.cmd = "vAttach" => line'[d].pkt.pid # ctxs'[c].pid
  BY <1>1 DEF AwaitsOK, NoneAsks
<1> QED BY <1>3, <1>4, <1>5, <1>6 DEF AwaitsOK

LEMMA SteadySame ==
  ASSUME NEW c \in Ctxs, ctxs'[c].flags = ctxs[c].flags, ctxs'[c].debug = ctxs[c].debug, ctxs'[c].pid = ctxs[c].pid
  PROVE  Steady(c)
BY DEF Steady

LEMMA SteadyAll == ASSUME ctxs' = ctxs PROVE \A c \in Ctxs : Steady(c)
BY DEF Steady

LEMMA NothingMoves == ASSUME UNCHANGED <<proc, line>> PROVE NoneDies /\ NoneAsks
BY DEF NoneDies, NoneAsks

(* Steps that leave the server and its slots where they are                 *)
LEMMA PlacesKept ==
  ASSUME EmptyOK, InPlace, srv' = srv, compact_needed' = compact_needed, DOMAIN poll' = DOMAIN poll,
         \A k \in DOMAIN poll : poll'[k].ctx = poll[k].ctx
  PROVE  EmptyOK' /\ InPlace'
<1>1. EmptyOK'
  BY DEF EmptyOK
<1>2. InPlace'
  BY DEF InPlace
<1> QED BY <1>1, <1>2

(* The server goes on at the slot where it is.                              *)
LEMMA SameSlot ==
  ASSUME EmptyOK, InPlace, srv.pc \in InVisit \ {"accepted"}, srv'.pc \in InVisit, srv'.i = srv.i, srv'.c = srv.c,
         compact_needed' = compact_needed \/ compact_needed',
         srv'.pc \in {"closing", "waiting", "closed"} => compact_needed', poll' = poll
  PROVE  EmptyOK' /\ InPlace'
<1>1. EmptyOK'
  BY DEF EmptyOK, InVisit
<1>2. InPlace'
  BY DEF InPlace, InVisit
<1> QED BY <1>1, <1>2

(* It goes to the next one.                                                 *)
LEMMA SlotDone ==
  ASSUME EmptyOK, srv.pc \in InVisit, srv'.pc = "visit", srv.i \in Nat, srv'.i = srv.i + 1,
         compact_needed' = compact_needed, poll \in Seq(Slot), poll' = poll
  PROVE  EmptyOK' /\ InPlace'
<1>1. \A k \in DOMAIN poll : k \in Nat
  OBVIOUS
<1>2. \A k \in DOMAIN poll : k < srv.i => k < srv.i + 1
  BY <1>1
<1>3. EmptyOK'
  BY <1>2 DEF EmptyOK, InVisit
<1>4. InPlace'
  BY DEF InPlace
<1> QED BY <1>3, <1>4

(* It has done with the slots.                                              *)
LEMMA SlotsLeft ==
  ASSUME srv'.pc \in {"abort", "leave", "gone"}
  PROVE  EmptyOK' /\ InPlace'
BY DEF EmptyOK, InPlace, InVisit

LEMMA PollsNoFail ==
  ASSUME Base, NoFail, ServerPolls
  PROVE  NoFail'
<1>1. /\ ctxs' = ctxs /\ UNCHANGED <<proc, line>> /\ compact_needed' = compact_needed /\ srv.pc = "poll"
  BY DEF ServerPolls, At, connections
<1>2. AwaitsOK'
  BY <1>1, SteadyAll, NothingMoves, AwaitsSteady DEF NoFail
<1>3. CASE ev.terminate
  <2>1. srv'.pc = "abort"
    BY <1>3, ToFacts DEF ServerPolls, Base, RestOK, SrvPlaces
  <2> QED BY <1>2, <2>1, SlotsLeft DEF NoFail
<1>4. CASE ~ev.terminate
  <2>1. /\ DOMAIN poll' = DOMAIN poll /\ srv'.pc = "visit"
        /\ \A k \in DOMAIN poll : poll'[k].ctx = poll[k].ctx
    BY <1>4, PollsBase
  <2>2. \A k \in DOMAIN poll' : poll'[k].ctx # Nothing
    BY <1>1, <2>1 DEF NoFail, EmptyOK
  <2>3. EmptyOK' /\ InPlace'
    BY <2>1, <2>2 DEF EmptyOK, InPlace
  <2> QED BY <1>2, <2>3 DEF NoFail
<1> QED BY <1>3, <1>4

LEMMA VisitsNoFail ==
  ASSUME Base, NoFail, ServerVisits
  PROVE  NoFail'
<1>1. /\ ctxs' = ctxs /\ UNCHANGED <<proc, line, poll, compact_needed>> /\ srv.pc = "visit"
      /\ poll \in Seq(Slot) /\ srv.i \in Nat
  BY DEF ServerVisits, At, connections, tables, Base, Typed, RestOK, ServerState
<1>2. AwaitsOK'
  BY <1>1, SteadyAll, NothingMoves, AwaitsSteady DEF NoFail
<1>3. \A k \in DOMAIN poll : poll[k].ctx = Nothing => compact_needed /\ k < srv.i
  BY <1>1 DEF NoFail, EmptyOK
<1>4. \A k \in DOMAIN poll : k \in Nat /\ k <= Len(poll) /\ Len(poll) \in Nat
  BY <1>1
<1>5. CASE srv'.pc = "visit" /\ srv'.i = Len(poll) + 1
  <2>1. \A k \in DOMAIN poll : k < srv'.i
    BY <1>4, <1>5
  <2>2. EmptyOK' /\ InPlace'
    BY <1>1, <1>3, <1>5, <2>1 DEF EmptyOK, InPlace
  <2> QED BY <1>2, <2>2 DEF NoFail
<1>6. CASE /\ srv'.i \in DOMAIN poll /\ srv'.i >= srv.i /\ srv'.c = poll[srv'.i].ctx
           /\ srv'.pc = IF srv'.c = Nothing THEN "fault"
                        ELSE IF poll[srv'.i].revents = "hup" \/ srv'.c \in shouldClose THEN "close"
                        ELSE IF srv'.c < 0 THEN "accept" ELSE "data"
  <2>1. srv'.i \in Nat /\ ~(srv'.i < srv.i)
    BY <1>1, <1>4, <1>6
  <2>2. srv'.c # Nothing
    BY <1>3, <1>6, <2>1
  <2>3. srv'.pc \in {"close", "accept", "data"}
    BY <1>6, <2>2
  <2>4. \A k \in DOMAIN poll : k < srv.i => k < srv'.i
    BY <1>1, <1>4, <1>6, <2>1
  <2>5. EmptyOK'
    BY <1>1, <1>3, <2>3, <2>4 DEF EmptyOK, InVisit
  <2>6. InPlace'
    BY <1>1, <1>6 DEF InPlace
  <2> QED BY <1>2, <2>5, <2>6 DEF NoFail
<1> QED BY <1>5, <1>6, VisitsBase

LEMMA CompactsNoFail ==
  ASSUME Base, NoFail, ServerCompacts
  PROVE  NoFail'
<1>1. UNCHANGED <<proc, line>> /\ srv.pc = "visit"
  BY DEF ServerCompacts, At, connections
<1>2. CASE ev.terminate
  <2>1. srv'.pc = "abort" /\ ctxs' = ctxs
    BY <1>2, ToFacts DEF ServerCompacts, Base, RestOK, SrvPlaces
  <2> QED BY <1>1, <2>1, SlotsLeft, SteadyAll, NothingMoves, AwaitsSteady DEF NoFail
<1>3. CASE ~ev.terminate
  <2>1. srv'.pc = "poll"
    BY <1>3 DEF ServerCompacts, Polling
  <2>2. (\A c \in Ctxs : Steady(c)) /\ \A k \in DOMAIN poll' : poll'[k].ctx # Nothing
    <3>1. CASE ~compact_needed
      <4>1. /\ DOMAIN poll' = DOMAIN poll /\ ctxs' = ctxs
            /\ \A k \in DOMAIN poll : poll'[k].ctx = poll[k].ctx
        BY <1>3, <3>1, NotCompacted
      <4>2. \A k \in DOMAIN poll : poll[k].ctx # Nothing
        BY <1>1, <3>1 DEF NoFail, EmptyOK
      <4> QED BY <4>1, <4>2, SteadyAll
    <3>2. CASE compact_needed
      <4>1. \A c \in Ctxs : SameButIndex(ctxs[c], ctxs'[c])
        BY <1>3, <3>2, Compacted
      <4>2. PICK f \in [DOMAIN poll' -> Slots] : \A k \in DOMAIN poll' : poll'[k].ctx = poll[f[k]].ctx
        BY <1>3, <3>2, Compacted
      <4>3. \A k \in Slots : k \in DOMAIN poll /\ poll[k].fd # Nothing /\ poll[k].ctx # Nothing
        BY DEF Slots, Base, SlotsOK
      <4>4. \A k \in DOMAIN poll' : f[k] \in Slots
        BY <4>2
      <4>5. \A k \in DOMAIN poll' : poll'[k].ctx # Nothing
        BY <4>2, <4>3, <4>4
      <4> QED BY <4>1, <4>5, SteadySame DEF SameButIndex
    <3> QED BY <3>1, <3>2
  <2>3. AwaitsOK'
    BY <1>1, <2>2, NothingMoves, AwaitsSteady DEF NoFail
  <2>4. EmptyOK' /\ InPlace'
    BY <2>1, <2>2 DEF EmptyOK, InPlace, InVisit
  <2> QED BY <2>3, <2>4 DEF NoFail
<1> QED BY <1>2, <1>3

LEMMA AnswersNoFail ==
  ASSUME Base, NoFail, ServerAsks \/ ServerIsAnswered
  PROVE  NoFail'
<1>1. /\ ctxs' = ctxs /\ UNCHANGED <<proc, line, poll, compact_needed>>
      /\ srv.pc \in {"closing", "waiting"} /\ (To("waiting") \/ To("closed"))
  BY DEF ServerAsks, ServerIsAnswered, At, connections, tables
<1>2. srv'.pc \in {"waiting", "closed"} /\ srv'.i = srv.i /\ srv'.c = srv.c
  BY <1>1, ToFacts DEF Base, RestOK, SrvPlaces
<1>3. EmptyOK' /\ InPlace'
  BY <1>1, <1>2, SameSlot DEF InVisit, NoFail, EmptyOK
<1>4. AwaitsOK'
  BY <1>1, SteadyAll, NothingMoves, AwaitsSteady DEF NoFail
<1> QED BY <1>3, <1>4 DEF NoFail

LEMMA ClosesNoFail ==
  ASSUME Base, NoFail, ServerCloses
  PROVE  NoFail'
<1>1. /\ UNCHANGED <<proc, line, poll>> /\ compact_needed' = TRUE /\ srv.pc = "close"
      /\ To("closed") \/ To("closing")
      /\ ctxs' = ctxs \/ (srv.c \in Ctxs /\ ctxs' = [ctxs EXCEPT ![srv.c] = Resets(ctxs[srv.c])])
  BY ClosesFacts
<1>2. srv'.pc \in {"closing", "closed"} /\ srv'.i = srv.i /\ srv'.c = srv.c
  BY <1>1, ToFacts DEF Base, RestOK, SrvPlaces
<1>3. EmptyOK' /\ InPlace'
  BY <1>1, <1>2, SameSlot DEF InVisit, NoFail
<1>4. \A c \in Ctxs : Steady(c)
  <2>1. \A c \in Ctxs : ctxs[c] \in Context
    BY DEF Base, Typed, CtxTypes
  <2>2. \A c \in Ctxs : ctxs'[c] = ctxs[c] \/ ctxs'[c] = Resets(ctxs[c])
    BY <1>1 DEF Base, Typed, CtxTypes
  <2>3. \A x \in Context : Resets(x).flags = x.flags /\ Resets(x).debug = x.debug /\ Resets(x).pid = x.pid
    BY ResetsFacts
  <2>4. \A c \in Ctxs : /\ ctxs'[c].flags = ctxs[c].flags /\ ctxs'[c].debug = ctxs[c].debug
                        /\ ctxs'[c].pid = ctxs[c].pid
    BY <2>1, <2>2, <2>3
  <2> QED BY <2>4, SteadySame
<1>5. AwaitsOK'
  BY <1>1, <1>4, NothingMoves, AwaitsSteady DEF NoFail
<1> QED BY <1>3, <1>5 DEF NoFail

(* Who awaits a client has awaited it before.                               *)
LEMMA AwaitsCore ==
  ASSUME Base, AwaitsOK, NoneAsks,
         \A c \in Ctxs : Awaits(c)' => Awaits(c) /\ ctxs'[c].pid = ctxs[c].pid,
         \A c \in Ctxs, p \in Pids : Awaits(c)' /\ ctxs'[c].pid = p /\ Attachable(p) => Attachable(p)',
         \A c \in Ctxs : Awaits(c)' /\ "USED" \in ctxs'[c].flags => srv'.pc = "accepted" /\ srv'.c = c
  PROVE  AwaitsOK'
<1>1. \A c \in Ctxs : Awaits(c)' => ctxs'[c].pid \in Pids /\ Attachable(ctxs[c].pid) /\ ctxs'[c].pid = ctxs[c].pid
  BY DEF Awaits, AwaitsOK, Base, ContextsOK, ContextOK, OwnOK
<1>2. \A c \in Ctxs : Awaits(c)' => Attachable(ctxs[c].pid)'
  BY <1>1 DEF Attachable, Debugged
<1>3. \A c, d \in Ctxs : Awaits(c)' /\ Awaits(d)' /\ ctxs'[c].pid = ctxs'[d].pid => c = d
  BY DEF AwaitsOK
<1>4. \A c, d \in Ctxs : Awaits(c)' /\ line'[d].pkt.cmd = "vAttach" => line'[d].pkt.pid # ctxs'[c].pid
  BY DEF AwaitsOK, NoneAsks
<1> QED BY <1>2, <1>3, <1>4 DEF AwaitsOK

LEMMA AcceptsNoFail ==
  ASSUME Base, NoFail, ServerAccepts
  PROVE  NoFail'
<1>1. proc' = proc /\ compact_needed' = compact_needed /\ srv.pc = "accept" /\ srv \in ServerState
      /\ srv.i \in Nat /\ poll \in Seq(Slot) /\ srv.i > 0
  BY AcceptsCases DEF Base, Typed, RestOK, ServerState
<1>2. CASE To("abort") /\ UNCHANGED <<ctxs, line, poll>>
  <2>1. srv'.pc = "abort"
    BY <1>1, <1>2, ToFacts DEF SrvPlaces
  <2> QED BY <1>1, <1>2, <2>1, SlotsLeft, SteadyAll, NothingMoves, AwaitsSteady DEF NoFail
<1>3. CASE NextSlot /\ UNCHANGED <<ctxs, line, poll>>
  <2>1. srv'.pc = "visit" /\ srv'.i = srv.i + 1
    BY <1>1, <1>3, NextSlotFacts
  <2>2. EmptyOK' /\ InPlace'
    BY <1>1, <1>3, <2>1, SlotDone DEF NoFail, InVisit
  <2> QED BY <1>1, <1>3, <2>2, SteadyAll, NothingMoves, AwaitsSteady DEF NoFail
<1>4. CASE \E c \in Ctxs : Accepts(c, -srv.c, Len(poll) + 1)
  <2>1. PICK c \in Ctxs : Accepts(c, -srv.c, Len(poll) + 1)
    BY <1>4
  <2>2. PICK p, k : p = -srv.c /\ k = Len(poll) + 1 /\ Accepts(c, p, k)
    BY <2>1
  <2>3. /\ k \in 1 .. MAX_CTXS /\ k = Len(poll) + 1 /\ DOMAIN poll = 1 .. Len(poll) /\ Len(poll) \in Nat
        /\ ctxs'[c] = Connected(ctxs[c], p, k) /\ \A d \in Ctxs : d # c => ctxs'[d] = ctxs[d]
        /\ DOMAIN poll' = 1 .. k /\ poll'[k] = [fd |-> c, ctx |-> c, revents |-> "none"]
        /\ \A j \in DOMAIN poll : poll'[j] = poll[j]
        /\ srv'.pc = "accepted" /\ srv'.c = c /\ srv'.i = srv.i
        /\ line'[c] = [NoLine EXCEPT !.st = "open"] /\ \A d \in Ctxs : d # c => line'[d] = line[d]
    BY <1>1, <2>2, AcceptsFacts
  <2>4. p \in Ports /\ ctxs[c] \in Context /\ c # Nothing
    BY <2>2, SlotNames DEF Accepts, Base, Typed, CtxTypes, Nothing
  <2>5. /\ ctxs'[c].flags = ctxs[c].flags \cup {"USED"} /\ ctxs'[c].pid = ctxs[c].pid
        /\ ctxs'[c].debug = ctxs[c].debug
    <3>1. k \in 0 .. MAX_CTXS
      BY <2>3, GdbAssumption
    <3> QED BY <2>3, <2>4, <3>1, ConnectedFacts
  <2>6. EmptyOK'
    <3>1. \A j \in DOMAIN poll' : j \in DOMAIN poll \/ j = k
      BY <2>3
    <3>2. \A j \in DOMAIN poll' : poll'[j].ctx = Nothing => j \in DOMAIN poll /\ poll[j].ctx = Nothing
      BY <2>3, <2>4, <3>1
    <3>3. \A j \in DOMAIN poll : poll[j].ctx = Nothing => compact_needed /\ j < srv.i
      BY <1>1 DEF NoFail, EmptyOK, InVisit
    <3>4. \A j \in DOMAIN poll' : poll'[j].ctx = Nothing => compact_needed' /\ j < srv'.i
      BY <1>1, <2>3, <3>2, <3>3
    <3> QED BY <2>3, <3>4 DEF EmptyOK
  <2>7. InPlace'
    BY <2>3 DEF InPlace
  <2>8. \A d \in Ctxs : Awaits(d)' => Awaits(d) /\ ctxs'[d].pid = ctxs[d].pid
    BY <2>3, <2>5 DEF Awaits
  <2>9. \A q \in Pids : Attachable(q) => Attachable(q)'
    BY <1>1, <2>3, <2>5 DEF Attachable, Debugged
  <2>10. \A d \in Ctxs : Awaits(d)' /\ "USED" \in ctxs'[d].flags => srv'.pc = "accepted" /\ srv'.c = d
    BY <1>1, <2>3, <2>8 DEF NoFail, AwaitsOK
  <2>11. NoneAsks
    BY <2>3 DEF NoneAsks, NoLine, NoPacket
  <2>12. AwaitsOK'
    BY <2>8, <2>9, <2>10, <2>11, AwaitsCore DEF NoFail
  <2> QED BY <2>6, <2>7, <2>12 DEF NoFail
<1> QED BY <1>2, <1>3, <1>4, AcceptsCases

LEMMA AcceptClientNoFail ==
  ASSUME Base, NoFail, AcceptClient, AttachFails = FALSE
  PROVE  NoFail'
<1>0. PICK c : c = srv.c
  OBVIOUS
<1>1. UNCHANGED <<poll, compact_needed>> /\ srv.pc = "accepted" /\ srv.c = c /\ c \in Ctxs
  BY <1>0, AcceptClientFacts
<1>2. srv \in ServerState /\ srv.i \in Nat /\ poll \in Seq(Slot) /\ ctxs[c] \in Context /\ ctxs[c].debug = None
  BY <1>1 DEF Base, Typed, CtxTypes, RestOK, ServerState, ContextsOK, ContextOK, PlaceOK
<1>3. NextSlot => EmptyOK' /\ InPlace'
  <2>1. NextSlot => srv'.pc = "visit" /\ srv'.i = srv.i + 1
    BY <1>2, NextSlotFacts
  <2> QED BY <1>1, <1>2, <2>1, SlotDone DEF NoFail, InVisit
<1>4. CASE "SELECTED" \notin ctxs[c].flags /\ NextSlot /\ UNCHANGED <<ctxs, proc, mon, line>>
  BY <1>1, <1>3, <1>4, SteadyAll, NothingMoves, AwaitsSteady DEF NoFail
<1>5. "SELECTED" \in ctxs[c].flags => Awaits(c) /\ Attachable(ctxs[c].pid)
  BY <1>1, <1>2 DEF Awaits, NoFail, AwaitsOK
<1>6. CASE /\ "SELECTED" \in ctxs[c].flags /\ ctxs[c].pid \in Pids
           /\ ctxs' = [ctxs EXCEPT ![c] = AttachToProcess(ctxs[c], ctxs[c].pid)]
           /\ Attaching(c, ctxs[c].pid) /\ Tell(c, "stopped") /\ NextSlot
  <2>1. PICK p \in Pids : p = ctxs[c].pid
    BY <1>6
  <2> DEFINE y == AttachToProcess(ctxs[c], p)
  <2>2. y.debug = p
    BY <1>2, AttachFacts
  <2>3. ctxs' = [ctxs EXCEPT ![c] = y] /\ ctxs \in [Ctxs -> Context]
    BY <1>6, <2>1 DEF Base, Typed, CtxTypes
  <2> HIDE DEF y
  <2>4. ctxs'[c].debug = p /\ p # None /\ \A d \in Ctxs : d # c => ctxs'[d] = ctxs[d]
    BY <1>1, <2>2, <2>3, GdbAssumption
  <2>5. \A q \in Pids : q # p => proc'[q] = proc[q]
    BY <1>1, <1>6, <2>1, AttachingFacts
  <2>6. \A d \in Ctxs : line'[d].pkt = line[d].pkt
    BY <1>1, <1>6, TellFacts DEF Base, Typed
  <2>7. \A d \in Ctxs : Awaits(d)' => d # c /\ Awaits(d) /\ ctxs'[d].pid = ctxs[d].pid /\ ctxs[d].pid # p
    <3> SUFFICES ASSUME NEW d \in Ctxs, Awaits(d)'
                 PROVE  d # c /\ Awaits(d) /\ ctxs'[d].pid = ctxs[d].pid /\ ctxs[d].pid # p
      OBVIOUS
    <3>1. d # c
      BY <2>4 DEF Awaits
    <3>2. Awaits(d) /\ ctxs'[d].pid = ctxs[d].pid
      BY <2>4, <3>1 DEF Awaits
    <3>3. Awaits(c)
      BY <1>5, <1>6
    <3>4. ctxs[d].pid # ctxs[c].pid
      BY <1>1, <3>1, <3>2, <3>3 DEF NoFail, AwaitsOK
    <3> QED BY <2>1, <3>1, <3>2, <3>4
  <2>8. \A q \in Pids : q # p /\ Attachable(q) => Attachable(q)'
    BY <2>4, <2>5 DEF Attachable, Debugged
  <2>9. \A d \in Ctxs, q \in Pids : Awaits(d)' /\ ctxs'[d].pid = q /\ Attachable(q) => Attachable(q)'
    BY <2>7, <2>8
  <2>10. \A d \in Ctxs : Awaits(d)' => "USED" \notin ctxs'[d].flags
    BY <1>1, <2>4, <2>7 DEF NoFail, AwaitsOK
  <2>11. NoneAsks
    BY <2>6 DEF NoneAsks
  <2>12. AwaitsOK'
    BY <2>7, <2>9, <2>10, <2>11, AwaitsCore DEF NoFail
  <2> QED BY <1>3, <1>6, <2>12 DEF NoFail
<1>7. "SELECTED" \notin ctxs[c].flags \/ Attachable(ctxs[c].pid)
  BY <1>5
<1> QED BY <1>0, <1>4, <1>6, <1>7, AcceptClientFacts

LEMMA ClosedNoFail ==
  ASSUME Base, NoFail, ServerClosed
  PROVE  NoFail'
<1>1. /\ compact_needed' = compact_needed /\ srv.pc = "closed"
      /\ srv'.pc = "visit" /\ srv'.i = srv.i + 1 /\ srv.i \in Nat
  BY ClosedFactsOfServer
<1>2. PICK c : c = srv.c
  OBVIOUS
<1>3. compact_needed /\ srv.i \in DOMAIN poll /\ poll[srv.i].ctx = c
  BY <1>1, <1>2 DEF NoFail, EmptyOK, InPlace
<1>4. poll \in Seq(Slot) /\ \A d \in Ctxs : ctxs[d] \in Context
  BY DEF Base, Typed, CtxTypes
<1>5. poll' = [poll EXCEPT ![srv.i] = Unused]
  <2>1. CASE c < 0
    <3>1. ~(c \in Ctxs)
      BY <2>1, GdbAssumption DEF Ctxs
    <3> QED BY <1>2, <2>1, <3>1, ClosedFactsOfServer
  <2>2. CASE c \in Ctxs
    <3>1. ctxs[c].i = srv.i
      BY <1>3, <2>2 DEF Base, SlotsOK
    <3>2. ~(c < 0)
      BY <2>2, GdbAssumption DEF Ctxs
    <3> QED BY <1>2, <2>2, <3>1, <3>2, ClosedFactsOfServer
  <2> QED BY <1>2, <2>1, <2>2, ClosedFactsOfServer
<1>6. EmptyOK' /\ InPlace'
  <2>1. \A k \in DOMAIN poll' : k \in DOMAIN poll /\ k \in Nat
    BY <1>4, <1>5
  <2>2. \A k \in DOMAIN poll' : poll'[k].ctx = Nothing => k = srv.i \/ poll[k].ctx = Nothing
    BY <1>5, <2>1
  <2>3. \A k \in DOMAIN poll : poll[k].ctx = Nothing => k < srv.i
    BY <1>1 DEF NoFail, EmptyOK, InVisit
  <2>4. \A k \in DOMAIN poll' : poll'[k].ctx = Nothing => k < srv'.i
    BY <1>1, <2>1, <2>2, <2>3
  <2>5. EmptyOK'
    BY <1>1, <1>3, <2>4 DEF EmptyOK
  <2> QED BY <1>1, <2>5 DEF InPlace
<1>7. (\A d \in Ctxs : Steady(d)) /\ NoneDies /\ NoneAsks
  <2>1. CASE UNCHANGED <<ctxs, proc, n, line>>
    BY <2>1, SteadyAll, NothingMoves
  <2>2. CASE /\ c \in Ctxs /\ ctxs' = [ctxs EXCEPT ![c] = Closed(ctxs[c])]
             /\ proc' = ClosedProc(proc, ctxs[c]) /\ line' = [line EXCEPT ![c] = NoLine]
    <3>1. Closed(ctxs[c]).flags = {} /\ Closed(ctxs[c]).debug = None
      BY <1>4, <2>2, ClosedFacts
    <3>2. ctxs'[c].flags = {} /\ ctxs'[c].debug = None /\ \A d \in Ctxs : d # c => ctxs'[d] = ctxs[d]
      BY <2>2, <3>1 DEF Base, Typed, CtxTypes
    <3>3. \A d \in Ctxs : Steady(d)
      BY <3>2 DEF Steady
    <3>4. \A q \in Pids : q # ctxs[c].debug => proc'[q] = proc[q]
      BY <1>4, <2>2, ClosedProcFacts DEF Base, Typed
    <3>5. NoneDies
      BY <2>2, <3>4 DEF NoneDies, Debugged
    <3>6. NoneAsks
      BY <2>2 DEF NoneAsks, NoLine, NoPacket, Base, Typed
    <3> QED BY <3>3, <3>5, <3>6
  <2> QED BY <1>2, <2>1, <2>2, ClosedFactsOfServer
<1>8. AwaitsOK'
  BY <1>1, <1>7, AwaitsSteady DEF NoFail
<1> QED BY <1>6, <1>8 DEF NoFail

(* A packet, or the end of one, changes the context the server is at, and   *)
(* the process it had or gets.                                              *)
LEMMA HandledNoFail ==
  ASSUME Base, NoFail, NEW c \in Ctxs, srv.c = c, srv.pc \in {"data", "detaching"},
         NEW y, ctxs' = [ctxs EXCEPT ![c] = y],
         "SELECTED" \in y.flags => "SELECTED" \in ctxs[c].flags /\ (y.debug # None \/ y.debug = ctxs[c].debug),
         \/ y.debug = ctxs[c].debug \/ y.debug = None
         \/ line[c].pkt.cmd = "vAttach" /\ line[c].pkt.pid = y.debug,
         \A q \in Pids : q # ctxs[c].debug /\ q # y.debug => proc'[q] = proc[q],
         \A d \in Ctxs : line'[d].pkt = line[d].pkt \/ line'[d].pkt = NoPacket,
         UNCHANGED <<poll, compact_needed>>,
         \/ srv'.pc = "visit" /\ srv'.i = srv.i + 1
         \/ srv'.pc \in {"close", "detaching"} /\ srv'.i = srv.i /\ srv'.c = c
  PROVE  NoFail'
<1>1. srv.i \in Nat /\ poll \in Seq(Slot)
  BY DEF Base, Typed, RestOK, ServerState
<1>2. EmptyOK' /\ InPlace'
  <2>1. CASE srv'.pc = "visit" /\ srv'.i = srv.i + 1
    BY <1>1, <2>1, SlotDone DEF NoFail, InVisit
  <2>2. CASE srv'.pc \in {"close", "detaching"} /\ srv'.i = srv.i /\ srv'.c = c
    BY <2>2, SameSlot DEF NoFail, InVisit
  <2> QED BY <2>1, <2>2
<1>3. ctxs'[c] = y /\ \A d \in Ctxs : d # c => ctxs'[d] = ctxs[d]
  BY DEF Base, Typed, CtxTypes
<1>4. "USED" \in ctxs[c].flags
  BY DEF Base, ContextsOK, ContextOK, PlaceOK, Serves, Serving
<1>5. ~Awaits(c)
  BY <1>4 DEF NoFail, AwaitsOK
<1>6. ~Awaits(c)'
  BY <1>3, <1>5 DEF Awaits
<1>7. \A d \in Ctxs : Awaits(d)' => d # c /\ Awaits(d) /\ ctxs'[d].pid = ctxs[d].pid /\ ctxs'[d].flags = ctxs[d].flags
  BY <1>3, <1>6 DEF Awaits
<1>8. \A d \in Ctxs : Awaits(d) => ctxs[d].pid \in Pids /\ ctxs[d].pid # y.debug /\ Attachable(ctxs[d].pid)
  <2> SUFFICES ASSUME NEW d \in Ctxs, Awaits(d)
               PROVE  ctxs[d].pid \in Pids /\ ctxs[d].pid # y.debug /\ Attachable(ctxs[d].pid)
    OBVIOUS
  <2>1. ctxs[d].pid \in Pids
    BY DEF Awaits, Base, ContextsOK, ContextOK, OwnOK
  <2>2. Attachable(ctxs[d].pid) /\ (line[c].pkt.cmd = "vAttach" => line[c].pkt.pid # ctxs[d].pid)
    BY DEF NoFail, AwaitsOK
  <2>3. ctxs[c].debug # ctxs[d].pid
    BY <2>2 DEF Attachable, Debugged
  <2> QED BY <2>1, <2>2, <2>3, GdbAssumption
<1>9. \A q \in Pids : q # y.debug /\ Attachable(q) => Attachable(q)'
  BY <1>3 DEF Attachable, Debugged
<1>10. \A d \in Ctxs, q \in Pids : Awaits(d)' /\ ctxs'[d].pid = q /\ Attachable(q) => Attachable(q)'
  BY <1>7, <1>8, <1>9
<1>11. \A d \in Ctxs : Awaits(d)' => "USED" \notin ctxs'[d].flags
  <2> SUFFICES ASSUME NEW d \in Ctxs, Awaits(d)'
               PROVE  "USED" \notin ctxs'[d].flags
    OBVIOUS
  <2>1. Awaits(d) /\ ctxs'[d].flags = ctxs[d].flags
    BY <1>7
  <2> QED BY <2>1 DEF NoFail, AwaitsOK
<1>12. NoneAsks
  BY DEF NoneAsks, NoPacket
<1>13. AwaitsOK'
  BY <1>7, <1>10, <1>11, <1>12, AwaitsCore DEF NoFail
<1> QED BY <1>2, <1>13 DEF NoFail

LEMMA FinishedNoFail ==
  ASSUME Base, NoFail, NEW c \in Ctxs, srv.c = c, srv.pc \in {"data", "detaching"},
         NEW x \in Context, Finished(c, x),
         "SELECTED" \in x.flags => "SELECTED" \in ctxs[c].flags /\ (x.debug # None \/ x.debug = ctxs[c].debug),
         \/ x.debug = ctxs[c].debug \/ x.debug = None
         \/ line[c].pkt.cmd = "vAttach" /\ line[c].pkt.pid = x.debug,
         \A q \in Pids : q # ctxs[c].debug /\ q # x.debug => proc'[q] = proc[q],
         \A d \in Ctxs : line'[d].pkt = line[d].pkt \/ line'[d].pkt = NoPacket,
         UNCHANGED <<poll, compact_needed>>
  PROVE  NoFail'
<1>1. PICK y \in Context :
        /\ ctxs' = [ctxs EXCEPT ![c] = y]
        /\ y.flags = x.flags /\ y.debug = x.debug
        /\ \/ srv'.pc = "visit" /\ srv'.i = srv.i + 1
           \/ srv'.pc = "close" /\ srv'.i = srv.i /\ srv'.c = c
  BY FinishedFacts
<1> QED BY <1>1, HandledNoFail

LEMMA DetachingNoFail ==
  ASSUME Base, NoFail, NEW c \in Ctxs, srv.c = c, srv.pc = "data",
         NEW x \in Context, Detaching(c, x), x.flags \subseteq ctxs[c].flags \cup {"TERMINATE_PROCESS"},
         x.debug = ctxs[c].debug,
         \A d \in Ctxs : line'[d].pkt = line[d].pkt \/ line'[d].pkt = NoPacket,
         UNCHANGED <<poll, compact_needed>>
  PROVE  NoFail'
<1> DEFINE w == [x EXCEPT !.state = "DETACHING"]
           y == Resets(w)
<1>1. ctxs' = [ctxs EXCEPT ![c] = y] /\ To("detaching") /\ UNCHANGED proc
  BY DEF Detaching
<1>2. w \in Context /\ w.flags = x.flags /\ w.debug = x.debug
  BY DEF Context
<1> HIDE DEF w
<1>3. y.flags = x.flags /\ y.debug = x.debug
  BY <1>2, ResetsFacts
<1> HIDE DEF y
<1>4. srv'.pc = "detaching" /\ srv'.i = srv.i /\ srv'.c = c
  BY <1>1, ToFacts DEF Base, RestOK, SrvPlaces
<1>5. "SELECTED" \in y.flags => "SELECTED" \in ctxs[c].flags
  BY <1>3
<1> QED BY <1>1, <1>3, <1>4, <1>5, HandledNoFail

LEMMA PacketNoFail ==
  ASSUME Base, NoFail, DoPacket
  PROVE  NoFail'
<1>0. PICK c : c = srv.c
  OBVIOUS
<1> DEFINE pkt == line[c].pkt
<1>1. /\ c \in Ctxs /\ srv.c = c /\ srv.pc = "data" /\ (pkt.cmd = "vAttach" => pkt.pid \in Pids)
      /\ UNCHANGED <<poll, compact_needed>> /\ line'[c].pkt = NoPacket
      /\ \A d \in Ctxs : d # c => line'[d] = line[d]
  BY <1>0, PacketFacts
<1>2. \/ pkt.cmd = "c" /\ Continue(c)
      \/ pkt.cmd = "brk" /\ Break(c)
      \/ pkt.cmd = "D" /\ EndSession(c, {})
      \/ pkt.cmd = "k" /\ EndSession(c, {"TERMINATE_PROCESS"})
      \/ pkt.cmd = "!" /\ EnableExtendedMode(c)
      \/ pkt.cmd = "vAttach" /\ VerboseAttach(c, pkt.pid)
      \/ pkt.cmd = "none" /\ CloseCtx(c) /\ UNCHANGED <<ctxs, proc, ev, mon>>
  BY <1>0, PacketFacts
<1>3. \A d \in Ctxs : line'[d].pkt = line[d].pkt \/ line'[d].pkt = NoPacket
  BY <1>1
<1>4. CASE Continue(c)
  <2>1. PICK x : /\ Finished(c, x) /\ Handles(c, x) /\ x.debug = ctxs[c].debug
                 /\ x.flags = ctxs[c].flags \cup {"PROCESS_CONTINUING"}
                 /\ \A q \in Pids : q # ctxs[c].debug => proc'[q] = proc[q]
    BY <1>1, <1>4, ContinueFacts
  <2>2. x \in Context /\ ("SELECTED" \in x.flags => "SELECTED" \in ctxs[c].flags)
    BY <2>1 DEF Handles, HandlesRest
  <2> QED BY <1>1, <1>3, <2>1, <2>2, FinishedNoFail
<1>5. CASE Break(c)
  <2>1. PICK x : /\ Finished(c, x) /\ Handles(c, x) /\ x.debug = ctxs[c].debug
                 /\ \A q \in Pids : q # ctxs[c].debug => proc'[q] = proc[q]
    BY <1>1, <1>5, BreakFacts
  <2>2. x \in Context /\ ("SELECTED" \in x.flags => "SELECTED" \in ctxs[c].flags)
    BY <2>1 DEF Handles, HandlesRest, Tame
  <2> QED BY <1>1, <1>3, <2>1, <2>2, FinishedNoFail
<1>6. CASE EndSession(c, {}) \/ EndSession(c, {"TERMINATE_PROCESS"})
  <2>1. PICK fl \in SUBSET {"TERMINATE_PROCESS"} : EndSession(c, fl)
    BY <1>6
  <2>2. PICK x : /\ Handles(c, x) /\ x.flags = ctxs[c].flags \cup fl /\ x.debug = ctxs[c].debug
                 /\ Detaching(c, x) \/ (Finished(c, x) /\ UNCHANGED <<proc, ev, mon>>)
    BY <1>1, <2>1, EndSessionFacts
  <2>3. /\ x \in Context /\ ("SELECTED" \in x.flags => "SELECTED" \in ctxs[c].flags)
        /\ x.flags \subseteq ctxs[c].flags \cup {"TERMINATE_PROCESS"}
    BY <2>1, <2>2 DEF Handles, HandlesRest
  <2>4. CASE Detaching(c, x)
    BY <1>1, <1>3, <2>2, <2>3, <2>4, DetachingNoFail
  <2>5. CASE Finished(c, x) /\ UNCHANGED <<proc, ev, mon>>
    BY <1>1, <1>3, <2>2, <2>3, <2>5, FinishedNoFail
  <2> QED BY <2>2, <2>4, <2>5
<1>7. CASE EnableExtendedMode(c)
  <2>1. PICK x : /\ Finished(c, x) /\ Handles(c, x) /\ x.debug = ctxs[c].debug /\ proc' = proc
                 /\ x.flags = ctxs[c].flags \cup {"EXTENDED_REMOTE"}
    BY <1>1, <1>7, ExtendedFacts
  <2>2. x \in Context /\ ("SELECTED" \in x.flags => "SELECTED" \in ctxs[c].flags)
    BY <2>1 DEF Handles, HandlesRest
  <2> QED BY <1>1, <1>3, <2>1, <2>2, FinishedNoFail
<1>8. CASE pkt.cmd = "vAttach" /\ VerboseAttach(c, pkt.pid)
  <2>1. PICK p \in Pids : p = pkt.pid /\ VerboseAttach(c, p)
    BY <1>1, <1>8
  <2>2. PICK x : /\ x.flags = ctxs[c].flags
                 /\ \/ Handles(c, x) /\ Finished(c, x) /\ Attaching(c, p) /\ x.debug = p
                    \/ HandlesRest(c, x) /\ Detaching(c, x) /\ x.debug = ctxs[c].debug
    BY <1>1, <2>1, VerboseAttachFacts
  <2>3. x \in Context
    BY <2>2 DEF Handles, HandlesRest
  <2>4. CASE Detaching(c, x) /\ x.debug = ctxs[c].debug
    BY <1>1, <1>3, <2>2, <2>3, <2>4, DetachingNoFail
  <2>5. CASE Finished(c, x) /\ Attaching(c, p) /\ x.debug = p
    <3>1. \A q \in Pids : q # p => proc'[q] = proc[q]
      BY <1>1, <2>5, AttachingFacts
    <3>2. p # None /\ line[c].pkt.cmd = "vAttach" /\ line[c].pkt.pid = p
      BY <1>8, <2>1, GdbAssumption
    <3> QED BY <1>1, <1>3, <2>2, <2>3, <2>5, <3>1, <3>2, FinishedNoFail
  <2> QED BY <2>2, <2>4, <2>5
<1>9. CASE CloseCtx(c) /\ UNCHANGED <<ctxs, proc, ev, mon>>
  <2>1. srv'.pc = "close" /\ srv'.i = srv.i /\ srv'.c = c
    BY <1>1, <1>9, CloseCtxFacts DEF Base, RestOK
  <2>2. PICK y : y = ctxs[c]
    OBVIOUS
  <2>3. ctxs' = [ctxs EXCEPT ![c] = y]
    BY <1>1, <1>9, <2>2 DEF Base, Typed, CtxTypes
  <2>4. y.debug # None \/ y.debug = ctxs[c].debug
    BY <2>2
  <2> QED BY <1>1, <1>3, <1>9, <2>1, <2>2, <2>3, <2>4, HandledNoFail
<1> QED BY <1>2, <1>4, <1>5, <1>6, <1>7, <1>8, <1>9

LEMMA DetachesNoFail ==
  ASSUME Base, NoFail, ServerDetaches
  PROVE  NoFail'
<1>0. PICK c, x : c = srv.c /\ x = Kept(Detached(ctxs[c]))
  OBVIOUS
<1>1. /\ c \in Ctxs /\ srv.c = c /\ srv.pc = "detaching" /\ proc' = Released(proc, ctxs[c])
      /\ UNCHANGED <<line, poll, compact_needed>>
      /\ x \in Context /\ x.flags = ctxs[c].flags \cap {"EXTENDED_REMOTE", "USED"} /\ x.debug = None
      /\ Finished(c, x)
  BY <1>0, DetachesFacts
<1>2. \A q \in Pids : q # ctxs[c].debug => proc'[q] = proc[q]
  BY <1>1, ReleasedFacts DEF Base, Typed, CtxTypes
<1>3. "SELECTED" \notin x.flags
  BY <1>1
<1> QED BY <1>1, <1>2, <1>3, FinishedNoFail

(* Steps that leave the server where it is                                  *)
LEMMA AroundNoFail ==
  ASSUME Base, NoFail, srv' = srv, compact_needed' = compact_needed, DOMAIN poll' = DOMAIN poll,
         \A k \in DOMAIN poll : poll'[k].ctx = poll[k].ctx,
         \A c \in Ctxs : Steady(c), NoneDies, NoneAsks
  PROVE  NoFail'
BY PlacesKept, AwaitsSteady DEF NoFail

LEMMA NoLineAsks ==
  ASSUME \A c \in Ctxs : line'[c] = NoLine \/ line'[c].pkt = line[c].pkt
  PROVE  NoneAsks
BY DEF NoneAsks, NoLine, NoPacket

LEMMA AbortsNoFail ==
  ASSUME Base, NoFail, ServerAborts
  PROVE  NoFail'
<1>1. KillConnections /\ To("leave") /\ srv.pc = "abort" /\ UNCHANGED <<ctxs, proc>>
  BY DEF ServerAborts, At
<1>2. srv'.pc = "leave"
  BY <1>1, ToFacts DEF Base, RestOK, SrvPlaces
<1>3. \A c \in Ctxs : line'[c] = NoLine \/ line'[c] = line[c]
  BY <1>1, KillFacts
<1>4. (\A c \in Ctxs : Steady(c)) /\ NoneDies /\ NoneAsks
  BY <1>1, <1>3, SteadyAll, NoLineAsks DEF NoneDies
<1> QED BY <1>1, <1>2, <1>4, SlotsLeft, AwaitsSteady DEF NoFail

LEMMA FinalizedNoFail ==
  ASSUME Base, Finalized
  PROVE  (\A c \in Ctxs : Steady(c)) /\ NoneDies /\ NoneAsks
<1>1. \A c \in Ctxs : ctxs'[c].debug = None /\ (ctxs'[c] = ctxs[c] \/ ctxs'[c].flags = {})
  BY FinalizedFacts
<1>2. \A c \in Ctxs : Steady(c)
  BY <1>1 DEF Steady
<1>3. NoneDies
  BY FinalizedFacts DEF NoneDies
<1>4. NoneAsks
  BY FinalizedFacts, NoLineAsks
<1> QED BY <1>2, <1>3, <1>4

LEMMA LeavesNoFail ==
  ASSUME Base, NoFail, ServerLeaves \/ MonitorLeaves
  PROVE  NoFail'
<1>1. Finalized \/ UNCHANGED <<ctxs, proc, poll, line>>
  BY DEF ServerLeaves, MonitorLeaves, Dereference
<1>2. (\A c \in Ctxs : Steady(c)) /\ NoneDies /\ NoneAsks
  BY <1>1, FinalizedNoFail, SteadyAll, NothingMoves
<1>3. CASE ServerLeaves
  <2>1. srv.pc = "leave" /\ srv'.pc = "gone"
    BY <1>3, ToFacts DEF ServerLeaves, Base, RestOK, SrvPlaces
  <2> QED BY <1>2, <2>1, SlotsLeft, AwaitsSteady DEF NoFail
<1>4. CASE MonitorLeaves
  <2>1. srv' = srv /\ compact_needed' = compact_needed
    BY <1>4 DEF MonitorLeaves, Dereference
  <2>2. CASE srv.pc = "gone"
    BY <1>2, <2>1, <2>2, SlotsLeft, AwaitsSteady DEF NoFail
  <2>3. CASE srv.pc # "gone"
    <3>1. UNCHANGED <<ctxs, proc, poll, line>>
      BY <1>4, <2>3 DEF MonitorLeaves, Dereference
    <3> QED BY <1>2, <2>1, <3>1, AroundNoFail
  <2> QED BY <2>2, <2>3
<1> QED BY <1>3, <1>4

LEMMA EventNoFail ==
  ASSUME Base, NoFail, MonitorHandles
  PROVE  NoFail'
<1>1. mon.c \in Ctxs /\ UNCHANGED <<srv, poll, compact_needed>>
  BY EventFacts DEF MonitorSteps, tables
<1>2. PICK c, x : c = mon.c /\ x = ctxs[c]
  OBVIOUS
<1>3. PICK y \in Context : ctxs' = [ctxs EXCEPT ![c] = y] /\ Tame(x, y) /\ Outcome(c, x, y)
  BY <1>2, EventFacts
<1>4. \A d \in Ctxs : Steady(d)
  <2>1. ctxs'[c] = y /\ \A d \in Ctxs : d # c => ctxs'[d] = ctxs[d]
    BY <1>1, <1>2, <1>3 DEF Base, Typed, CtxTypes
  <2>2. y = x \/ SameSession(x, y) \/ Ended(x, y)
    BY <1>3 DEF Outcome
  <2>3. Steady(c)
    BY <1>2, <1>3, <2>1, <2>2 DEF Steady, Tame, SameSession, Ended
  <2> QED BY <2>1, <2>3 DEF Steady
<1>5. NoneDies
  <2>1. proc' = proc \/ (x.debug \in Pids /\ proc' = [proc EXCEPT ![x.debug].event = "none"])
    BY <1>3 DEF Outcome
  <2>2. \A p \in Pids : proc'[p].st = proc[p].st
    BY <2>1, EventTaken DEF Base, Typed
  <2> QED BY <2>2 DEF NoneDies
<1>6. NoneAsks
  <2>1. line' = line \/ Tell(c, "stopped") \/ Tell(c, "exited")
    BY <1>3 DEF Outcome
  <2>2. Tell(c, "stopped") => \A d \in Ctxs : line'[d].pkt = line[d].pkt
    BY <1>1, <1>2, TellFacts DEF Base, Typed
  <2>3. Tell(c, "exited") => \A d \in Ctxs : line'[d].pkt = line[d].pkt
    BY <1>1, <1>2, TellFacts DEF Base, Typed
  <2> QED BY <2>1, <2>2, <2>3, NoLineAsks
<1> QED BY <1>1, <1>4, <1>5, <1>6, AroundNoFail

LEMMA MonitorNoFail ==
  ASSUME Base, NoFail, MonitorReads \/ MonitorWaits \/ MonitorAcknowledges
  PROVE  NoFail'
<1>1. MonitorSteps /\ UNCHANGED <<proc, line>>
  BY ReadsFacts, WaitFacts, AcknowledgeFacts
<1>2. UNCHANGED <<srv, poll, compact_needed>>
  BY <1>1 DEF MonitorSteps, tables
<1>3. \A c \in Ctxs : Steady(c)
  <2>1. CASE ctxs' = ctxs
    BY <2>1, SteadyAll
  <2>2. CASE \E c \in Ctxs, b \in BOOLEAN : ctxs' = [ctxs EXCEPT ![c] = [ctxs[c] EXCEPT !.continued = b]]
    <3>1. ctxs \in [Ctxs -> Context]
      BY DEF Base, Typed, CtxTypes
    <3>2. \A d \in Ctxs : ctxs'[d] = ctxs[d] \/ \E b \in BOOLEAN : ctxs'[d] = [ctxs[d] EXCEPT !.continued = b]
      BY <2>2, <3>1
    <3>3. \A d \in Ctxs : /\ ctxs'[d].flags = ctxs[d].flags /\ ctxs'[d].debug = ctxs[d].debug
                          /\ ctxs'[d].pid = ctxs[d].pid
      <4> SUFFICES ASSUME NEW d \in Ctxs
                   PROVE  ctxs'[d].flags = ctxs[d].flags /\ ctxs'[d].debug = ctxs[d].debug /\ ctxs'[d].pid = ctxs[d].pid
        OBVIOUS
      <4>1. CASE ctxs'[d] = ctxs[d]
        BY <4>1
      <4>2. CASE \E b \in BOOLEAN : ctxs'[d] = [ctxs[d] EXCEPT !.continued = b]
        <5>1. PICK b \in BOOLEAN : ctxs'[d] = [ctxs[d] EXCEPT !.continued = b]
          BY <4>2
        <5>2. ctxs[d] \in Context
          BY <3>1
        <5> QED BY <5>1, <5>2 DEF Context
      <4> QED BY <3>2, <4>1, <4>2
    <3> QED BY <3>3, SteadySame
  <2>3. \/ ctxs' = ctxs
        \/ \E c \in Ctxs, b \in BOOLEAN : ctxs' = [ctxs EXCEPT ![c] = [ctxs[c] EXCEPT !.continued = b]]
    <3>1. CASE MonitorWaits
      BY <3>1, WaitFacts
    <3>2. CASE MonitorReads \/ MonitorAcknowledges
      BY <3>2, ReadsFacts, AcknowledgeFacts
    <3> QED BY <3>1, <3>2
  <2> QED BY <2>1, <2>2, <2>3
<1> QED BY <1>1, <1>2, <1>3, NothingMoves, AroundNoFail

LEMMA SelectNoFail ==
  ASSUME Base, NoFail, AttachFails = FALSE, NEW p \in Pids, SelectProcess(p)
  PROVE  NoFail'
<1>1. /\ UNCHANGED <<line, poll, proc, compact_needed, srv>>
      /\ proc[p].st # "dead" /\ ~Debugged(p) /\ ~Asked(p) /\ Found(p) = {} /\ ctxs \in [Ctxs -> Context]
  BY SelectFacts
<1>2. PICK c \in Ctxs, q \in Ports : c \in Free /\ ctxs' = [ctxs EXCEPT ![c] = SetAside(ctxs[c], p, q)]
  BY SelectFacts
<1>3. EmptyOK' /\ InPlace'
  BY <1>1, PlacesKept DEF NoFail
<1>4. ctxs[c] \in Context /\ "USED" \notin ctxs[c].flags /\ ctxs[c].debug = None
  BY <1>1, <1>2 DEF Free, Allocated, Base, ContextsOK, ContextOK, OwnOK
<1>5. /\ SetAside(ctxs[c], p, q).flags = ctxs[c].flags \cup {"SELECTED"}
      /\ SetAside(ctxs[c], p, q).pid = p /\ SetAside(ctxs[c], p, q).debug = None
  BY <1>4, SetAsideFacts
<1>6. /\ "USED" \notin ctxs'[c].flags /\ ctxs'[c].pid = p /\ ctxs'[c].debug = ctxs[c].debug
      /\ \A d \in Ctxs : d # c => ctxs'[d] = ctxs[d]
  BY <1>1, <1>2, <1>4, <1>5
<1>7. \A d \in Ctxs : ctxs'[d].debug = ctxs[d].debug
  BY <1>6
<1>8. \A r \in Pids : Attachable(r) => Attachable(r)'
  BY <1>1, <1>7 DEF Attachable, Debugged
<1>9. Attachable(p)
  BY <1>1 DEF Attachable
<1>10. \A d \in Ctxs : Awaits(d)' /\ d # c => /\ Awaits(d) /\ ctxs'[d] = ctxs[d] /\ ctxs[d].pid \in Pids
                                              /\ ctxs[d].pid # p
  BY <1>1, <1>6 DEF Awaits, Found, Base, ContextsOK, ContextOK, OwnOK
<1>11. \A d \in Ctxs : Awaits(d)' => ctxs'[d].pid \in Pids /\ Attachable(ctxs'[d].pid)
  BY <1>6, <1>9, <1>10 DEF NoFail, AwaitsOK
<1>12. \A d \in Ctxs : Awaits(d)' => Attachable(ctxs[d].pid)'
  <2> SUFFICES ASSUME NEW d \in Ctxs, Awaits(d)'
               PROVE  Attachable(ctxs[d].pid)'
    OBVIOUS
  <2>1. PICK r \in Pids : r = ctxs'[d].pid /\ Attachable(r)
    BY <1>11
  <2>2. Attachable(r)'
    BY <1>8, <2>1
  <2> QED BY <2>1, <2>2 DEF Attachable, Debugged
<1>13. \A d \in Ctxs : Awaits(d)' /\ "USED" \in ctxs'[d].flags => srv'.pc = "accepted" /\ srv'.c = d
  BY <1>1, <1>6, <1>10 DEF NoFail, AwaitsOK
<1>14. \A d, e \in Ctxs : Awaits(d)' /\ Awaits(e)' /\ ctxs'[d].pid = ctxs'[e].pid => d = e
  BY <1>6, <1>10 DEF NoFail, AwaitsOK
<1>15. \A d, e \in Ctxs : Awaits(d)' /\ line'[e].pkt.cmd = "vAttach" => line'[e].pkt.pid # ctxs'[d].pid
  <2>1. \A e \in Ctxs : line[e].pkt.cmd = "vAttach" => line[e].pkt.pid # p
    <3>1. \A e \in Ctxs : line[e].pkt \in Packet
      BY DEF Base, Typed, Connection
    <3> QED BY <1>1, <3>1 DEF Asked, Packet
  <2> QED BY <1>1, <1>6, <1>10, <2>1 DEF NoFail, AwaitsOK
<1>16. AwaitsOK'
  BY <1>12, <1>13, <1>14, <1>15 DEF AwaitsOK
<1> QED BY <1>3, <1>16 DEF NoFail

LEMMA MenuNoFail ==
  ASSUME Base, NoFail, AttachFails = FALSE, Menu
  PROVE  NoFail'
<1>1. CASE Disable \/ DisableJoins
  <2>1. UNCHANGED <<ctxs, proc, line, poll, srv, compact_needed>>
    BY <1>1 DEF Disable, DisableJoins, MenuSteps
  <2> QED BY <2>1, SteadyAll, NothingMoves, AroundNoFail
<1>2. CASE DisableKills
  <2>1. KillConnections /\ UNCHANGED <<ctxs, proc, srv, compact_needed>>
    BY <1>2 DEF DisableKills, MenuSteps
  <2>2. /\ DOMAIN poll' = DOMAIN poll /\ \A k \in DOMAIN poll : poll'[k].ctx = poll[k].ctx
        /\ \A c \in Ctxs : line'[c] = NoLine \/ line'[c] = line[c]
    BY <2>1, KillFacts
  <2>3. NoneDies /\ NoneAsks
    BY <2>1, <2>2, NoLineAsks DEF NoneDies
  <2> QED BY <2>1, <2>2, <2>3, SteadyAll, AroundNoFail
<1>3. CASE \E p \in Pids : DeselectProcess(p)
  <2>1. PICK p \in Pids : DeselectProcess(p)
    BY <1>3
  <2>2. UNCHANGED <<line, poll, proc, compact_needed, srv>>
    BY <2>1, DeselectFacts
  <2>3. PICK c \in Ctxs : ctxs' = [ctxs EXCEPT ![c] = GivenUp(ctxs[c])]
    BY <2>1, DeselectFacts
  <2>4. ctxs \in [Ctxs -> Context] /\ ctxs[c] \in Context
    BY DEF Base, Typed, CtxTypes
  <2>5. GivenUp(ctxs[c]).flags = ctxs[c].flags \ {"SELECTED"} /\ GivenUp(ctxs[c]).debug = ctxs[c].debug
    BY <2>4, GivenUpFacts
  <2>6. /\ "SELECTED" \notin ctxs'[c].flags /\ ctxs'[c].debug = ctxs[c].debug
        /\ \A d \in Ctxs : d # c => ctxs'[d] = ctxs[d]
    BY <2>3, <2>4, <2>5
  <2>7. \A d \in Ctxs : Steady(d)
    BY <2>6 DEF Steady
  <2> QED BY <2>2, <2>7, NothingMoves, AroundNoFail
<1> QED BY <1>1, <1>2, <1>3, SelectNoFail DEF Menu

LEMMA SendNoFail ==
  ASSUME Base, NoFail, AttachFails = FALSE, NEW c \in Ctxs, Send(c)
  PROVE  NoFail'
<1>1. UNCHANGED <<ctxs, proc, poll, compact_needed, srv>>
  BY SendFacts DEF ClientSteps, tables
<1>2. PICK pkt \in Packet : /\ line'[c].pkt = pkt /\ \A d \in Ctxs : d # c => line'[d] = line[d]
                            /\ pkt.cmd = "vAttach" => ~Selected(pkt.pid)
  BY SendFacts
<1>3. EmptyOK' /\ InPlace'
  BY <1>1, PlacesKept DEF NoFail
<1>4. \A d \in Ctxs : Awaits(d)' => Awaits(d)
  BY <1>1 DEF Awaits
<1>5. \A d, e \in Ctxs : Awaits(d) /\ line'[e].pkt.cmd = "vAttach" => line'[e].pkt.pid # ctxs[d].pid
  BY <1>2 DEF NoFail, AwaitsOK, Awaits, Selected
<1>6. \A d \in Ctxs : Attachable(ctxs[d].pid) => Attachable(ctxs[d].pid)'
  BY <1>1 DEF Attachable, Debugged
<1>7. AwaitsOK'
  BY <1>1, <1>4, <1>5, <1>6 DEF NoFail, AwaitsOK
<1> QED BY <1>3, <1>7 DEF NoFail

LEMMA ClientsNoFail ==
  ASSUME Base, NoFail, AttachFails = FALSE, Clients
  PROVE  NoFail'
<1>1. UNCHANGED <<ctxs, proc, poll, compact_needed, srv>>
  BY DEF Clients, Connect, Send, HangUp, ClientSteps, tables
<1>2. CASE \E p \in Ports : Connect(p)
  BY <1>1, <1>2, SteadyAll, NothingMoves, AroundNoFail DEF Connect
<1>3. CASE \E c \in Ctxs : HangUp(c)
  <2>1. PICK c \in Ctxs : HangUp(c)
    BY <1>3
  <2>2. line'[c].pkt = NoPacket /\ \A d \in Ctxs : d # c => line'[d] = line[d]
    BY <2>1, HangUpFacts
  <2>3. NoneDies /\ NoneAsks
    BY <1>1, <2>2 DEF NoneDies, NoneAsks, NoPacket
  <2> QED BY <1>1, <2>3, SteadyAll, AroundNoFail
<1> QED BY <1>2, <1>3, SendNoFail DEF Clients

LEMMA ProcessesNoFail ==
  ASSUME Base, NoFail, Processes
  PROVE  NoFail'
<1>1. UNCHANGED <<ctxs, line, poll, compact_needed, srv>>
  BY DEF Processes, Debuggee, Restarted, connections, tables
<1>2. NoneDies
  <2>1. CASE \E p \in Pids : Debuggee(p)
    <3>1. PICK p \in Pids : Debuggee(p)
      BY <2>1
    <3>2. Debugged(p) /\ \A q \in Pids : q # p => proc'[q] = proc[q]
      BY <3>1, DebuggeeFacts DEF Debugged
    <3> QED BY <3>2 DEF NoneDies
  <2>2. CASE \E p \in Pids : Restarted(p)
    BY <2>2 DEF Restarted, NoneDies, Base, Typed, Process
  <2> QED BY <2>1, <2>2 DEF Processes
<1>3. NoneAsks
  BY <1>1 DEF NoneAsks
<1> QED BY <1>1, <1>2, <1>3, SteadyAll, AroundNoFail

LEMMA StutterNoFail ==
  ASSUME Base, NoFail, UNCHANGED vars
  PROVE  NoFail'
<1>1. UNCHANGED <<ctxs, proc, line, poll, compact_needed, srv>>
  BY DEF vars, connections, tables
<1> QED BY <1>1, SteadyAll, NothingMoves, AroundNoFail

LEMMA InitNoFail == ASSUME Init PROVE NoFail
<1>1. srv.pc = "poll" /\ \A c \in Ctxs : ~Awaits(c)
  BY DEF Init, Polling, Awaits, Blank
<1>2. DOMAIN poll = Ports /\ \A k \in Ports : poll[k].ctx = -k
  BY DEF Init, Listening
<1>3. \A k \in DOMAIN poll : poll[k].ctx # Nothing
  BY <1>2, SlotNames DEF Nothing
<1> QED BY <1>1, <1>3 DEF NoFail, EmptyOK, InPlace, AwaitsOK, InVisit

LEMMA NextNoFail == ASSUME Base, NoFail, AttachFails = FALSE, [Next]_vars PROVE NoFail'
<1>1. CASE Server
  BY <1>1, PollsNoFail, CompactsNoFail, VisitsNoFail, AcceptsNoFail, AcceptClientNoFail, ClosesNoFail,
     AnswersNoFail, ClosedNoFail, PacketNoFail, DetachesNoFail, AbortsNoFail, LeavesNoFail DEF Server
<1>2. CASE Monitor
  BY <1>2, MonitorNoFail, EventNoFail, LeavesNoFail DEF Monitor
<1> QED BY <1>1, <1>2, MenuNoFail, ClientsNoFail, ProcessesNoFail, StutterNoFail DEF Next

LEMMA SoundTables == ASSUME Base, NoFail PROVE TablesSound
<1> USE DEF Base
<1>1. srv.pc # "fault"
  BY DEF NoFail, EmptyOK
<1>2. \A c \in Ctxs : "USED" \in ctxs[c].flags <=>
       ctxs[c].i \in DOMAIN poll /\ {k \in DOMAIN poll : poll[k].ctx = c} = {ctxs[c].i}
  BY DEF SlotsOK
<1>3. \A p \in Ports : n[p] = Cardinality({c \in Ctxs : "USED" \in ctxs[c].flags /\ ctxs[c].serv = p})
  <2> SUFFICES ASSUME NEW p \in Ports
               PROVE  n[p] = Cardinality({c \in Ctxs : "USED" \in ctxs[c].flags /\ ctxs[c].serv = p})
    OBVIOUS
  <2>1. CASE n[p] = 1
    <3>1. PICK c \in Ctxs : "USED" \in ctxs[c].flags /\ ctxs[c].serv = p
      BY <2>1 DEF CountsOK
    <3>2. {d \in Ctxs : "USED" \in ctxs[d].flags /\ ctxs[d].serv = p} = {c}
      BY <3>1 DEF CountsOK
    <3> QED BY <2>1, <3>2, FS_Singleton
  <2>2. CASE n[p] = 0
    <3>1. {d \in Ctxs : "USED" \in ctxs[d].flags /\ ctxs[d].serv = p} = {}
      BY <2>2 DEF CountsOK
    <3> QED BY <2>2, <3>1, FS_EmptySet
  <2> QED BY <2>1, <2>2 DEF Typed
<1>4. \A c, d \in Ctxs : c # d /\ Allocated(c) /\ Allocated(d) => ctxs[c].localPort # ctxs[d].localPort
  BY DEF PortsOK
<1>5. \A k \in DOMAIN poll : poll[k].fd # poll[k].ctx => poll[k].fd = Nothing /\ ev.terminate
  BY DEF SlotsOK
<1> QED BY <1>1, <1>2, <1>3, <1>4, <1>5 DEF TablesSound

(* sock_util.c: slots and contexts name each other, ports are given once    *)
(* and count their client, and the loop never meets an empty slot, through  *)
(* every connection, hang-up, compaction and end.  Attaching to a selected  *)
(* process must not fail: a failure makes accept_cb clear the slot before   *)
(* the loop has passed it.                                                  *)
THEOREM TablesStaySound == ASSUME AttachFails = FALSE PROVE Spec => []TablesSound
<1>1. Init => Base /\ NoFail
  BY InitBase, InitNoFail
<1>2. Base /\ NoFail /\ [Next]_vars => (Base /\ NoFail)'
  BY NextBase, NextNoFail
<1>3. Base /\ NoFail => TablesSound
  BY SoundTables
<1> QED BY <1>1, <1>2, <1>3, PTL DEF Spec

---------------------------------------------------------------------------
(* What clients and processes know of each other, polite or not             *)

NoEvent(st) == [st |-> st, event |-> "none"]
ProcOK(p) ==
  /\ proc[p].event = "stop" => proc[p].st = "stopped"
  /\ proc[p].event = "exit" => proc[p].st = "dead"
  /\ proc[p].st = "stopped" => Debugged(p)

(* Who is debugged without being attached to is being let go.               *)
LettingGo == {"close", "closing", "waiting", "closed", "detaching"}
Clearing(c) == srv.c = c /\ srv.pc \in LettingGo
HeldOK(c) == ctxs[c].debug # None =>
               ctxs[c].state = "ATTACHED" \/ (ctxs[c].state = "DETACHING" /\ Clearing(c))
(* Nothing is sent on a connection that is closed or just made.             *)
Fresh(c)  == srv.c = c /\ srv.pc = "accepted"
LineOK(c) == line[c].st # "open" \/ Fresh(c) => line[c].pkt = NoPacket
ViewOK(c) ==
  line[c].st = "open" =>
    /\ ctxs[c].state = "ATTACHED" =>
         /\ line[c].view # "none"
         /\ line[c].view = "stopped" => proc[ctxs[c].debug] = NoEvent("stopped")
         /\ line[c].view = "exited"  => proc[ctxs[c].debug] = NoEvent("dead")
         /\ line[c].pkt.cmd = "c"    => proc[ctxs[c].debug] = NoEvent("stopped")
    /\ line[c].pkt.cmd = "c" => line[c].view = "running"
    /\ line[c].pkt.cmd = "vAttach" => line[c].view \in {"none", "exited"}
SessionOK(c) == HeldOK(c) /\ LineOK(c) /\ ViewOK(c)
Views == (\A p \in Pids : ProcOK(p)) /\ (\A c \in Ctxs : SessionOK(c))

LEMMA ProcKept ==
  ASSUME NEW p \in Pids, ProcOK(p), proc'[p] = proc[p], Debugged(p) => Debugged(p)' \/ proc[p].st # "stopped"
  PROVE  ProcOK(p)'
BY DEF ProcOK

LEMMA ProcFreed ==
  ASSUME NEW p \in Pids, proc'[p].event = "none", proc'[p].st # "stopped"
  PROVE  ProcOK(p)'
BY DEF ProcOK

Stays(c) == (Clearing(c) => Clearing(c)' \/ ctxs[c].debug = None) /\ (Fresh(c)' => Fresh(c))

LEMMA StaysSame == ASSUME srv' = srv PROVE \A c \in Ctxs : Stays(c)
BY DEF Stays, Clearing, Fresh

LEMMA StaysElsewhere ==
  ASSUME srv.pc \notin LettingGo, srv'.pc # "accepted"
  PROVE  \A c \in Ctxs : Stays(c)
BY DEF Stays, Clearing, Fresh

LEMMA StaysLettingGo ==
  ASSUME srv'.c = srv.c, srv'.pc \in LettingGo
  PROVE  \A c \in Ctxs : Stays(c)
BY DEF Stays, Clearing, Fresh, LettingGo

LEMMA SessionKept ==
  ASSUME Base, NEW c \in Ctxs, SessionOK(c), ctxs'[c].state = ctxs[c].state, ctxs'[c].debug = ctxs[c].debug,
         line'[c] = line[c] \/ line'[c] = NoLine,
         ctxs[c].debug \in Pids => proc'[ctxs[c].debug] = proc[ctxs[c].debug], Stays(c)
  PROVE  SessionOK(c)'
<1>1. ctxs[c].state = "ATTACHED" => ctxs[c].debug \in Pids
  BY DEF Base, Typed, CtxTypes, Context
<1>2. HeldOK(c)'
  BY DEF HeldOK, SessionOK, Stays
<1>3. LineOK(c)'
  BY DEF LineOK, SessionOK, NoLine, Stays
<1>4. ViewOK(c)'
  BY <1>1 DEF ViewOK, SessionOK, NoLine
<1> QED BY <1>2, <1>3, <1>4 DEF SessionOK

LEMMA SessionOver ==
  ASSUME NEW c \in Ctxs, ctxs'[c].debug = None, ctxs'[c].state # "ATTACHED", line'[c].pkt = NoPacket
  PROVE  SessionOK(c)'
<1>1. HeldOK(c)'
  BY DEF HeldOK
<1>2. LineOK(c)'
  BY DEF LineOK
<1>3. ViewOK(c)'
  BY DEF ViewOK, NoPacket
<1> QED BY <1>1, <1>2, <1>3 DEF SessionOK

(* Steps that attach to nothing and let nothing go                          *)
LEMMA ViewsKept ==
  ASSUME Base, Views, proc' = proc,
         \A c \in Ctxs : ctxs'[c].state = ctxs[c].state /\ ctxs'[c].debug = ctxs[c].debug,
         \A c \in Ctxs : line'[c] = line[c] \/ line'[c] = NoLine,
         \A c \in Ctxs : Stays(c)
  PROVE  Views'
<1>1. \A p \in Pids : ProcOK(p)'
  <2>1. \A p \in Pids : Debugged(p) => Debugged(p)'
    BY DEF Debugged
  <2> QED BY <2>1, ProcKept DEF Views
<1>2. \A c \in Ctxs : SessionOK(c)'
  BY SessionKept DEF Views
<1> QED BY <1>1, <1>2 DEF Views

(* Steps that concern one context: the sessions of the others               *)
LEMMA OthersKept ==
  ASSUME Base, Views, NEW c \in Ctxs,
         \A d \in Ctxs : d # c => ctxs'[d] = ctxs[d] /\ line'[d] = line[d],
         \A q \in Pids : q # ctxs[c].debug /\ Debugged(q) => proc'[q] = proc[q],
         \A d \in Ctxs : d # c => Stays(d)
  PROVE  \A d \in Ctxs : d # c => SessionOK(d)'
<1> SUFFICES ASSUME NEW d \in Ctxs, d # c PROVE SessionOK(d)'
  OBVIOUS
<1>1. SessionOK(d) /\ ctxs'[d] = ctxs[d] /\ line'[d] = line[d]
  BY DEF Views
<1>2. ctxs[d].debug \in Pids => proc'[ctxs[d].debug] = proc[ctxs[d].debug]
  <2>1. ctxs[d].debug \in Pids => ctxs[d].debug # ctxs[c].debug /\ Debugged(ctxs[d].debug)
    BY GdbAssumption DEF Debugged, Base, DebuggersOK
  <2> QED BY <2>1
<1>3. Stays(d)
  OBVIOUS
<1> QED BY <1>1, <1>2, <1>3, SessionKept

LEMMA OthersDebugged ==
  ASSUME NEW c \in Ctxs, \A d \in Ctxs : d # c => ctxs'[d] = ctxs[d]
  PROVE  \A q \in Pids : q # ctxs[c].debug /\ Debugged(q) => Debugged(q)'
BY DEF Debugged

LEMMA SameViews ==
  ASSUME Base, Views, UNCHANGED <<proc, ctxs, line>>, \A c \in Ctxs : Stays(c)
  PROVE  Views'
BY ViewsKept

LEMMA PollViews ==
  ASSUME Base, Views, ServerPolls \/ ServerVisits \/ ServerAsks \/ ServerIsAnswered \/ ServerCompacts
  PROVE  Views'
<1>1. UNCHANGED <<proc, line>>
  BY DEF ServerPolls, ServerVisits, ServerAsks, ServerIsAnswered, ServerCompacts, connections
<1>2. \A c \in Ctxs : ctxs'[c].state = ctxs[c].state /\ ctxs'[c].debug = ctxs[c].debug
  <2>1. CASE ctxs' = ctxs
    BY <2>1
  <2>2. CASE ServerCompacts /\ ~ev.terminate /\ compact_needed
    BY <2>2, Compacted DEF SameButIndex
  <2> QED BY <2>1, <2>2, NotCompacted DEF ServerPolls, ServerVisits, ServerAsks, ServerIsAnswered, ServerCompacts
<1>3. \A c \in Ctxs : Stays(c)
  <2>1. CASE ServerAsks \/ ServerIsAnswered
    <3>1. To("waiting") \/ To("closed")
      BY <2>1 DEF ServerAsks, ServerIsAnswered
    <3>2. srv'.pc \in {"waiting", "closed"} /\ srv'.c = srv.c
      BY <3>1, ToFacts DEF Base, RestOK, SrvPlaces
    <3> QED BY <3>2, StaysLettingGo DEF LettingGo
  <2>2. CASE ServerPolls \/ ServerVisits \/ ServerCompacts
    <3>1. srv.pc \in {"poll", "visit"}
      BY <2>2 DEF ServerPolls, ServerVisits, ServerCompacts, At
    <3>2. srv'.pc # "accepted"
      <4>1. CASE ServerPolls
        BY <4>1, PollsBase, ToFacts DEF ServerPolls, Base, RestOK, SrvPlaces
      <4>2. CASE ServerVisits
        BY <4>2, VisitsBase
      <4>3. CASE ServerCompacts
        BY <4>3, ToFacts DEF ServerCompacts, Polling, Base, RestOK, SrvPlaces
      <4> QED BY <2>2, <4>1, <4>2, <4>3
    <3> QED BY <3>1, <3>2, StaysElsewhere DEF LettingGo
  <2> QED BY <2>1, <2>2
<1> QED BY <1>1, <1>2, <1>3, ViewsKept

LEMMA AcceptsViews ==
  ASSUME Base, Views, ServerAccepts
  PROVE  Views'
<1>1. proc' = proc /\ srv.pc = "accept"
  BY AcceptsCases
<1>2. CASE (To("abort") \/ NextSlot) /\ UNCHANGED <<ctxs, line>>
  <2>1. srv'.pc \in {"abort", "visit"}
    BY <1>2, ToFacts, NextSlotFacts DEF Base, RestOK, SrvPlaces
  <2> QED BY <1>1, <1>2, <2>1, StaysElsewhere, SameViews DEF LettingGo
<1>3. CASE \E c \in Ctxs : Accepts(c, -srv.c, Len(poll) + 1)
  <2>1. PICK c \in Ctxs : Accepts(c, -srv.c, Len(poll) + 1)
    BY <1>3
  <2>2. PICK p, k : p = -srv.c /\ k = Len(poll) + 1 /\ Accepts(c, p, k)
    BY <2>1
  <2>3. /\ k \in 1 .. MAX_CTXS
        /\ ctxs'[c] = Connected(ctxs[c], p, k) /\ \A d \in Ctxs : d # c => ctxs'[d] = ctxs[d]
        /\ line'[c] = [NoLine EXCEPT !.st = "open"] /\ \A d \in Ctxs : d # c => line'[d] = line[d]
    <3>1. Accepts(c, p, k) /\ proc' = proc
      BY <1>1, <2>2
    <3>2. k \in 1 .. MAX_CTXS
      BY <3>1, AcceptsFacts, Zenon
    <3>3. ctxs'[c] = Connected(ctxs[c], p, k) /\ \A d \in Ctxs : d # c => ctxs'[d] = ctxs[d]
      BY <3>1, AcceptsFacts, Zenon
    <3>4. line'[c] = [NoLine EXCEPT !.st = "open"] /\ \A d \in Ctxs : d # c => line'[d] = line[d]
      BY <3>1, AcceptsFacts, Zenon
    <3> QED BY <3>2, <3>3, <3>4
  <2>0. srv'.pc = "accepted" /\ srv'.c = c
    <3>1. Accepts(c, p, k) /\ proc' = proc
      BY <1>1, <2>2
    <3> QED BY <3>1, AcceptsFacts, Zenon
  <2>4. p \in Ports /\ c \in GetClient(p)
    BY <2>2 DEF Accepts
  <2>5. ctxs[c].debug = None
    BY <2>4, ClientFacts
  <2>6. ctxs[c] \in Context /\ k \in 0 .. MAX_CTXS
    BY <2>3, GdbAssumption DEF Base, Typed, CtxTypes
  <2>7. ctxs'[c].debug = None /\ ctxs'[c].state = "CONNECTED"
    BY <2>3, <2>4, <2>5, <2>6, ConnectedFacts
  <2>8. SessionOK(c)'
    BY <2>3, <2>7, SessionOver DEF NoLine
  <2>9. \A d \in Ctxs : d # c => Stays(d)
    BY <1>1, <2>0 DEF Stays, Clearing, Fresh, LettingGo
  <2>10. \A d \in Ctxs : d # c => SessionOK(d)'
    BY <1>1, <2>3, <2>9, OthersKept
  <2>11. \A q \in Pids : Debugged(q) => Debugged(q)'
    BY <2>3, <2>5, OthersDebugged, GdbAssumption
  <2>12. \A q \in Pids : ProcOK(q)'
    BY <1>1, <2>11, ProcKept DEF Views
  <2> QED BY <2>8, <2>10, <2>12 DEF Views
<1> QED BY <1>2, <1>3, AcceptsCases

(* A process is given to a context that has none, or whose process is not   *)
(* stopped.                                                                 *)
LEMMA TakenViews ==
  ASSUME Base, Views, NEW c \in Ctxs, NEW p \in Pids, ~Debugged(p),
         ctxs'[c].debug = p, ctxs'[c].state = "ATTACHED",
         \A d \in Ctxs : d # c => ctxs'[d] = ctxs[d] /\ line'[d] = line[d],
         proc'[p] = NoEvent("stopped"), \A q \in Pids : q # p => proc'[q] = proc[q],
         line'[c].pkt = NoPacket, line'[c].st = "open" => line'[c].view = "stopped",
         ctxs[c].debug \in Pids => proc[ctxs[c].debug].st # "stopped",
         \A d \in Ctxs : d # c => Stays(d)
  PROVE  Views'
<1>1. \A d \in Ctxs : d # c => SessionOK(d)'
  <2>1. \A q \in Pids : q # ctxs[c].debug /\ Debugged(q) => proc'[q] = proc[q]
    OBVIOUS
  <2> QED BY <2>1, OthersKept
<1>2. SessionOK(c)'
  <2>1. HeldOK(c)'
    BY DEF HeldOK
  <2>2. LineOK(c)'
    BY DEF LineOK
  <2>3. ViewOK(c)'
    BY DEF ViewOK, NoPacket
  <2> QED BY <2>1, <2>2, <2>3 DEF SessionOK
<1>3. ProcOK(p)'
  <2>1. Debugged(p)'
    BY DEF Debugged
  <2> QED BY <2>1 DEF ProcOK, NoEvent
<1>4. \A q \in Pids : q # p => ProcOK(q)'
  <2> SUFFICES ASSUME NEW q \in Pids, q # p PROVE ProcOK(q)'
    OBVIOUS
  <2>1. Debugged(q) => Debugged(q)' \/ proc[q].st # "stopped"
    BY DEF Debugged
  <2> QED BY <2>1, ProcKept DEF Views
<1> QED BY <1>1, <1>2, <1>3, <1>4 DEF Views

LEMMA AcceptClientViews ==
  ASSUME Base, Views, AcceptClient
  PROVE  Views'
<1>0. PICK c : c = srv.c
  OBVIOUS
<1>1. srv.pc = "accepted" /\ srv.c = c /\ c \in Ctxs /\ ctxs[c] \in Context /\ ctxs[c].debug = None
  <2>1. srv.pc = "accepted" /\ srv.c = c /\ c \in Ctxs
    BY <1>0, AcceptClientFacts
  <2> QED BY <2>1 DEF Base, Typed, CtxTypes, ContextsOK, ContextOK, PlaceOK
<1>2. \A d \in Ctxs : Stays(d)
  <2>1. NextSlot \/ CloseCtx(c)
    BY <1>0, AcceptClientFacts
  <2>2. srv'.pc \in {"visit", "close"}
    BY <1>1, <2>1, NextSlotFacts, CloseCtxFacts DEF Base, RestOK
  <2> QED BY <1>1, <2>2, StaysElsewhere DEF LettingGo
<1>3. CASE UNCHANGED <<ctxs, proc, line>>
  BY <1>2, <1>3, SameViews
<1>4. CASE /\ ctxs[c].pid \in Pids /\ Attachable(ctxs[c].pid)
           /\ ctxs' = [ctxs EXCEPT ![c] = AttachToProcess(ctxs[c], ctxs[c].pid)]
           /\ Attaching(c, ctxs[c].pid) /\ Tell(c, "stopped")
  <2>1. PICK p \in Pids : p = ctxs[c].pid
    BY <1>4
  <2> DEFINE y == AttachToProcess(ctxs[c], p)
  <2>2. y.debug = p /\ y.state = "ATTACHED"
    BY <1>1, AttachFacts
  <2>3. ctxs' = [ctxs EXCEPT ![c] = y] /\ ctxs \in [Ctxs -> Context]
    BY <1>4, <2>1 DEF Base, Typed, CtxTypes
  <2> HIDE DEF y
  <2>4. ctxs'[c].debug = p /\ ctxs'[c].state = "ATTACHED" /\ \A d \in Ctxs : d # c => ctxs'[d] = ctxs[d]
    BY <1>1, <2>2, <2>3
  <2>5. proc'[p] = NoEvent("stopped") /\ \A q \in Pids : q # p => proc'[q] = proc[q]
    BY <1>1, <1>4, <2>1, AttachingFacts DEF NoEvent
  <2>6. /\ line'[c].pkt = line[c].pkt
        /\ line'[c].st = "open" => line'[c].view = "stopped"
        /\ \A d \in Ctxs : d # c => line'[d] = line[d]
    BY <1>1, <1>4, TellFacts DEF Base, Typed
  <2>7. line[c].pkt = NoPacket
    BY <1>1 DEF Views, SessionOK, LineOK, Fresh
  <2>8. ~Debugged(p) /\ ~(ctxs[c].debug \in Pids)
    BY <1>1, <1>4, <2>1, GdbAssumption DEF Attachable
  <2> QED BY <1>1, <1>2, <2>4, <2>5, <2>6, <2>7, <2>8, TakenViews
<1> QED BY <1>0, <1>3, <1>4, AcceptClientFacts

LEMMA ClosesViews ==
  ASSUME Base, Views, ServerCloses
  PROVE  Views'
<1>0. PICK c : c = srv.c
  OBVIOUS
<1>1. UNCHANGED <<proc, line>>
  BY ClosesFacts
<1>2. \A d \in Ctxs : Stays(d)
  <2>1. To("closed") \/ To("closing")
    BY ClosesFacts
  <2>2. srv'.pc \in LettingGo /\ srv'.c = srv.c
    BY <2>1, ToFacts DEF Base, RestOK, SrvPlaces, LettingGo
  <2> QED BY <2>2, StaysLettingGo
<1>3. CASE ctxs' = ctxs
  BY <1>1, <1>2, <1>3, SameViews
<1>4. CASE c \in Ctxs /\ ctxs' = [ctxs EXCEPT ![c] = Resets(ctxs[c])]
  <2>1. ctxs \in [Ctxs -> Context] /\ ctxs[c] \in Context
    BY <1>4 DEF Base, Typed, CtxTypes
  <2>2. Resets(ctxs[c]).state = ctxs[c].state /\ Resets(ctxs[c]).debug = ctxs[c].debug
    BY <2>1, ResetsFacts
  <2>3. \A d \in Ctxs : ctxs'[d].state = ctxs[d].state /\ ctxs'[d].debug = ctxs[d].debug
    BY <1>4, <2>1, <2>2
  <2> QED BY <1>1, <1>2, <2>3, ViewsKept
<1> QED BY <1>0, <1>3, <1>4, ClosesFacts

(* A context lets its process go: no session is left of it.                 *)
LEMMA FreedViews ==
  ASSUME Base, Views, NEW c \in Ctxs, SessionOK(c)',
         \A d \in Ctxs : d # c => ctxs'[d] = ctxs[d] /\ line'[d] = line[d] /\ Stays(d),
         \A q \in Pids : q # ctxs[c].debug => proc'[q] = proc[q],
         ctxs[c].debug \in Pids => /\ proc'[ctxs[c].debug].event = "none"
                                   /\ proc'[ctxs[c].debug].st \in {"dead", "running"}
  PROVE  Views'
<1>1. \A d \in Ctxs : d # c => SessionOK(d)'
  BY OthersKept
<1>2. \A q \in Pids : ProcOK(q)'
  <2> SUFFICES ASSUME NEW q \in Pids PROVE ProcOK(q)'
    OBVIOUS
  <2>1. CASE q = ctxs[c].debug
    BY <2>1, ProcFreed
  <2>2. CASE q # ctxs[c].debug
    BY <2>2, OthersDebugged, ProcKept DEF Views
  <2> QED BY <2>1, <2>2
<1> QED BY <1>1, <1>2 DEF Views

LEMMA ClosedViews ==
  ASSUME Base, Views, ServerClosed
  PROVE  Views'
<1>0. PICK c : c = srv.c
  OBVIOUS
<1>1. srv.pc = "closed" /\ srv'.pc = "visit"
  BY ClosedFactsOfServer
<1>2. CASE c < 0 /\ UNCHANGED <<ctxs, proc, line>>
  <2>1. \A d \in Ctxs : Stays(d)
    <3>1. \A d \in Ctxs : srv.c # d
      BY <1>0, <1>2, SlotNames
    <3> QED BY <1>1, <3>1 DEF Stays, Clearing, Fresh
  <2> QED BY <1>2, <2>1, SameViews
<1>3. CASE /\ c \in Ctxs /\ ctxs' = [ctxs EXCEPT ![c] = Closed(ctxs[c])]
           /\ proc' = ClosedProc(proc, ctxs[c]) /\ line' = [line EXCEPT ![c] = NoLine]
  <2>1. ctxs \in [Ctxs -> Context] /\ line \in [Ctxs -> Connection] /\ ctxs[c] \in Context
    BY <1>3 DEF Base, Typed, CtxTypes
  <2>2. Closed(ctxs[c]).debug = None /\ Closed(ctxs[c]).state = "DISCONNECTED"
    BY <2>1, ClosedFacts
  <2>3. /\ ctxs'[c].debug = None /\ ctxs'[c].state # "ATTACHED" /\ line'[c].pkt = NoPacket
        /\ \A d \in Ctxs : d # c => ctxs'[d] = ctxs[d] /\ line'[d] = line[d]
    BY <1>3, <2>1, <2>2 DEF NoLine
  <2>4. SessionOK(c)'
    BY <1>3, <2>3, SessionOver
  <2>5. \A d \in Ctxs : d # c => Stays(d)
    BY <1>0, <1>1 DEF Stays, Clearing, Fresh
  <2>6. /\ \A q \in Pids : q # ctxs[c].debug => proc'[q] = proc[q]
        /\ ctxs[c].debug \in Pids => /\ proc'[ctxs[c].debug].event = "none"
                                     /\ proc'[ctxs[c].debug].st \in {"dead", "running"}
    BY <1>3, <2>1, ClosedProcFacts DEF Base, Typed
  <2> QED BY <1>3, <2>3, <2>4, <2>5, <2>6, FreedViews
<1> QED BY <1>0, <1>2, <1>3, ClosedFactsOfServer

(* A packet is handled that attaches to nothing and lets nothing go.        *)
LEMMA HandledViews ==
  ASSUME Base, Views, NEW c \in Ctxs, srv.c = c, srv.pc = "data", srv'.pc # "accepted",
         \A d \in Ctxs : d # c => ctxs'[d] = ctxs[d] /\ line'[d] = line[d],
         ctxs'[c].debug = ctxs[c].debug, SessionOK(c)',
         \A q \in Pids : q # ctxs[c].debug => proc'[q] = proc[q],
         \A q \in Pids : q = ctxs[c].debug /\ Debugged(q)' => ProcOK(q)'
  PROVE  Views'
<1>1. \A d \in Ctxs : d # c => Stays(d)
  BY StaysElsewhere DEF LettingGo
<1>2. \A d \in Ctxs : d # c => SessionOK(d)'
  BY <1>1, OthersKept
<1>3. \A q \in Pids : ProcOK(q)'
  <2> SUFFICES ASSUME NEW q \in Pids PROVE ProcOK(q)'
    OBVIOUS
  <2>1. CASE q = ctxs[c].debug
    BY <2>1 DEF Debugged
  <2>2. CASE q # ctxs[c].debug
    BY <2>2, OthersDebugged, ProcKept DEF Views
  <2> QED BY <2>1, <2>2
<1> QED BY <1>2, <1>3 DEF Views

LEMMA FinishedViews ==
  ASSUME Base, Views, NEW c \in Ctxs, srv.c = c, srv.pc = "data",
         NEW x \in Context, Finished(c, x), x.state = ctxs[c].state, x.debug = ctxs[c].debug,
         line'[c].pkt = NoPacket, line'[c].st = line[c].st, \A d \in Ctxs : d # c => line'[d] = line[d],
         \A q \in Pids : q # ctxs[c].debug => proc'[q] = proc[q],
         \A q \in Pids : q = ctxs[c].debug /\ Debugged(q)' => ProcOK(q)',
         ctxs[c].state = "ATTACHED" /\ line[c].st = "open" =>
           /\ line'[c].view # "none"
           /\ line'[c].view = "stopped" => proc'[ctxs[c].debug] = NoEvent("stopped")
           /\ line'[c].view = "exited"  => proc'[ctxs[c].debug] = NoEvent("dead")
  PROVE  Views'
<1>1. PICK y \in Context :
        /\ ctxs' = [ctxs EXCEPT ![c] = y] /\ y.debug = x.debug
        /\ srv'.pc \in {"visit", "close"}
        /\ y.state = x.state \/ (x.state = "DETACHING" /\ y.state = "CONNECTED")
  BY FinishedFacts
<1>2. ctxs'[c] = y /\ \A d \in Ctxs : d # c => ctxs'[d] = ctxs[d]
  BY <1>1 DEF Base, Typed, CtxTypes
<1>3. HeldOK(c)'
  <2>1. ctxs[c].debug # None => ctxs[c].state = "ATTACHED"
    BY DEF Views, SessionOK, HeldOK, Clearing, LettingGo
  <2> QED BY <1>1, <1>2, <2>1 DEF HeldOK
<1>4. LineOK(c)'
  BY DEF LineOK
<1>5. ViewOK(c)'
  BY <1>1, <1>2 DEF ViewOK, NoPacket
<1> QED BY <1>1, <1>2, <1>3, <1>4, <1>5, HandledViews DEF SessionOK

(* The client ends its session: the context is being let go.                *)
LEMMA EndedViews ==
  ASSUME Base, Views, NEW c \in Ctxs, srv.c = c, srv.pc = "data",
         NEW y, ctxs' = [ctxs EXCEPT ![c] = y], y.debug = ctxs[c].debug, y.state = "DETACHING",
         srv'.c = c, srv'.pc \in LettingGo, proc' = proc,
         line'[c].pkt = NoPacket, \A d \in Ctxs : d # c => line'[d] = line[d]
  PROVE  Views'
<1>1. ctxs'[c] = y /\ \A d \in Ctxs : d # c => ctxs'[d] = ctxs[d]
  BY DEF Base, Typed, CtxTypes
<1>2. HeldOK(c)' /\ LineOK(c)' /\ ViewOK(c)'
  BY <1>1 DEF HeldOK, LineOK, ViewOK, Clearing, NoPacket
<1>3. \A q \in Pids : ProcOK(q)'
  <2>1. \A q \in Pids : Debugged(q) => Debugged(q)'
    BY <1>1 DEF Debugged
  <2> QED BY <2>1, ProcKept DEF Views
<1> QED BY <1>1, <1>2, <1>3, HandledViews DEF SessionOK, LettingGo

LEMMA DetachingViews ==
  ASSUME Base, Views, NEW c \in Ctxs, srv.c = c, srv.pc = "data",
         NEW x \in Context, Detaching(c, x), x.debug = ctxs[c].debug,
         line'[c].pkt = NoPacket, \A d \in Ctxs : d # c => line'[d] = line[d]
  PROVE  Views'
<1> DEFINE w == [x EXCEPT !.state = "DETACHING"]
           y == Resets(w)
<1>1. ctxs' = [ctxs EXCEPT ![c] = y] /\ To("detaching") /\ UNCHANGED proc
  BY DEF Detaching
<1>2. w \in Context /\ w.state = "DETACHING" /\ w.debug = x.debug
  BY DEF Context
<1> HIDE DEF w
<1>3. y.state = "DETACHING" /\ y.debug = x.debug
  BY <1>2, ResetsFacts
<1> HIDE DEF y
<1>4. srv'.pc = "detaching" /\ srv'.c = c
  BY <1>1, ToFacts DEF Base, RestOK, SrvPlaces
<1> QED BY <1>1, <1>3, <1>4, EndedViews DEF LettingGo

LEMMA ContinueViews ==
  ASSUME Base, Views, NEW c \in Ctxs, srv.c = c, srv.pc = "data", Continue(c), line[c].pkt.cmd = "c",
         line'[c].pkt = NoPacket, line'[c].st = line[c].st, line'[c].view = line[c].view,
         \A d \in Ctxs : d # c => line'[d] = line[d]
  PROVE  Views'
<1>1. PICK x : /\ Finished(c, x) /\ Handles(c, x) /\ x.state = ctxs[c].state /\ x.debug = ctxs[c].debug
               /\ \A q \in Pids : q # ctxs[c].debug => proc'[q] = proc[q]
               /\ \A q \in Pids : q = ctxs[c].debug =>
                    /\ proc'[q].event = proc[q].event
                    /\ proc'[q].st = IF proc[q] = [st |-> "stopped", event |-> "none"] THEN "running" ELSE proc[q].st
  BY ContinueFacts
<1>2. line[c].st = "open" /\ line[c].view = "running"
  BY DEF Views, SessionOK, LineOK, ViewOK, NoPacket
<1>3. \A q \in Pids : q = ctxs[c].debug => proc[q] = NoEvent("stopped")
  <2>1. ctxs[c].debug # None => ctxs[c].state = "ATTACHED"
    BY DEF Views, SessionOK, HeldOK, Clearing, LettingGo
  <2> QED BY <1>2, <2>1, GdbAssumption DEF Views, SessionOK, ViewOK
<1>4. \A q \in Pids : q = ctxs[c].debug => ProcOK(q)'
  BY <1>1, <1>3 DEF ProcOK, NoEvent
<1>5. x \in Context
  BY <1>1 DEF Handles, HandlesRest
<1> QED BY <1>1, <1>2, <1>4, <1>5, FinishedViews

LEMMA BreakViews ==
  ASSUME Base, Views, NEW c \in Ctxs, srv.c = c, srv.pc = "data", Break(c),
         line'[c].pkt = NoPacket, line'[c].st = line[c].st, line'[c].view = line[c].view,
         \A d \in Ctxs : d # c => line'[d] = line[d]
  PROVE  Views'
<1>1. PICK x : /\ Finished(c, x) /\ Handles(c, x) /\ x.state = ctxs[c].state /\ x.debug = ctxs[c].debug
               /\ \A q \in Pids : q # ctxs[c].debug => proc'[q] = proc[q]
               /\ \A q \in Pids : q = ctxs[c].debug =>
                     \/ proc'[q] = proc[q]
                     \/ proc[q].st = "running" /\ proc'[q] = [st |-> "stopped", event |-> "stop"]
  BY BreakFacts
<1>2. ctxs[c].state = "ATTACHED" => ctxs[c].debug \in Pids
  BY DEF Base, Typed, CtxTypes, Context
<1>3. \A q \in Pids : q = ctxs[c].debug /\ Debugged(q)' => ProcOK(q)'
  BY <1>1 DEF ProcOK, Views
<1>4. ctxs[c].state = "ATTACHED" /\ line[c].st = "open" =>
        /\ line'[c].view # "none"
        /\ line'[c].view = "stopped" => proc'[ctxs[c].debug] = NoEvent("stopped")
        /\ line'[c].view = "exited"  => proc'[ctxs[c].debug] = NoEvent("dead")
  <2>1. ctxs[c].state = "ATTACHED" /\ line[c].st = "open" =>
          /\ line[c].view # "none"
          /\ line[c].view = "stopped" => proc[ctxs[c].debug] = NoEvent("stopped")
          /\ line[c].view = "exited"  => proc[ctxs[c].debug] = NoEvent("dead")
    BY DEF Views, SessionOK, ViewOK
  <2> QED BY <1>1, <1>2, <2>1 DEF NoEvent
<1>5. x \in Context
  BY <1>1 DEF Handles, HandlesRest
<1> QED BY <1>1, <1>3, <1>4, <1>5, FinishedViews

(* Steps that leave the processes and the view of the client alone          *)
LEMMA QuietViews ==
  ASSUME Base, Views, NEW c \in Ctxs,
         line'[c].view = line[c].view, proc' = proc
  PROVE  /\ \A q \in Pids : q = ctxs[c].debug /\ Debugged(q)' => ProcOK(q)'
         /\ ctxs[c].state = "ATTACHED" /\ line[c].st = "open" =>
              /\ line'[c].view # "none"
              /\ line'[c].view = "stopped" => proc'[ctxs[c].debug] = NoEvent("stopped")
              /\ line'[c].view = "exited"  => proc'[ctxs[c].debug] = NoEvent("dead")
BY DEF Views, SessionOK, ViewOK, ProcOK

LEMMA AttachViews ==
  ASSUME Base, Views, NEW c \in Ctxs, srv.c = c, srv.pc = "data", line[c].pkt.cmd = "vAttach",
         NEW p \in Pids, Attachable(p), NEW x \in Context, Finished(c, x), Attaching(c, p),
         x.debug = p, x.state = "ATTACHED",
         line'[c].pkt = NoPacket, line'[c].view = "stopped", \A d \in Ctxs : d # c => line'[d] = line[d]
  PROVE  Views'
<1>1. PICK y \in Context : /\ ctxs' = [ctxs EXCEPT ![c] = y] /\ y.debug = p /\ y.state = "ATTACHED"
                           /\ srv'.pc = "visit"
  BY FinishedFacts
<1>2. ctxs'[c] = y /\ \A d \in Ctxs : d # c => ctxs'[d] = ctxs[d]
  BY <1>1 DEF Base, Typed, CtxTypes
<1>3. proc'[p] = NoEvent("stopped") /\ \A q \in Pids : q # p => proc'[q] = proc[q]
  BY AttachingFacts DEF NoEvent
<1>4. ctxs[c].debug \in Pids => proc[ctxs[c].debug].st # "stopped"
  <2>1. ctxs[c].debug # None => ctxs[c].state = "ATTACHED"
    BY DEF Views, SessionOK, HeldOK, Clearing, LettingGo
  <2>2. line[c].st = "open" /\ line[c].view \in {"none", "exited"}
    BY DEF Views, SessionOK, LineOK, ViewOK, NoPacket
  <2>3. ctxs[c].debug # None => proc[ctxs[c].debug] = NoEvent("dead")
    BY <2>1, <2>2 DEF Views, SessionOK, ViewOK
  <2> QED BY <2>3, GdbAssumption DEF NoEvent
<1>5. \A d \in Ctxs : Stays(d)
  BY <1>1, StaysElsewhere DEF LettingGo
<1>6. ~Debugged(p)
  BY DEF Attachable
<1> QED BY <1>1, <1>2, <1>3, <1>4, <1>5, <1>6, TakenViews

LEMMA PacketViews ==
  ASSUME Base, Views, DoPacket
  PROVE  Views'
<1>0. PICK c, pkt : c = srv.c /\ pkt = line[c].pkt
  OBVIOUS
<1>1. /\ c \in Ctxs /\ srv.c = c /\ srv.pc = "data" /\ (pkt.cmd = "vAttach" => pkt.pid \in Pids)
      /\ line'[c].pkt = NoPacket /\ line'[c].st = line[c].st
      /\ line'[c].view = IF pkt.cmd = "vAttach" /\ Attachable(pkt.pid) THEN "stopped"
                         ELSE IF pkt.cmd \in {"D", "k", "vAttach"} THEN "none" ELSE line[c].view
      /\ \A d \in Ctxs : d # c => line'[d] = line[d]
  BY <1>0, PacketFacts
<1>2. \/ pkt.cmd = "c" /\ Continue(c)
      \/ pkt.cmd = "brk" /\ Break(c)
      \/ pkt.cmd = "D" /\ EndSession(c, {})
      \/ pkt.cmd = "k" /\ EndSession(c, {"TERMINATE_PROCESS"})
      \/ pkt.cmd = "!" /\ EnableExtendedMode(c)
      \/ pkt.cmd = "vAttach" /\ VerboseAttach(c, pkt.pid)
      \/ pkt.cmd = "none" /\ CloseCtx(c) /\ UNCHANGED <<ctxs, proc, ev, mon>>
  BY <1>0, PacketFacts
<1>3. CASE pkt.cmd = "c" /\ Continue(c)
  <2>1. line[c].pkt.cmd = "c" /\ line'[c].view = line[c].view
    BY <1>0, <1>1, <1>3
  <2> QED BY <1>1, <1>3, <2>1, ContinueViews
<1>4. CASE pkt.cmd = "brk" /\ Break(c)
  BY <1>1, <1>4, BreakViews
<1>5. CASE EndSession(c, {}) \/ EndSession(c, {"TERMINATE_PROCESS"})
  <2>1. PICK fl \in SUBSET {"TERMINATE_PROCESS"} : EndSession(c, fl)
    BY <1>5
  <2>2. PICK x : /\ Handles(c, x) /\ x.flags = ctxs[c].flags \cup fl /\ x.debug = ctxs[c].debug
                 /\ x.state = "DETACHING"
                 /\ \/ Detaching(c, x)
                    \/ "EXTENDED_REMOTE" \notin ctxs[c].flags /\ Finished(c, x) /\ UNCHANGED <<proc, ev, mon>>
    BY <1>1, <2>1, EndSessionFacts
  <2>3. x \in Context
    BY <2>2 DEF Handles, HandlesRest
  <2>4. CASE Detaching(c, x)
    BY <1>1, <2>2, <2>3, <2>4, DetachingViews
  <2>5. CASE "EXTENDED_REMOTE" \notin ctxs[c].flags /\ Finished(c, x) /\ UNCHANGED <<proc, ev, mon>>
    <3>1. "EXTENDED_REMOTE" \notin x.flags
      BY <2>1, <2>2, <2>5
    <3>2. PICK y : /\ ctxs' = [ctxs EXCEPT ![c] = y] /\ y.debug = x.debug /\ y.state = "DETACHING"
                   /\ srv'.pc = "close" /\ srv'.c = c
      BY <1>1, <2>2, <2>3, <2>5, <3>1, FinishedFacts
    <3> QED BY <1>1, <2>2, <2>5, <3>2, EndedViews DEF LettingGo
  <2> QED BY <2>2, <2>4, <2>5
<1>6. CASE pkt.cmd = "!" /\ EnableExtendedMode(c)
  <2>1. PICK x : /\ Finished(c, x) /\ Handles(c, x) /\ proc' = proc
                 /\ x.state = ctxs[c].state /\ x.debug = ctxs[c].debug
    BY <1>1, <1>6, ExtendedFacts
  <2>2. x \in Context
    BY <2>1 DEF Handles, HandlesRest
  <2>3. line'[c].view = line[c].view
    BY <1>1, <1>6
  <2> QED BY <1>1, <2>1, <2>2, <2>3, QuietViews, FinishedViews
<1>7. CASE pkt.cmd = "vAttach" /\ VerboseAttach(c, pkt.pid)
  <2>1. PICK p \in Pids : p = pkt.pid /\ VerboseAttach(c, p)
    BY <1>1, <1>7
  <2>2. PICK x : \/ /\ Attachable(p) /\ Handles(c, x) /\ Finished(c, x) /\ Attaching(c, p)
                    /\ x.debug = p /\ x.state = "ATTACHED"
                 \/ HandlesRest(c, x) /\ Detaching(c, x) /\ x.debug = ctxs[c].debug
    BY <1>1, <2>1, VerboseAttachFacts
  <2>3. x \in Context
    BY <2>2 DEF Handles, HandlesRest
  <2>4. CASE Detaching(c, x) /\ x.debug = ctxs[c].debug
    BY <1>1, <2>3, <2>4, DetachingViews
  <2>5. CASE Attachable(p) /\ Finished(c, x) /\ Attaching(c, p) /\ x.debug = p /\ x.state = "ATTACHED"
    <3>1. line[c].pkt.cmd = "vAttach" /\ line'[c].view = "stopped"
      BY <1>0, <1>1, <1>7, <2>1, <2>5
    <3> QED BY <1>1, <2>3, <2>5, <3>1, AttachViews
  <2> QED BY <2>2, <2>4, <2>5
<1>8. CASE pkt.cmd = "none" /\ CloseCtx(c) /\ UNCHANGED <<ctxs, proc, ev, mon>>
  <2>1. srv'.pc = "close" /\ srv'.c = c
    BY <1>1, <1>8, CloseCtxFacts DEF Base, RestOK
  <2>2. line'[c].view = line[c].view /\ proc' = proc /\ ctxs' = ctxs
    BY <1>1, <1>8
  <2>3. HeldOK(c)' /\ LineOK(c)' /\ ViewOK(c)'
    <3>1. HeldOK(c)'
      BY <1>1, <2>2 DEF Views, SessionOK, HeldOK, Clearing, LettingGo
    <3>2. LineOK(c)'
      BY <1>1 DEF LineOK
    <3>3. ViewOK(c)'
      <4>1. line'[c].st = line[c].st /\ line'[c].pkt.cmd = "none"
        BY <1>1 DEF NoPacket
      <4>2. ViewOK(c)
        BY <1>1 DEF Views, SessionOK
      <4> QED BY <2>2, <4>1, <4>2 DEF ViewOK
    <3> QED BY <3>1, <3>2, <3>3
  <2> QED BY <1>1, <2>1, <2>2, <2>3, QuietViews, HandledViews DEF SessionOK
<1> QED BY <1>2, <1>3, <1>4, <1>5, <1>6, <1>7, <1>8

LEMMA DetachesViews ==
  ASSUME Base, Views, ServerDetaches
  PROVE  Views'
<1>0. PICK c, x : c = srv.c /\ x = Kept(Detached(ctxs[c]))
  OBVIOUS
<1>1. /\ c \in Ctxs /\ srv.c = c /\ srv.pc = "detaching" /\ proc' = Released(proc, ctxs[c]) /\ line' = line
      /\ x \in Context /\ x.state = "DETACHING" /\ x.debug = None /\ Finished(c, x)
  BY <1>0, DetachesFacts
<1>2. PICK y \in Context : /\ ctxs' = [ctxs EXCEPT ![c] = y] /\ y.debug = None /\ y.state \in {"CONNECTED", "DETACHING"}
                           /\ srv'.pc \in {"visit", "close"}
  BY <1>1, FinishedFacts
<1>3. ctxs'[c] = y /\ \A d \in Ctxs : d # c => ctxs'[d] = ctxs[d]
  BY <1>1, <1>2 DEF Base, Typed, CtxTypes
<1>4. SessionOK(c)'
  <2>1. HeldOK(c)'
    BY <1>2, <1>3 DEF HeldOK
  <2>2. LineOK(c)'
    BY <1>1, <1>2 DEF LineOK, Fresh, Views, SessionOK
  <2>3. ViewOK(c)'
    BY <1>1, <1>2, <1>3 DEF ViewOK, Views, SessionOK
  <2> QED BY <2>1, <2>2, <2>3 DEF SessionOK
<1>5. \A d \in Ctxs : d # c => Stays(d)
  BY <1>1, <1>2 DEF Stays, Clearing, Fresh
<1>6. /\ \A q \in Pids : q # ctxs[c].debug => proc'[q] = proc[q]
      /\ ctxs[c].debug \in Pids => /\ proc'[ctxs[c].debug].event = "none"
                                   /\ proc'[ctxs[c].debug].st \in {"dead", "running"}
  BY <1>1, ReleasedFacts DEF Base, Typed, CtxTypes
<1> QED BY <1>1, <1>3, <1>4, <1>5, <1>6, FreedViews

LEMMA AbortsViews ==
  ASSUME Base, Views, ServerAborts
  PROVE  Views'
<1>1. KillConnections /\ To("leave") /\ srv.pc = "abort" /\ UNCHANGED <<ctxs, proc>>
  BY DEF ServerAborts, At
<1>2. srv'.pc = "leave"
  BY <1>1, ToFacts DEF Base, RestOK, SrvPlaces
<1>3. \A c \in Ctxs : line'[c] = line[c] \/ line'[c] = NoLine
  BY <1>1, KillFacts
<1>4. \A c \in Ctxs : Stays(c)
  BY <1>1, <1>2, StaysElsewhere DEF LettingGo
<1> QED BY <1>1, <1>3, <1>4, ViewsKept

LEMMA FinalizedViews ==
  ASSUME Base, Views, Finalized
  PROVE  Views'
<1>1. \A c \in Ctxs : SessionOK(c)'
  BY FinalizedFacts, SessionOver DEF NoLine
<1>2. \A p \in Pids : ProcOK(p)'
  <2> SUFFICES ASSUME NEW p \in Pids PROVE ProcOK(p)'
    OBVIOUS
  <2>1. CASE Debugged(p)
    BY <2>1, FinalizedFacts, ProcFreed
  <2>2. CASE ~Debugged(p)
    BY <2>2, FinalizedFacts, ProcKept DEF Views
  <2> QED BY <2>1, <2>2
<1> QED BY <1>1, <1>2 DEF Views

LEMMA LeavesViews ==
  ASSUME Base, Views, ServerLeaves \/ MonitorLeaves
  PROVE  Views'
<1>1. Finalized \/ UNCHANGED <<proc, ctxs, line>>
  BY DEF ServerLeaves, MonitorLeaves, Dereference
<1>2. \A c \in Ctxs : Stays(c)
  <2>1. CASE ServerLeaves
    <3>1. srv.pc = "leave" /\ srv'.pc = "gone"
      BY <2>1, ToFacts DEF ServerLeaves, Base, RestOK, SrvPlaces
    <3> QED BY <3>1, StaysElsewhere DEF LettingGo
  <2>2. CASE MonitorLeaves
    BY <2>2, StaysSame DEF MonitorLeaves
  <2> QED BY <2>1, <2>2
<1> QED BY <1>1, <1>2, FinalizedViews, SameViews

(* The processes                                                            *)
LEMMA DebuggeeViews ==
  ASSUME Base, Views, NEW p \in Pids, Debuggee(p)
  PROVE  Views'
<1>1. UNCHANGED <<ctxs, line, srv>>
  BY DEF Debuggee, connections
<1>2. /\ proc[p] = NoEvent("running") /\ \A q \in Pids : q # p => proc'[q] = proc[q]
      /\ \/ proc'[p].event = "stop" /\ proc'[p].st = "stopped"
         \/ proc'[p].event = "auto" /\ proc'[p].st = "running"
         \/ proc'[p].event = "exit" /\ proc'[p].st = "dead"
      /\ \E c \in Ctxs : ctxs[c].debug = p
  BY DebuggeeFacts DEF NoEvent
<1>3. \A q \in Pids : ProcOK(q)'
  <2>1. ProcOK(p)'
    BY <1>1, <1>2 DEF ProcOK, Debugged
  <2>2. \A q \in Pids : q # p => ProcOK(q)'
    BY <1>1, <1>2 DEF ProcOK, Debugged, Views
  <2> QED BY <2>1, <2>2
<1>4. \A c \in Ctxs : SessionOK(c)'
  <2> SUFFICES ASSUME NEW c \in Ctxs PROVE SessionOK(c)'
    OBVIOUS
  <2>1. HeldOK(c) /\ LineOK(c) /\ ViewOK(c)
    BY DEF Views, SessionOK
  <2>2. HeldOK(c)' /\ LineOK(c)'
    BY <1>1, <2>1 DEF HeldOK, LineOK, Clearing, Fresh
  <2>3. ViewOK(c)'
    <3>1. CASE ctxs[c].debug = p
      BY <1>1, <1>2, <2>1, <3>1 DEF ViewOK, NoEvent
    <3>2. CASE ctxs[c].debug # p
      <4>1. ctxs[c].state = "ATTACHED" => ctxs[c].debug \in Pids
        BY DEF Base, Typed, CtxTypes, Context
      <4> QED BY <1>1, <1>2, <2>1, <3>2, <4>1 DEF ViewOK
    <3> QED BY <3>1, <3>2
  <2> QED BY <2>2, <2>3 DEF SessionOK
<1> QED BY <1>3, <1>4 DEF Views

LEMMA RestartedViews ==
  ASSUME Base, Views, NEW p \in Pids, Restarted(p)
  PROVE  Views'
<1>1. /\ UNCHANGED <<ctxs, line, srv>> /\ \A c \in Ctxs : ctxs[c].pid # p
      /\ proc' = [proc EXCEPT ![p] = NoEvent("running")]
  BY DEF Restarted, connections, NoEvent
<1>2. proc'[p] = NoEvent("running") /\ \A q \in Pids : q # p => proc'[q] = proc[q]
  BY <1>1 DEF Base, Typed
<1>3. \A q \in Pids : ProcOK(q)'
  <2>1. ProcOK(p)'
    BY <1>2 DEF ProcOK, NoEvent
  <2>2. \A q \in Pids : q # p => ProcOK(q)'
    BY <1>1, <1>2 DEF ProcOK, Debugged, Views
  <2> QED BY <2>1, <2>2
<1>4. \A c \in Ctxs : SessionOK(c)'
  <2> SUFFICES ASSUME NEW c \in Ctxs PROVE SessionOK(c)'
    OBVIOUS
  <2>1. HeldOK(c) /\ LineOK(c) /\ ViewOK(c)
    BY DEF Views, SessionOK
  <2>2. HeldOK(c)' /\ LineOK(c)'
    BY <1>1, <2>1 DEF HeldOK, LineOK, Clearing, Fresh
  <2>3. ctxs[c].state = "ATTACHED" => ctxs[c].debug \in Pids /\ ctxs[c].debug # p
    BY <1>1 DEF Base, Typed, CtxTypes, Context, ContextsOK, ContextOK, OwnOK
  <2>4. ViewOK(c)'
    BY <1>1, <1>2, <2>1, <2>3 DEF ViewOK
  <2> QED BY <2>2, <2>4 DEF SessionOK
<1> QED BY <1>3, <1>4 DEF Views

(* The clients, and the menu                                                *)
LEMMA SendViews ==
  ASSUME Base, Views, NEW c \in Ctxs, Send(c)
  PROVE  Views'
<1>1. UNCHANGED <<ctxs, proc, srv>> /\ srv.pc = "poll" /\ line[c].st = "open"
  BY SendFacts DEF ClientSteps
<1>2. PICK pkt \in Packet :
        /\ pkt.cmd \in Commands
        /\ pkt.cmd = "vAttach" => line[c].view \in {"none", "exited"}
        /\ pkt.cmd = "c" => line[c].view = "stopped"
        /\ line'[c].st = "open" /\ line'[c].pkt = pkt
        /\ line'[c].view = IF pkt.cmd = "c" THEN "running"
                           ELSE IF pkt.cmd = "brk" THEN "breaking" ELSE line[c].view
        /\ \A d \in Ctxs : d # c => line'[d] = line[d]
  BY SendFacts
<1>3. HeldOK(c) /\ ViewOK(c)
  BY DEF Views, SessionOK
<1>4. HeldOK(c)' /\ LineOK(c)'
  BY <1>1, <1>2, <1>3 DEF HeldOK, LineOK, Clearing, Fresh
<1>5. ViewOK(c)'
  <2>1. CASE pkt.cmd = "c"
    BY <1>1, <1>2, <1>3, <2>1 DEF ViewOK
  <2>2. CASE pkt.cmd = "brk"
    BY <1>1, <1>2, <1>3, <2>2 DEF ViewOK
  <2>3. CASE pkt.cmd \notin {"c", "brk"}
    BY <1>1, <1>2, <1>3, <2>3 DEF ViewOK
  <2> QED BY <2>1, <2>2, <2>3
<1>6. \A d \in Ctxs : d # c => SessionOK(d)'
  BY <1>1, <1>2, StaysSame, OthersKept
<1>7. \A q \in Pids : ProcOK(q)'
  BY <1>1 DEF Views, ProcOK, Debugged
<1> QED BY <1>4, <1>5, <1>6, <1>7 DEF Views, SessionOK

LEMMA ClientsViews ==
  ASSUME Base, Views, Clients
  PROVE  Views'
<1>1. UNCHANGED <<ctxs, proc, srv>>
  BY DEF Clients, Connect, Send, HangUp, ClientSteps
<1>2. CASE \E p \in Ports : Connect(p)
  BY <1>1, <1>2, StaysSame, SameViews DEF Connect
<1>3. CASE \E c \in Ctxs : HangUp(c)
  <2>1. PICK c \in Ctxs : HangUp(c)
    BY <1>3
  <2>2. line'[c].st = "hup" /\ line'[c].pkt = NoPacket /\ \A d \in Ctxs : d # c => line'[d] = line[d]
    BY <2>1, HangUpFacts
  <2>3. HeldOK(c)' /\ LineOK(c)' /\ ViewOK(c)'
    BY <1>1, <2>2 DEF HeldOK, LineOK, ViewOK, Clearing, Views, SessionOK
  <2>4. \A d \in Ctxs : d # c => SessionOK(d)'
    BY <1>1, <2>2, StaysSame, OthersKept
  <2>5. \A q \in Pids : ProcOK(q)'
    BY <1>1 DEF Views, ProcOK, Debugged
  <2> QED BY <2>3, <2>4, <2>5 DEF Views, SessionOK
<1> QED BY <1>2, <1>3, SendViews DEF Clients

LEMMA MenuViews ==
  ASSUME Base, Views, Menu
  PROVE  Views'
<1>1. UNCHANGED <<proc, srv>>
  BY DEF Menu, Disable, DisableKills, DisableJoins, SelectProcess, DeselectProcess, MenuSteps
<1>2. \A c \in Ctxs : Stays(c)
  BY <1>1, StaysSame
<1>3. CASE Disable \/ DisableJoins
  BY <1>1, <1>2, <1>3, SameViews DEF Disable, DisableJoins
<1>4. CASE DisableKills
  <2>1. KillConnections /\ ctxs' = ctxs
    BY <1>4 DEF DisableKills
  <2>2. \A c \in Ctxs : line'[c] = line[c] \/ line'[c] = NoLine
    BY <2>1, KillFacts
  <2> QED BY <1>1, <1>2, <2>1, <2>2, ViewsKept
<1>5. CASE \E p \in Pids : SelectProcess(p) \/ DeselectProcess(p)
  <2>1. PICK p \in Pids : SelectProcess(p) \/ DeselectProcess(p)
    BY <1>5
  <2>2. line' = line /\ ctxs \in [Ctxs -> Context]
    BY <2>1, SelectFacts, DeselectFacts DEF Base, Typed, CtxTypes
  <2>3. PICK c \in Ctxs : \/ \E q \in Ports : ctxs' = [ctxs EXCEPT ![c] = SetAside(ctxs[c], p, q)]
                          \/ ctxs' = [ctxs EXCEPT ![c] = GivenUp(ctxs[c])]
    <3>1. CASE SelectProcess(p)
      BY <3>1, SelectFacts
    <3>2. CASE DeselectProcess(p)
      BY <3>2, DeselectFacts
    <3> QED BY <2>1, <3>1, <3>2
  <2>4. PICK y : /\ ctxs' = [ctxs EXCEPT ![c] = y]
                 /\ y.state = ctxs[c].state /\ y.debug = ctxs[c].debug
    <3>1. ctxs[c] \in Context
      BY <2>2
    <3>2. GivenUp(ctxs[c]).state = ctxs[c].state /\ GivenUp(ctxs[c]).debug = ctxs[c].debug
      BY <3>1, GivenUpFacts
    <3>3. \A q \in Ports : /\ SetAside(ctxs[c], p, q).state = ctxs[c].state
                           /\ SetAside(ctxs[c], p, q).debug = ctxs[c].debug
      BY <3>1, SetAsideFacts
    <3> QED BY <2>3, <3>2, <3>3
  <2>5. \A d \in Ctxs : ctxs'[d].state = ctxs[d].state /\ ctxs'[d].debug = ctxs[d].debug
    BY <2>2, <2>4
  <2> QED BY <1>1, <1>2, <2>2, <2>5, ViewsKept
<1> QED BY <1>3, <1>4, <1>5 DEF Menu

(* The monitor                                                              *)
LEMMA RoundViews ==
  ASSUME Base, Views, MonitorReads \/ MonitorWaits \/ MonitorAcknowledges
  PROVE  Views'
<1>1. MonitorSteps /\ UNCHANGED <<proc, line>>
  BY ReadsFacts, WaitFacts, AcknowledgeFacts
<1>2. \A c \in Ctxs : Stays(c)
  BY <1>1, StaysSame DEF MonitorSteps
<1>3. \A c \in Ctxs : ctxs'[c].state = ctxs[c].state /\ ctxs'[c].debug = ctxs[c].debug
  <2>1. CASE ctxs' = ctxs
    BY <2>1
  <2>2. CASE \E c \in Ctxs, b \in BOOLEAN : ctxs' = [ctxs EXCEPT ![c] = [ctxs[c] EXCEPT !.continued = b]]
    <3>1. PICK c \in Ctxs, b \in BOOLEAN : ctxs' = [ctxs EXCEPT ![c] = [ctxs[c] EXCEPT !.continued = b]]
      BY <2>2
    <3>2. PICK y : y = [ctxs[c] EXCEPT !.continued = b]
      OBVIOUS
    <3>3. ctxs \in [Ctxs -> Context] /\ ctxs[c] \in Context
      BY DEF Base, Typed, CtxTypes
    <3>4. y.state = ctxs[c].state /\ y.debug = ctxs[c].debug
      BY <3>2, <3>3 DEF Context
    <3> QED BY <3>1, <3>2, <3>3, <3>4
  <2>3. \/ ctxs' = ctxs
        \/ \E c \in Ctxs, b \in BOOLEAN : ctxs' = [ctxs EXCEPT ![c] = [ctxs[c] EXCEPT !.continued = b]]
    <3>1. CASE MonitorWaits
      BY <3>1, WaitFacts
    <3>2. CASE MonitorReads \/ MonitorAcknowledges
      BY <3>2, ReadsFacts, AcknowledgeFacts
    <3> QED BY <1>1, <3>1, <3>2
  <2> QED BY <2>1, <2>2, <2>3
<1> QED BY <1>1, <1>2, <1>3, ViewsKept

(* The event of a process reaches the client that is attached to it.        *)
LEMMA ReportViews ==
  ASSUME Base, Views, NEW c \in Ctxs, NEW p \in Pids, ctxs[c].debug = p, ctxs[c].state = "ATTACHED",
         srv' = srv, NEW y, ctxs' = [ctxs EXCEPT ![c] = y],
         proc' = [proc EXCEPT ![p].event = "none"],
         SameSession(ctxs[c], y) \/ Ended(ctxs[c], y),
         \/ proc[p].event \in {"none", "auto"} /\ line' = line /\ y = ctxs[c]
         \/ proc[p].event = "stop" /\ Tell(c, "stopped") /\ SameSession(ctxs[c], y)
         \/ proc[p].event = "exit" /\ Tell(c, "exited")
  PROVE  Views'
<1>1. /\ proc' \in [Pids -> Process] /\ proc'[p].event = "none"
      /\ \A q \in Pids : proc'[q].st = proc[q].st /\ (q # p => proc'[q] = proc[q])
  BY EventTaken DEF Base, Typed
<1>2. ctxs'[c] = y /\ \A d \in Ctxs : d # c => ctxs'[d] = ctxs[d]
  BY DEF Base, Typed, CtxTypes
<1>3. /\ line'[c].st = line[c].st /\ line'[c].pkt = line[c].pkt
      /\ \A d \in Ctxs : d # c => line'[d] = line[d]
      /\ proc[p].event \in {"none", "auto"} => line'[c].view = line[c].view
      /\ proc[p].event = "stop" /\ line[c].st = "open" => line'[c].view = "stopped"
      /\ proc[p].event = "exit" /\ line[c].st = "open" => line'[c].view = "exited"
  <2>1. CASE Tell(c, "stopped")
    BY <2>1, TellFacts DEF Base, Typed, Tell
  <2>2. CASE Tell(c, "exited")
    BY <2>2, TellFacts DEF Base, Typed
  <2>3. CASE proc[p].event \in {"none", "auto"} /\ line' = line /\ y = ctxs[c]
    BY <2>3
  <2> QED BY <2>1, <2>2, <2>3
<1>4. ProcOK(p) /\ HeldOK(c) /\ LineOK(c) /\ ViewOK(c)
  BY DEF Views, SessionOK
<1>5. \A s : proc'[p].st = s => proc'[p] = NoEvent(s)
  BY <1>1 DEF Process, NoEvent
<1>6. HeldOK(c)' /\ LineOK(c)'
  BY <1>2, <1>3, <1>4 DEF HeldOK, LineOK, Fresh, SameSession, Ended
<1>7. ViewOK(c)'
  <2> SUFFICES ASSUME line[c].st = "open" PROVE ViewOK(c)'
    BY <1>3 DEF ViewOK
  <2>1. \A s : proc[p] = NoEvent(s) => proc[p].event = "none" /\ proc[p].st = s
    BY DEF NoEvent
  <2>2. y.state = "ATTACHED" => y.debug = p
    BY DEF SameSession, Ended
  <2>3. CASE proc[p].event \in {"none", "auto"}
    <3>1. \A s : proc[p] = NoEvent(s) => proc'[p] = NoEvent(s)
      BY <1>1, <1>5, <2>1
    <3> QED BY <1>2, <1>3, <1>4, <2>2, <2>3, <3>1 DEF ViewOK
  <2>4. CASE proc[p].event = "stop"
    <3>1. proc'[p] = NoEvent("stopped")
      BY <1>1, <1>4, <1>5, <2>4 DEF ProcOK
    <3>2. line[c].pkt.cmd \notin {"c", "vAttach"}
      BY <1>4, <2>1, <2>4 DEF ViewOK
    <3>3. line'[c].view = "stopped"
      BY <1>3, <2>4
    <3> QED BY <1>2, <1>3, <2>2, <3>1, <3>2, <3>3 DEF ViewOK
  <2>5. CASE proc[p].event = "exit"
    <3>1. proc'[p] = NoEvent("dead")
      BY <1>1, <1>4, <1>5, <2>5 DEF ProcOK
    <3>2. line[c].pkt.cmd # "c"
      BY <1>4, <2>1, <2>5 DEF ViewOK
    <3>3. line'[c].view = "exited"
      BY <1>3, <2>5
    <3> QED BY <1>2, <1>3, <2>2, <3>1, <3>2, <3>3 DEF ViewOK
  <2> QED BY <2>3, <2>4, <2>5
<1>8. \A q \in Pids : ProcOK(q)'
  <2>1. ProcOK(p)'
    <3>1. CASE proc[p].event = "exit"
      BY <1>1, <1>4, <3>1 DEF ProcOK
    <3>2. CASE SameSession(ctxs[c], y)
      <4>1. Debugged(p)'
        BY <1>2, <3>2 DEF Debugged, SameSession
      <4> QED BY <1>1, <4>1 DEF ProcOK
    <3> QED BY <3>1, <3>2 DEF SameSession
  <2>2. \A q \in Pids : q # p => ProcOK(q)'
    BY <1>1, <1>2, OthersDebugged, ProcKept DEF Views
  <2> QED BY <2>1, <2>2
<1>9. \A d \in Ctxs : d # c => SessionOK(d)'
  BY <1>1, <1>2, <1>3, StaysSame, OthersKept
<1> QED BY <1>6, <1>7, <1>8, <1>9 DEF Views, SessionOK

LEMMA EventViews ==
  ASSUME Base, Views, MonitorHandles
  PROVE  Views'
<1>1. mon.c \in Ctxs /\ srv' = srv
  BY EventFacts DEF MonitorSteps
<1>2. PICK c, x : c = mon.c /\ x = ctxs[c]
  OBVIOUS
<1>3. PICK y \in Context : ctxs' = [ctxs EXCEPT ![c] = y] /\ Outcome(c, x, y)
  BY <1>2, EventFacts
<1>4. CASE UNCHANGED <<proc, line>> /\ SameSession(x, y)
  <2>1. \A d \in Ctxs : ctxs'[d].state = ctxs[d].state /\ ctxs'[d].debug = ctxs[d].debug
    BY <1>1, <1>2, <1>3, <1>4 DEF SameSession, Base, Typed, CtxTypes
  <2> QED BY <1>1, <1>4, <2>1, StaysSame, ViewsKept
<1>5. CASE /\ x.debug \in Pids /\ x.state \in {"CONNECTED", "ATTACHED"}
           /\ proc' = [proc EXCEPT ![x.debug].event = "none"]
           /\ \/ proc[x.debug].event \in {"none", "auto"} /\ line' = line /\ y = x
              \/ proc[x.debug].event = "stop" /\ Tell(c, "stopped") /\ SameSession(x, y)
              \/ proc[x.debug].event = "exit" /\ Tell(c, "exited") /\ (SameSession(x, y) \/ Ended(x, y))
  <2>1. PICK p \in Pids : p = x.debug
    BY <1>5
  <2>2. ctxs[c].state = "ATTACHED"
    BY <1>1, <1>2, <1>5, GdbAssumption DEF Views, SessionOK, HeldOK
  <2>3. SameSession(ctxs[c], y) \/ Ended(ctxs[c], y)
    BY <1>2, <1>5 DEF SameSession
  <2> QED BY <1>1, <1>2, <1>3, <1>5, <2>1, <2>2, <2>3, ReportViews
<1> QED BY <1>3, <1>4, <1>5 DEF Outcome

LEMMA InitViews == ASSUME Init PROVE Views
<1>1. \A c \in Ctxs : ctxs[c] = Blank /\ line[c] = NoLine
  BY DEF Init
<1>2. \A c \in Ctxs : SessionOK(c)
  <2>1. \A c \in Ctxs : HeldOK(c) /\ LineOK(c) /\ ViewOK(c)
    BY <1>1 DEF HeldOK, LineOK, ViewOK, Blank, NoLine
  <2> QED BY <2>1 DEF SessionOK
<1>3. \A p \in Pids : ProcOK(p)
  BY DEF Init, ProcOK
<1> QED BY <1>2, <1>3 DEF Views

LEMMA NextViews == ASSUME Base, Views, [Next]_vars PROVE Views'
<1>1. CASE Server
  BY <1>1, PollViews, AcceptsViews, AcceptClientViews, ClosesViews, ClosedViews, PacketViews,
     DetachesViews, AbortsViews, LeavesViews DEF Server
<1>2. CASE Monitor
  BY <1>2, RoundViews, EventViews, LeavesViews DEF Monitor
<1>3. CASE Processes
  BY <1>3, DebuggeeViews, RestartedViews DEF Processes
<1>4. CASE UNCHANGED vars
  BY <1>4, StaysSame, SameViews DEF vars, connections
<1> QED BY <1>1, <1>2, <1>3, <1>4, MenuViews, ClientsViews DEF Next

(* A stopped process has a debugger, a process whose client believes it     *)
(* stopped is, and when both threads have ended nothing is held any more,   *)
(* however packets, debug events, attachments, hang-ups and the end of the  *)
(* debugger interleave, with polite clients or not.                         *)
THEOREM DebuggeesStaySound == Spec => []DebuggeesSound
<1>1. Init => Base /\ Views
  BY InitBase, InitViews
<1>2. Base /\ Views /\ [Next]_vars => (Base /\ Views)'
  BY NextBase, NextViews
<1>3. Base /\ Views => DebuggeesSound
  BY DEF Base, EndOK, Views, ProcOK, SessionOK, ViewOK, NoEvent, DebuggeesSound
<1> QED BY <1>1, <1>2, <1>3, PTL DEF Spec

---------------------------------------------------------------------------
(* With polite clients, until the debugger is disabled: what the monitor    *)
(* waits for, and what the server waits for                                 *)

(* The monitor has let go of a context: it waits for a process to be        *)
(* attached to, at most, and is not about to be.                            *)
Calm(c) == /\ ctxs[c].eventToWaitFor = "attached" /\ ~ctxs[c].attached
           /\ ~(mon.pc = "event" /\ mon.c = c)
           /\ mon.pc \in {"call", "asleep"} => mon.handles[c] = "attached"
(* It will have when it has answered.                                       *)
Loose(c) == /\ ctxs[c].state = "DETACHING" /\ ~ev.received
            /\ ctxs[c].eventToWaitFor = "attached" /\ ~ctxs[c].attached
CalmOK(c) ==
  /\ ctxs[c].debug = None => Calm(c)
  /\ ctxs[c].state = "ATTACHED" /\ line[c].view \in {"none", "exited"} => Calm(c)
  /\ line[c].st = "hup" => line[c].view \in {"none", "exited"}
  /\ mon.pc = "call" => Valid(c)

Asking == {"closing", "waiting", "detaching"}
(* The context the server is at                                             *)
GoingOK(c) == srv.c = c =>
  /\ srv.pc \in Asking   => Calm(c) \/ Loose(c)
  /\ srv.pc = "closed"   => Calm(c)
  /\ srv.pc = "close"    => Calm(c) \/ ctxs[c].state = "DETACHING"
  /\ srv.pc = "accepted" => line[c].st = "open"
(* Whether the monitor owes the server an answer                            *)
AckOK ==
  /\ srv.pc \in Asking /\ ~ev.received => (ev.updated <=> mon.pc # "ack")
  /\ srv.pc \in Asking /\ ev.received  => ~ev.updated /\ mon.pc # "ack"
  /\ srv.pc \notin Asking => ~ev.updated /\ mon.pc # "ack"
(* What the server heard when it polled is still so when it gets there.     *)
HeardOK ==
  /\ srv.pc # "poll" => \A k \in DOMAIN poll :
       /\ poll[k].revents = "hup" => poll[k].ctx \in Ctxs /\ line[poll[k].ctx].st = "hup"
       /\ poll[k].revents = "in" /\ poll[k].ctx \in Ctxs /\ (k > srv.i \/ (k = srv.i /\ srv.pc = "visit"))
            => line[poll[k].ctx].pkt.cmd # "none"
  /\ srv.pc = "data" => line[srv.c].pkt.cmd # "none" /\ srv.i \in DOMAIN poll /\ poll[srv.i].ctx = srv.c
OnOK == mon.pc \notin {"leave", "gone"} /\ srv.pc # "abort" /\ shouldClose = {}
Going == OnOK /\ AckOK /\ HeardOK /\ (\A c \in Ctxs : CalmOK(c) /\ GoingOK(c))
MonOK == ~ev.terminate => Going

(* What disturbs no calm context                                            *)
Alike(x, y) == /\ y.debug = x.debug /\ y.state = x.state
               /\ y.eventToWaitFor = x.eventToWaitFor /\ y.attached = x.attached
Undisturbed(c) ==
  \/ mon' = mon
  \/ mon.pc = "asleep" /\ (mon'.pc = "ack" \/ (mon'.pc = "event" /\ (mon'.c = c => ~Calm(c))))

LEMMA CalmKept ==
  ASSUME NEW c \in Ctxs, Calm(c), ctxs'[c].eventToWaitFor = "attached", ~ctxs'[c].attached, Undisturbed(c)
  PROVE  Calm(c)'
BY DEF Calm, Undisturbed

LEMMA CalmOKKept ==
  ASSUME NEW c \in Ctxs, CalmOK(c), Alike(ctxs[c], ctxs'[c]), line'[c].st = line[c].st,
         line'[c].view = line[c].view, Calm(c) => Calm(c)', mon'.pc = "call" => Valid(c)'
  PROVE  CalmOK(c)'
BY DEF CalmOK, Alike

LEMMA GoingKept ==
  ASSUME NEW c \in Ctxs, GoingOK(c), Alike(ctxs[c], ctxs'[c]), line'[c].st = line[c].st,
         Calm(c) => Calm(c)', srv' = srv, ev'.received = ev.received
  PROVE  GoingOK(c)'
<1>1. Loose(c) => Loose(c)'
  BY DEF Loose, Alike
<1> QED BY <1>1 DEF GoingOK, Alike

LEMMA UndisturbedKept ==
  ASSUME NEW c \in Ctxs, CalmOK(c), Alike(ctxs[c], ctxs'[c]), line'[c].st = line[c].st,
         line'[c].view = line[c].view, Undisturbed(c)
  PROVE  CalmOK(c)' /\ (Calm(c) => Calm(c)')
<1>1. Calm(c) => Calm(c)'
  BY CalmKept DEF Alike, Calm
<1>2. mon'.pc = "call" => Valid(c)'
  BY DEF CalmOK, Alike, Valid, Undisturbed
<1> QED BY <1>1, <1>2, CalmOKKept

LEMMA NotGoing ==
  ASSUME NEW c \in Ctxs, srv'.c # c \/ srv'.pc \notin LettingGo \cup {"accepted"}
  PROVE  GoingOK(c)'
BY DEF GoingOK, LettingGo, Asking

LEMMA HeardKept ==
  ASSUME Base, HeardOK, srv' = srv, poll' = poll,
         \A c \in Ctxs : line'[c].st = line[c].st /\ line'[c].pkt = line[c].pkt
  PROVE  HeardOK'
BY DEF HeardOK, Base, RestOK, Serving

(* The server goes on, in the slot it is at or to the next one.             *)
LEMMA HeardOn ==
  ASSUME HeardOK, srv.pc \notin {"poll", "visit"}, srv.i \in Nat, DOMAIN poll' \subseteq Nat,
         \A k \in DOMAIN poll' :
           \/ poll'[k].revents = "none"
           \/ /\ k \in DOMAIN poll /\ poll'[k].revents = poll[k].revents /\ poll'[k].ctx = poll[k].ctx
              /\ poll[k].ctx \in Ctxs => /\ line'[poll[k].ctx].st = line[poll[k].ctx].st
                                         /\ k > srv.i => line'[poll[k].ctx].pkt = line[poll[k].ctx].pkt,
         srv'.pc # "data", srv'.i = srv.i + 1 \/ (srv'.i = srv.i /\ srv'.pc # "visit")
  PROVE  HeardOK'
<1> SUFFICES ASSUME NEW k \in DOMAIN poll'
             PROVE  /\ poll'[k].revents = "hup" => poll'[k].ctx \in Ctxs /\ line'[poll'[k].ctx].st = "hup"
                    /\ poll'[k].revents = "in" /\ poll'[k].ctx \in Ctxs
                       /\ (k > srv'.i \/ (k = srv'.i /\ srv'.pc = "visit"))
                         => line'[poll'[k].ctx].pkt.cmd # "none"
  BY DEF HeardOK
<1>1. k > srv'.i \/ (k = srv'.i /\ srv'.pc = "visit") => k > srv.i
  OBVIOUS
<1> QED BY <1>1 DEF HeardOK

(* Steps that leave the server where it is and signal nothing               *)
LEMMA AroundMon ==
  ASSUME Base, Going, UNCHANGED <<srv, shouldClose, ev>>, HeardOK',
         \A c \in Ctxs : /\ Alike(ctxs[c], ctxs'[c]) /\ Undisturbed(c)
                         /\ line'[c].st = line[c].st /\ line'[c].view = line[c].view,
         mon' = mon \/ (mon.pc = "asleep" /\ mon'.pc = "event")
  PROVE  Going'
<1>1. \A c \in Ctxs : CalmOK(c)' /\ GoingOK(c)'
  BY UndisturbedKept, GoingKept DEF Going
<1>2. OnOK'
  BY DEF Going, OnOK
<1>3. AckOK'
  <2>1. mon'.pc = "ack" <=> mon.pc = "ack"
    OBVIOUS
  <2> QED BY <2>1 DEF Going, AckOK
<1> QED BY <1>1, <1>2, <1>3 DEF Going

LEMMA WakesOne ==
  ASSUME Base, NEW c \in Ctxs, mon.pc = "asleep", mon.handles[c] # "attached", Wakes(c)
  PROVE  /\ \A d \in Ctxs : Undisturbed(d)
         /\ mon'.pc = "event"
<1>1. mon'.pc = "event" /\ mon'.c = c
  BY WakesFacts
<1>2. ~Calm(c)
  BY DEF Calm
<1> QED BY <1>1, <1>2 DEF Undisturbed

LEMMA ClientsMon ==
  ASSUME Base, Going, Polite = TRUE, Clients
  PROVE  Going'
<1>1. UNCHANGED <<ctxs, shouldClose, ev, mon, poll, srv>> /\ srv.pc = "poll"
  BY DEF Clients, Connect, Send, HangUp, ClientSteps, tables
<1>2. OnOK' /\ AckOK' /\ HeardOK' /\ \A c \in Ctxs : GoingOK(c)'
  BY <1>1, NotGoing DEF Going, OnOK, AckOK, HeardOK, LettingGo
<1>3. \A c \in Ctxs : CalmOK(c)'
  <2>1. \A c \in Ctxs : (Calm(c) => Calm(c)') /\ (Valid(c) => Valid(c)')
    BY <1>1 DEF Calm, Valid
  <2>2. \A c \in Ctxs : line'[c] = line[c] => CalmOK(c)'
    BY <1>1, <2>1 DEF CalmOK, Going
  <2>3. CASE \E c \in Ctxs : Send(c)
    <3>1. PICK c \in Ctxs : Send(c)
      BY <2>3
    <3>2. line'[c].st = "open" /\ line'[c].view \in {"running", "breaking", line[c].view}
          /\ \A d \in Ctxs : d # c => line'[d] = line[d]
      BY <3>1, SendFacts
    <3>3. CalmOK(c)'
      BY <1>1, <2>1, <3>2 DEF CalmOK, Going
    <3> QED BY <2>2, <3>2, <3>3
  <2>4. CASE \E c \in Ctxs : HangUp(c)
    <3>1. PICK c \in Ctxs : HangUp(c)
      BY <2>4
    <3>2. line[c].view \in {"none", "exited"} /\ line'[c].view = line[c].view
          /\ \A d \in Ctxs : d # c => line'[d] = line[d]
      BY <3>1, HangUpFacts
    <3>3. CalmOK(c)'
      BY <1>1, <2>1, <3>2 DEF CalmOK, Going
    <3> QED BY <2>2, <3>2, <3>3
  <2>5. CASE \E p \in Ports : Connect(p)
    BY <2>2, <2>5 DEF Connect
  <2> QED BY <2>3, <2>4, <2>5 DEF Clients
<1> QED BY <1>2, <1>3 DEF Going

LEMMA ProcessesMon ==
  ASSUME Base, Going, Processes
  PROVE  Going'
<1>1. UNCHANGED <<ctxs, line, shouldClose, ev, srv, poll>>
  BY DEF Processes, Debuggee, Restarted, connections, tables
<1>2. HeardOK'
  BY <1>1, HeardKept DEF Going
<1>3. (\A c \in Ctxs : Undisturbed(c)) /\ (mon' = mon \/ (mon.pc = "asleep" /\ mon'.pc = "event"))
  <2>1. CASE mon' = mon
    BY <2>1 DEF Undisturbed
  <2>2. CASE \E p \in Pids : Debuggee(p)
    <3>1. PICK p \in Pids : Debuggee(p)
      BY <2>2
    <3>2. PICK c \in Ctxs : IF Asleep(c, p) THEN Wakes(c) ELSE mon' = mon
      BY <3>1, DebuggeeFacts
    <3>3. CASE Asleep(c, p)
      <4>1. mon.pc = "asleep" /\ mon.handles[c] # "attached"
        BY <3>3, GdbAssumption DEF Asleep
      <4> QED BY <3>2, <3>3, <4>1, WakesOne
    <3> QED BY <2>1, <3>2, <3>3
  <2> QED BY <2>1, <2>2 DEF Processes, Restarted
<1> QED BY <1>1, <1>2, <1>3, AroundMon DEF Alike

LEMMA MenuMon ==
  ASSUME Base, Going, ~ev.terminate, Menu
  PROVE  Going' \/ ev'.terminate
<1>1. CASE Disable
  BY <1>1, TerminateFacts DEF Disable, Base, RestOK
<1>2. CASE DisableKills \/ DisableJoins
  BY <1>2 DEF DisableKills, DisableJoins, Base, EndOK
<1>3. CASE \E p \in Pids : SelectProcess(p) \/ DeselectProcess(p)
  <2>1. PICK p \in Pids : SelectProcess(p) \/ DeselectProcess(p)
    BY <1>3
  <2>2. UNCHANGED <<line, shouldClose, ev, mon, srv, poll>> /\ ctxs \in [Ctxs -> Context]
    BY <2>1, SelectFacts, DeselectFacts DEF Base, Typed, CtxTypes
  <2>3. PICK c \in Ctxs : \/ \E q \in Ports : ctxs' = [ctxs EXCEPT ![c] = SetAside(ctxs[c], p, q)]
                          \/ ctxs' = [ctxs EXCEPT ![c] = GivenUp(ctxs[c])]
    <3>1. CASE SelectProcess(p)
      BY <3>1, SelectFacts
    <3>2. CASE DeselectProcess(p)
      BY <3>2, DeselectFacts
    <3> QED BY <2>1, <3>1, <3>2
  <2>4. PICK y : ctxs' = [ctxs EXCEPT ![c] = y] /\ Alike(ctxs[c], y)
    <3>1. ctxs[c] \in Context
      BY <2>2
    <3>2. Alike(ctxs[c], GivenUp(ctxs[c]))
      BY <3>1, GivenUpFacts DEF Alike
    <3>3. \A q \in Ports : Alike(ctxs[c], SetAside(ctxs[c], p, q))
      BY <3>1, SetAsideFacts DEF Alike
    <3> QED BY <2>3, <3>2, <3>3
  <2>5. \A d \in Ctxs : Alike(ctxs[d], ctxs'[d])
    BY <2>2, <2>4 DEF Alike
  <2>6. HeardOK'
    BY <2>2, HeardKept DEF Going
  <2> QED BY <2>2, <2>5, <2>6, AroundMon DEF Undisturbed
<1> QED BY <1>1, <1>2, <1>3 DEF Menu

(* The monitor, which goes on as long as the server does                    *)
LEMMA ReadsMon ==
  ASSUME Base, Going, MonitorReads
  PROVE  Going'
<1>1. /\ UNCHANGED <<ctxs, line, ev, srv, poll, shouldClose>> /\ mon.pc = "top" /\ mon'.pc = "call"
      /\ \A c \in Ctxs : mon'.handles[c] = Handle(c)
  BY ReadsFacts DEF MonitorSteps, tables
<1>2. \A c \in Ctxs : Calm(c) => Calm(c)'
  BY <1>1 DEF Calm, Handle
<1>3. \A c \in Ctxs : Valid(c)'
  <2> SUFFICES ASSUME NEW c \in Ctxs PROVE Valid(c)'
    OBVIOUS
  <2>1. ctxs[c].eventToWaitFor \in {"attached", "continued", "debug"}
    BY DEF Base, Typed, CtxTypes, Context
  <2>2. ctxs[c].eventToWaitFor = "debug" => ctxs[c].debug # None
    BY DEF Going, CalmOK, Calm
  <2> QED BY <1>1, <2>1, <2>2 DEF Valid, Handle
<1>4. \A c \in Ctxs : CalmOK(c)' /\ GoingOK(c)'
  BY <1>1, <1>2, <1>3, CalmOKKept, GoingKept DEF Going, Alike
<1>5. OnOK' /\ AckOK'
  BY <1>1 DEF Going, OnOK, AckOK
<1>6. HeardOK'
  BY <1>1, HeardKept DEF Going
<1> QED BY <1>4, <1>5, <1>6 DEF Going

LEMMA WaitsMon ==
  ASSUME Base, Going, ~ev.terminate, MonitorWaits
  PROVE  Going'
<1>1. /\ UNCHANGED <<line, srv, poll, shouldClose>> /\ mon.pc = "call"
  BY WaitFacts DEF MonitorSteps, tables
<1>2. \A c \in Ctxs : Valid(c)
  BY <1>1 DEF Going, CalmOK
<1>3. HeardOK'
  BY <1>1, HeardKept DEF Going
<1>4. CASE ev.updated /\ mon'.pc = "ack" /\ ctxs' = ctxs /\ ev'.updated = FALSE /\ ev'.received = ev.received
  <2>1. \A c \in Ctxs : Calm(c) => Calm(c)'
    BY <1>4 DEF Calm
  <2>2. \A c \in Ctxs : CalmOK(c)' /\ GoingOK(c)'
    BY <1>1, <1>4, <2>1, CalmOKKept, GoingKept DEF Going, Alike
  <2>3. OnOK' /\ AckOK'
    BY <1>1, <1>4 DEF Going, OnOK, AckOK
  <2> QED BY <1>3, <2>2, <2>3 DEF Going
<1>5. CASE mon'.pc = "asleep" /\ mon'.handles = mon.handles /\ UNCHANGED <<ctxs, ev>>
  <2>1. \A c \in Ctxs : Calm(c) => Calm(c)'
    BY <1>1, <1>5 DEF Calm
  <2>2. \A c \in Ctxs : CalmOK(c)' /\ GoingOK(c)'
    BY <1>1, <1>5, <2>1, CalmOKKept, GoingKept DEF Going, Alike
  <2>3. OnOK' /\ AckOK'
    BY <1>1, <1>5 DEF Going, OnOK, AckOK
  <2> QED BY <1>3, <2>2, <2>3 DEF Going
<1>6. CASE /\ ev' = ev /\ mon'.pc = "event" /\ mon'.c \in Ctxs /\ Signalled(mon'.c)
           /\ \E b \in BOOLEAN : ctxs' = [ctxs EXCEPT ![mon'.c] = [ctxs[mon'.c] EXCEPT !.continued = b]]
  <2>1. PICK e \in Ctxs : e = mon'.c
    BY <1>6
  <2>2. PICK b \in BOOLEAN : ctxs' = [ctxs EXCEPT ![e] = [ctxs[e] EXCEPT !.continued = b]]
    BY <1>6, <2>1
  <2>3. PICK y : y = [ctxs[e] EXCEPT !.continued = b]
    OBVIOUS
  <2>4. ctxs \in [Ctxs -> Context] /\ ctxs[e] \in Context
    BY DEF Base, Typed, CtxTypes
  <2>5. Alike(ctxs[e], y)
    BY <2>3, <2>4 DEF Context, Alike
  <2>6. \A c \in Ctxs : Alike(ctxs[c], ctxs'[c])
    BY <2>2, <2>3, <2>4, <2>5 DEF Alike
  <2>7. ~Calm(e)
    <3>1. Signalled(e)
      BY <1>6, <2>1
    <3> QED BY <1>1, <3>1 DEF Calm, Signalled
  <2>8. \A c \in Ctxs : Calm(c) => Calm(c)'
    BY <1>6, <2>1, <2>6, <2>7 DEF Calm, Alike
  <2>9. \A c \in Ctxs : CalmOK(c)' /\ GoingOK(c)'
    BY <1>1, <1>6, <2>6, <2>8, CalmOKKept, GoingKept DEF Going
  <2>10. OnOK' /\ AckOK'
    BY <1>1, <1>6 DEF Going, OnOK, AckOK
  <2> QED BY <1>3, <2>9, <2>10 DEF Going
<1> QED BY <1>2, <1>4, <1>5, <1>6, WaitFacts

LEMMA AgainTop == ASSUME Base, ~ev.terminate PROVE Again = "top"
BY DEF Again, Running, Base, EndOK

LEMMA AcknowledgesMon ==
  ASSUME Base, Going, ~ev.terminate, MonitorAcknowledges
  PROVE  Going'
<1>1. /\ UNCHANGED <<ctxs, line, srv, poll, shouldClose>> /\ mon.pc = "ack" /\ mon'.pc = "top"
      /\ ev'.received = TRUE /\ ev'.updated = ev.updated
  BY AcknowledgeFacts, AgainTop DEF MonitorSteps, tables
<1>2. srv.pc \in Asking /\ ~ev.updated
  BY <1>1 DEF Going, AckOK
<1>3. \A c \in Ctxs : Calm(c) \/ Loose(c) => Calm(c)'
  BY <1>1 DEF Calm, Loose
<1>4. \A c \in Ctxs : GoingOK(c)'
  BY <1>1, <1>2, <1>3 DEF Going, GoingOK, Asking
<1>5. \A c \in Ctxs : CalmOK(c)'
  BY <1>1, <1>3, CalmOKKept DEF Going, Alike
<1>6. OnOK' /\ AckOK'
  BY <1>1, <1>2 DEF Going, OnOK, AckOK
<1>7. HeardOK'
  BY <1>1, HeardKept DEF Going
<1> QED BY <1>4, <1>5, <1>6, <1>7 DEF Going

LEMMA HandlesMon ==
  ASSUME Base, Going, ~ev.terminate, MonitorHandles
  PROVE  Going'
<1>1. UNCHANGED <<srv, poll, shouldClose, ev>> /\ mon.c \in Ctxs /\ mon.pc = "event" /\ mon'.pc = "top"
  BY EventFacts, AgainTop DEF MonitorSteps, tables
<1>2. PICK c, x : c = mon.c /\ x = ctxs[c]
  OBVIOUS
<1>3. PICK y \in Context : ctxs' = [ctxs EXCEPT ![c] = y] /\ Outcome(c, x, y)
  BY <1>2, EventFacts
<1>4. ctxs'[c] = y /\ \A d \in Ctxs : d # c => ctxs'[d] = ctxs[d]
  BY <1>1, <1>2, <1>3 DEF Base, Typed, CtxTypes
<1>5. /\ \A d \in Ctxs : line'[d].st = line[d].st /\ line'[d].pkt = line[d].pkt
      /\ \A d \in Ctxs : d # c => line'[d] = line[d]
      /\ line[c].st = "open" \/ line'[c].view = line[c].view
  <2>1. line' = line \/ Tell(c, "stopped") \/ Tell(c, "exited")
    BY <1>3 DEF Outcome
  <2>2. CASE Tell(c, "stopped")
    BY <1>1, <1>2, <2>2, TellFacts DEF Base, Typed
  <2>3. CASE Tell(c, "exited")
    BY <1>1, <1>2, <2>3, TellFacts DEF Base, Typed
  <2> QED BY <2>1, <2>2, <2>3
<1>6. ~Calm(c) /\ (Reset(x, y) => Calm(c)')
  BY <1>1, <1>2, <1>4 DEF Calm, Reset
<1>7. \A d \in Ctxs : d # c => CalmOK(d)' /\ GoingOK(d)'
  <2> SUFFICES ASSUME NEW d \in Ctxs, d # c PROVE CalmOK(d)' /\ GoingOK(d)'
    OBVIOUS
  <2>1. Calm(d) => Calm(d)'
    BY <1>1, <1>4 DEF Calm
  <2> QED BY <1>1, <1>4, <1>5, <2>1, CalmOKKept, GoingKept DEF Going, Alike
<1>8. CalmOK(c)'
  <2>1. x.debug # None /\ (x.state = "ATTACHED" => line[c].view \notin {"none", "exited"})
        /\ (line[c].st = "hup" => line[c].view \in {"none", "exited"})
    BY <1>1, <1>2, <1>6 DEF Going, CalmOK
  <2>2. CASE Reset(x, y)
    BY <1>1, <1>2, <1>5, <1>6, <2>1, <2>2 DEF CalmOK
  <2>3. CASE SameSession(x, y) /\ line' = line
    BY <1>1, <1>4, <2>1, <2>3 DEF CalmOK, SameSession
  <2>4. CASE SameSession(x, y) /\ Tell(c, "stopped")
    <3>1. line[c].st = "open" => line'[c].view = "stopped"
      BY <1>1, <1>2, <2>4, TellFacts DEF Base, Typed
    <3> QED BY <1>1, <1>2, <1>4, <1>5, <2>1, <2>4, <3>1 DEF CalmOK, SameSession
  <2> QED BY <1>3, <2>2, <2>3, <2>4 DEF Outcome, SameSession
<1>9. GoingOK(c)'
  <2>1. x.state = "DETACHING" => Calm(c)'
    BY <1>3, <1>6 DEF Outcome
  <2>2. GoingOK(c)
    BY <1>1, <1>2 DEF Going
  <2>3. srv.c = c /\ srv.pc \in Asking \cup {"closed", "close"} => x.state = "DETACHING"
    BY <1>2, <1>6, <2>2 DEF GoingOK, Loose
  <2> QED BY <1>1, <1>2, <1>5, <2>1, <2>2, <2>3 DEF GoingOK
<1>10. OnOK' /\ AckOK'
  BY <1>1 DEF Going, OnOK, AckOK
<1>11. HeardOK'
  BY <1>1, <1>5, HeardKept DEF Going
<1> QED BY <1>7, <1>8, <1>9, <1>10, <1>11 DEF Going

(* The server, as it polls and waits *)
LEMMA CalmAround ==
  ASSUME Going, mon' = mon,
         \A c \in Ctxs : /\ Alike(ctxs[c], ctxs'[c])
                         /\ line'[c].st = line[c].st /\ line'[c].view = line[c].view
  PROVE  \A c \in Ctxs : CalmOK(c)' /\ (Calm(c) => Calm(c)')
BY UndisturbedKept DEF Going, Undisturbed

LEMMA AckOff ==
  ASSUME AckOK, srv.pc \notin Asking, srv'.pc \notin Asking, ev'.updated = ev.updated,
         mon'.pc = "ack" => mon.pc = "ack"
  PROVE  AckOK'
BY DEF AckOK

LEMMA SlotPlaces ==
  ASSUME Base, NEW k \in DOMAIN poll
  PROVE  /\ poll[k] \in Slot /\ k \in Nat
         /\ poll[k].ctx \in Ctxs \/ poll[k].ctx < 0 \/ poll[k].ctx = Nothing
<1>1. poll \in Seq(Slot)
  BY DEF Base, Typed
<1>2. poll[k] \in Slot /\ k \in Nat
  BY <1>1
<1>3. poll[k].ctx \in (-NPorts) .. MAX_DEBUG
  BY <1>2 DEF Slot
<1>4. poll[k].ctx \in Ctxs \/ poll[k].ctx < 0 \/ poll[k].ctx = Nothing
  BY <1>3, GdbAssumption DEF Ctxs, Nothing
<1> QED BY <1>2, <1>4

LEMMA PollsMon ==
  ASSUME Base, Going, ~ev.terminate, ServerPolls
  PROVE  Going'
<1>1. UNCHANGED <<ctxs, shouldClose, line, ev, mon>> /\ srv.pc = "poll"
  BY DEF ServerPolls, At, connections
<1>2. /\ DOMAIN poll' = DOMAIN poll /\ srv'.pc = "visit" /\ srv'.i = 1
      /\ \A k \in DOMAIN poll : poll'[k].fd = poll[k].fd /\ poll'[k].ctx = poll[k].ctx
                                /\ poll'[k].revents = Revents(poll[k])
  BY PollsBase
<1>3. \A c \in Ctxs : CalmOK(c)' /\ GoingOK(c)'
  BY <1>1, <1>2, CalmAround, NotGoing DEF Alike, LettingGo
<1>4. OnOK' /\ AckOK'
  BY <1>1, <1>2, AckOff DEF Going, OnOK, Asking
<1>5. HeardOK'
  <2> SUFFICES ASSUME NEW k \in DOMAIN poll
               PROVE  /\ Revents(poll[k]) = "hup" => poll[k].ctx \in Ctxs /\ line[poll[k].ctx].st = "hup"
                      /\ Revents(poll[k]) = "in" /\ poll[k].ctx \in Ctxs
                           => line[poll[k].ctx].pkt.cmd # "none"
    BY <1>1, <1>2 DEF HeardOK
  <2>1. poll[k].fd = poll[k].ctx
    BY DEF Base, SlotsOK
  <2>2. poll[k].ctx \in Ctxs => ~(poll[k].ctx < 0)
    BY SlotNames
  <2>3. poll[k].ctx \in Ctxs \/ poll[k].ctx < 0 \/ poll[k].ctx = Nothing
    BY SlotPlaces
  <2> QED BY <2>1, <2>2, <2>3 DEF Revents
<1> QED BY <1>3, <1>4, <1>5 DEF Going

LEMMA VisitsMon ==
  ASSUME Base, Views, Going, ~ev.terminate, ServerVisits
  PROVE  Going'
<1>1. UNCHANGED <<ctxs, shouldClose, line, ev, mon, poll>> /\ srv.pc = "visit" /\ shouldClose = {}
  BY DEF ServerVisits, At, connections, tables, Going, OnOK
<1>2. \/ srv'.pc = "visit" /\ srv'.i = Len(poll) + 1
      \/ /\ srv'.i \in DOMAIN poll /\ srv'.i >= srv.i /\ srv'.c = poll[srv'.i].ctx /\ Waiting(srv'.i)
         /\ srv'.pc = IF srv'.c = Nothing THEN "fault"
                      ELSE IF poll[srv'.i].revents = "hup" \/ srv'.c \in shouldClose THEN "close"
                      ELSE IF srv'.c < 0 THEN "accept" ELSE "data"
  BY VisitsBase
<1>3. poll \in Seq(Slot) /\ DOMAIN poll = 1 .. Len(poll) /\ Len(poll) \in Nat /\ srv.i \in Nat
  BY DEF Base, Typed, RestOK, ServerState
<1>4. \A c \in Ctxs : CalmOK(c)' /\ (Calm(c) => Calm(c)')
  BY <1>1, CalmAround DEF Alike
<1>5. srv'.pc \in {"visit", "fault", "close", "accept", "data"}
  BY <1>2
<1>6. OnOK' /\ AckOK'
  BY <1>1, <1>5, AckOff DEF Going, OnOK, Asking
<1>7. \A c \in Ctxs : GoingOK(c)'
  <2> SUFFICES ASSUME NEW c \in Ctxs, srv'.pc = "close", srv'.c = c PROVE Calm(c)'
    BY <1>5 DEF GoingOK, Asking
  <2>1. srv'.i \in DOMAIN poll /\ poll[srv'.i].ctx = c /\ poll[srv'.i].revents = "hup"
    BY <1>1, <1>2
  <2>2. line[c].st = "hup"
    BY <1>1, <2>1 DEF Going, HeardOK
  <2>3. ctxs[c].debug # None => ctxs[c].state = "ATTACHED"
    BY <1>1 DEF Views, SessionOK, HeldOK, Clearing, LettingGo
  <2>4. CalmOK(c)
    BY DEF Going
  <2> QED BY <1>4, <2>2, <2>3, <2>4 DEF CalmOK
<1>8. HeardOK'
  <2>1. \A k \in DOMAIN poll : k > srv'.i \/ (k = srv'.i /\ srv'.pc = "visit") => k > srv.i \/ k = srv.i
    <3>1. CASE srv'.i = Len(poll) + 1
      BY <1>3, <3>1
    <3>2. CASE srv'.i \in DOMAIN poll /\ srv'.i >= srv.i
      BY <1>3, <3>2
    <3> QED BY <1>2, <3>1, <3>2
  <2>2. srv'.pc = "data" => line[srv'.c].pkt.cmd # "none" /\ srv'.i \in DOMAIN poll /\ poll[srv'.i].ctx = srv'.c
    <3> SUFFICES ASSUME srv'.pc = "data" PROVE line[srv'.c].pkt.cmd # "none"
      BY <1>2
    <3>1. PICK k \in DOMAIN poll : k = srv'.i /\ k >= srv.i
      BY <1>2
    <3>2. /\ poll[k].ctx # Nothing /\ poll[k].revents # "hup" /\ ~(poll[k].ctx < 0)
          /\ poll[k].ctx = srv'.c /\ Waiting(k)
      BY <1>2, <3>1
    <3>3. poll[k] \in Slot /\ poll[k].ctx \in Ctxs
      BY <3>2, SlotPlaces
    <3>4. poll[k].revents = "in"
      BY <1>1, <3>2, <3>3 DEF Waiting, Slot
    <3>5. k > srv.i \/ k = srv.i
      BY <1>3, <3>1
    <3> QED BY <1>1, <3>2, <3>3, <3>4, <3>5 DEF Going, HeardOK
  <2> QED BY <1>1, <2>1, <2>2 DEF Going, HeardOK
<1> QED BY <1>4, <1>6, <1>7, <1>8 DEF Going

LEMMA AnswersMon ==
  ASSUME Base, Going, ServerAsks \/ ServerIsAnswered
  PROVE  Going'
<1>1. UNCHANGED <<ctxs, shouldClose, line, ev, mon, poll>>
  BY DEF ServerAsks, ServerIsAnswered, At, connections, tables
<1>2. \/ srv.pc = "closing" /\ To("waiting")
      \/ srv.pc = "waiting" /\ ev.received /\ To("closed")
  BY DEF ServerAsks, ServerIsAnswered, At, MonitorCounts, Going, OnOK
<1>3. \/ srv.pc = "closing" /\ srv'.pc = "waiting" /\ srv'.c = srv.c /\ srv'.i = srv.i
      \/ srv.pc = "waiting" /\ ev.received /\ srv'.pc = "closed" /\ srv'.c = srv.c /\ srv'.i = srv.i
  BY <1>2, ToFacts DEF Base, RestOK, SrvPlaces
<1>4. \A c \in Ctxs : CalmOK(c)' /\ (Calm(c) => Calm(c)')
  BY <1>1, CalmAround DEF Alike
<1>5. \A c \in Ctxs : GoingOK(c)'
  <2>1. \A c \in Ctxs : Loose(c) <=> Loose(c)'
    BY <1>1 DEF Loose
  <2>2. \A c \in Ctxs : ev.received => ~Loose(c)
    BY DEF Loose
  <2> QED BY <1>3, <1>4, <2>1, <2>2 DEF Going, GoingOK, Asking
<1>6. OnOK' /\ AckOK'
  BY <1>1, <1>3 DEF Going, OnOK, AckOK, Asking
<1>7. HeardOK'
  BY <1>1, <1>3 DEF Going, HeardOK
<1> QED BY <1>4, <1>5, <1>6, <1>7 DEF Going

LEMMA CompactsMon ==
  ASSUME Base, Going, ~ev.terminate, ServerCompacts
  PROVE  Going'
<1>1. UNCHANGED <<shouldClose, line, ev, mon>> /\ srv.pc = "visit" /\ srv' = Polling
  BY DEF ServerCompacts, At, connections
<1>2. \A c \in Ctxs : Alike(ctxs[c], ctxs'[c])
  <2>1. CASE compact_needed
    BY <2>1, Compacted DEF SameButIndex, Alike
  <2>2. CASE ~compact_needed
    BY <2>2, NotCompacted DEF Alike
  <2> QED BY <2>1, <2>2
<1>3. \A c \in Ctxs : CalmOK(c)'
  BY <1>1, <1>2, CalmAround
<1>4. srv'.pc = "poll"
  BY <1>1 DEF Polling
<1>5. \A c \in Ctxs : GoingOK(c)'
  BY <1>4, NotGoing DEF LettingGo
<1>6. OnOK' /\ AckOK' /\ HeardOK'
  BY <1>1, <1>4, AckOff DEF Going, OnOK, Asking, HeardOK
<1> QED BY <1>3, <1>5, <1>6 DEF Going

(* Connections: the contexts the server is not at are as they were.         *)
LEMMA OthersCalm ==
  ASSUME Going, NEW c \in Ctxs,
         \A d \in Ctxs : d # c => ctxs'[d] = ctxs[d] /\ line'[d].st = line[d].st /\ line'[d].view = line[d].view,
         \A d \in Ctxs : d # c => Undisturbed(d)
  PROVE  \A d \in Ctxs : d # c => CalmOK(d)'
BY UndisturbedKept DEF Going, Alike

LEMMA CalmIsValid ==
  ASSUME NEW c \in Ctxs, Calm(c)'
  PROVE  mon'.pc = "call" => Valid(c)'
BY DEF Calm, Valid

LEMMA AcceptsMon ==
  ASSUME Base, Going, ~ev.terminate, ServerAccepts
  PROVE  Going'
<1>1. UNCHANGED <<ev, mon>> /\ srv.pc = "accept"
  BY AcceptsCases
<1>2. srv.i \in Nat /\ poll \in Seq(Slot) /\ DOMAIN poll \subseteq Nat
  BY DEF Base, Typed, RestOK, ServerState
<1>3. CASE NextSlot /\ UNCHANGED <<ctxs, shouldClose, line, poll>>
  <2>1. srv'.pc = "visit" /\ srv'.i = srv.i + 1
    BY <1>3, NextSlotFacts DEF Base, RestOK
  <2>2. \A c \in Ctxs : CalmOK(c)' /\ GoingOK(c)'
    BY <1>1, <1>3, <2>1, CalmAround, NotGoing DEF Alike, LettingGo
  <2>3. OnOK' /\ AckOK'
    BY <1>1, <1>3, <2>1, AckOff DEF Going, OnOK, Asking
  <2>4. HeardOK'
    BY <1>1, <1>2, <1>3, <2>1, HeardOn DEF Going
  <2> QED BY <2>2, <2>3, <2>4 DEF Going
<1>4. CASE \E c \in Ctxs : Accepts(c, -srv.c, Len(poll) + 1)
  <2>1. PICK c \in Ctxs : Accepts(c, -srv.c, Len(poll) + 1)
    BY <1>4
  <2>2. PICK p, k : p = -srv.c /\ k = Len(poll) + 1 /\ Accepts(c, p, k)
    BY <2>1
  <2>3. proc' = proc
    BY AcceptsCases
  <2>4. /\ k \in 1 .. MAX_CTXS /\ k = Len(poll) + 1 /\ DOMAIN poll = 1 .. Len(poll) /\ Len(poll) \in Nat
        /\ ctxs'[c] = Connected(ctxs[c], p, k) /\ \A d \in Ctxs : d # c => ctxs'[d] = ctxs[d]
        /\ DOMAIN poll' = 1 .. k /\ poll'[k] = [fd |-> c, ctx |-> c, revents |-> "none"]
        /\ \A j \in DOMAIN poll : poll'[j] = poll[j]
    BY <2>2, <2>3, AcceptsFacts
  <2>5. /\ srv'.pc = "accepted" /\ srv'.c = c /\ srv'.i = srv.i
        /\ line'[c] = [NoLine EXCEPT !.st = "open"] /\ \A d \in Ctxs : d # c => line'[d] = line[d]
    BY <2>2, <2>3, AcceptsFacts
  <2>6. p \in Ports /\ c \in GetClient(p) /\ shouldClose' = shouldClose \ {c}
    BY <2>2 DEF Accepts
  <2>7. ctxs[c].debug = None /\ "USED" \notin ctxs[c].flags
    BY <2>6, ClientFacts
  <2>8. ctxs[c] \in Context /\ k \in 0 .. MAX_CTXS
    BY <2>4, GdbAssumption DEF Base, Typed, CtxTypes
  <2>9. /\ ctxs'[c].eventToWaitFor = ctxs[c].eventToWaitFor /\ ctxs'[c].attached = ctxs[c].attached
        /\ ctxs'[c].debug = None /\ ctxs'[c].state = "CONNECTED"
    BY <2>4, <2>6, <2>7, <2>8, ConnectedFacts
  <2>10. line'[c].st = "open"
    BY <2>5 DEF NoLine
  <2>11. CalmOK(c)'
    <3>1. Calm(c)
      BY <2>7 DEF Going, CalmOK
    <3>2. Calm(c)'
      BY <1>1, <2>9, <3>1 DEF Calm
    <3> QED BY <2>9, <2>10, <3>2, CalmIsValid DEF CalmOK
  <2>12. \A d \in Ctxs : d # c => CalmOK(d)'
    BY <1>1, <2>4, <2>5, OthersCalm DEF Undisturbed
  <2>13. \A d \in Ctxs : GoingOK(d)'
    BY <2>5, <2>10 DEF GoingOK, Asking
  <2>14. OnOK' /\ AckOK'
    BY <1>1, <2>5, <2>6, AckOff DEF Going, OnOK, Asking
  <2>15. HeardOK'
    <3>1. \A j \in DOMAIN poll : poll[j].ctx # c
      BY <2>7 DEF Base, SlotsOK
    <3>2. \A j \in DOMAIN poll' : j = k \/ j \in DOMAIN poll
      BY <2>4
    <3>3. DOMAIN poll' \subseteq Nat
      BY <2>4
    <3> QED BY <1>1, <1>2, <2>4, <2>5, <3>1, <3>2, <3>3, HeardOn DEF Going
  <2> QED BY <2>11, <2>12, <2>13, <2>14, <2>15 DEF Going
<1> QED BY <1>3, <1>4, AcceptsCases

LEMMA AcceptClientMon ==
  ASSUME Base, Going, ~ev.terminate, AcceptClient
  PROVE  Going'
<1>0. PICK c : c = srv.c
  OBVIOUS
<1>1. /\ UNCHANGED <<shouldClose, ev, poll>> /\ srv.pc = "accepted" /\ srv.c = c /\ c \in Ctxs
  BY <1>0, AcceptClientFacts
<1>2. srv.i \in Nat /\ DOMAIN poll \subseteq Nat
  BY DEF Base, Typed, RestOK, ServerState
<1>3. ctxs \in [Ctxs -> Context] /\ ctxs[c] \in Context /\ ctxs[c].debug = None /\ Calm(c) /\ line[c].st = "open"
  BY <1>1 DEF Base, Typed, CtxTypes, ContextsOK, ContextOK, PlaceOK, Going, CalmOK, GoingOK
<1>4. \/ NextSlot /\ srv'.pc = "visit" /\ srv'.i = srv.i + 1
      \/ CloseCtx(c) /\ srv'.pc = "close" /\ srv'.i = srv.i /\ srv'.c = c /\ UNCHANGED <<ctxs, mon, line>>
  <2>1. NextSlot \/ (CloseCtx(c) /\ UNCHANGED <<ctxs, mon, line>>)
    BY <1>0, AcceptClientFacts
  <2> QED BY <1>1, <2>1, NextSlotFacts, CloseCtxFacts DEF Base, RestOK
<1>5. CASE UNCHANGED <<ctxs, mon, line>>
  <2>1. \A d \in Ctxs : CalmOK(d)' /\ (Calm(d) => Calm(d)')
    BY <1>5, CalmAround DEF Alike
  <2>2. \A d \in Ctxs : GoingOK(d)'
    BY <1>3, <1>4, <2>1 DEF GoingOK, Asking
  <2>3. OnOK' /\ AckOK'
    BY <1>1, <1>4, <1>5, AckOff DEF Going, OnOK, Asking
  <2>4. HeardOK'
    BY <1>1, <1>2, <1>4, <1>5, HeardOn DEF Going
  <2> QED BY <2>1, <2>2, <2>3, <2>4 DEF Going
<1>6. CASE /\ ctxs[c].pid \in Pids /\ NextSlot
           /\ ctxs' = [ctxs EXCEPT ![c] = AttachToProcess(ctxs[c], ctxs[c].pid)]
           /\ Attaching(c, ctxs[c].pid) /\ Tell(c, "stopped")
  <2>1. PICK p \in Pids : p = ctxs[c].pid
    BY <1>6
  <2>2. PICK y : y = AttachToProcess(ctxs[c], p) /\ y.debug = p /\ y.state = "ATTACHED"
    BY <1>3, AttachFacts
  <2>3. ctxs'[c].debug = p /\ \A d \in Ctxs : d # c => ctxs'[d] = ctxs[d]
    BY <1>1, <1>3, <1>6, <2>1, <2>2
  <2>4. /\ line'[c].st = "open" /\ line'[c].view = "stopped" /\ line'[c].pkt = line[c].pkt
        /\ \A d \in Ctxs : d # c => line'[d] = line[d]
    BY <1>1, <1>3, <1>6, TellFacts DEF Base, Typed
  <2>5. mon' = mon \/ (mon.pc = "asleep" /\ mon'.pc = "event" /\ mon'.c = c)
    BY <1>1, <1>6, <2>1, AttachingFacts, WakesFacts
  <2>6. srv'.pc = "visit" /\ srv'.i = srv.i + 1
    BY <1>6, NextSlotFacts DEF Base, RestOK
  <2>7. CalmOK(c)'
    <3>1. mon'.pc = "call" => Valid(c)'
      BY <1>3, <2>5 DEF Calm, Valid
    <3> QED BY <2>1, <2>3, <2>4, <3>1, GdbAssumption DEF CalmOK
  <2>8. \A d \in Ctxs : d # c => CalmOK(d)'
    BY <1>1, <2>3, <2>4, <2>5, OthersCalm DEF Undisturbed
  <2>9. \A d \in Ctxs : GoingOK(d)'
    BY <2>6, NotGoing DEF LettingGo
  <2>10. OnOK' /\ AckOK'
    BY <1>1, <2>5, <2>6, AckOff DEF Going, OnOK, Asking
  <2>11. HeardOK'
    <3>1. \A d \in Ctxs : line'[d].st = line[d].st /\ line'[d].pkt = line[d].pkt
      BY <1>3, <2>4
    <3> QED BY <1>1, <1>2, <2>6, <3>1, HeardOn DEF Going
  <2> QED BY <2>7, <2>8, <2>9, <2>10, <2>11 DEF Going
<1> QED BY <1>0, <1>5, <1>6, AcceptClientFacts

LEMMA ClosesMon ==
  ASSUME Base, Going, ~ev.terminate, ServerCloses
  PROVE  Going'
<1>0. PICK c : c = srv.c
  OBVIOUS
<1>1. UNCHANGED <<shouldClose, line, poll>> /\ srv.pc = "close"
  BY ClosesFacts
<1>2. srv.i \in Nat /\ DOMAIN poll \subseteq Nat
  BY DEF Base, Typed, RestOK, ServerState
<1>3. CASE c < 0 /\ To("closed") /\ UNCHANGED <<ctxs, ev, mon>>
  <2>1. srv'.pc = "closed" /\ srv'.i = srv.i /\ srv'.c = srv.c
    BY <1>3, ToFacts DEF Base, RestOK, SrvPlaces
  <2>2. \A d \in Ctxs : srv'.c # d
    BY <1>0, <1>3, <2>1, SlotNames
  <2>3. \A d \in Ctxs : CalmOK(d)' /\ GoingOK(d)'
    BY <1>1, <1>3, <2>2, CalmAround, NotGoing DEF Alike
  <2>4. OnOK' /\ AckOK'
    BY <1>1, <1>3, <2>1, AckOff DEF Going, OnOK, Asking
  <2>5. HeardOK'
    BY <1>1, <1>2, <2>1, HeardOn DEF Going
  <2> QED BY <2>3, <2>4, <2>5 DEF Going
<1>4. CASE /\ c \in Ctxs /\ ctxs' = [ctxs EXCEPT ![c] = Resets(ctxs[c])]
           /\ SignalStatusUpdated(FALSE) /\ To("closing")
  <2>1. srv'.pc = "closing" /\ srv'.i = srv.i /\ srv'.c = c
    BY <1>0, <1>4, ToFacts DEF Base, RestOK, SrvPlaces
  <2>2. ctxs \in [Ctxs -> Context] /\ ctxs[c] \in Context
    BY <1>4 DEF Base, Typed, CtxTypes
  <2>3. PICK y : /\ y = Resets(ctxs[c]) /\ y.state = ctxs[c].state /\ y.debug = ctxs[c].debug
                 /\ y.eventToWaitFor = "attached" /\ y.attached = FALSE
    BY <2>2, ResetsFacts
  <2>4. ctxs'[c] = y /\ \A d \in Ctxs : d # c => ctxs'[d] = ctxs[d]
    BY <1>4, <2>2, <2>3
  <2>5. /\ ev'.received = FALSE
        /\ \/ mon.pc = "asleep" /\ mon'.pc = "ack" /\ ev'.updated = ev.updated
           \/ mon.pc # "asleep" /\ mon' = mon /\ ev'.updated = TRUE
    BY <1>4, UpdatedFacts DEF Base, RestOK
  <2>6. \A d \in Ctxs : Undisturbed(d)
    BY <2>5 DEF Undisturbed
  <2>7. Calm(c) => Calm(c)'
    BY <1>4, <2>3, <2>4, <2>6, CalmKept
  <2>8. CalmOK(c)'
    <3>1. mon'.pc = "call" => Valid(c)'
      BY <1>4, <2>3, <2>4, <2>5 DEF Going, CalmOK, Valid
    <3> QED BY <1>1, <1>4, <2>3, <2>4, <2>7, <3>1 DEF Going, CalmOK
  <2>9. \A d \in Ctxs : d # c => CalmOK(d)'
    BY <1>1, <1>4, <2>4, <2>6, OthersCalm
  <2>10. \A d \in Ctxs : GoingOK(d)'
    <3>1. Calm(c) \/ ctxs[c].state = "DETACHING"
      BY <1>0, <1>1, <1>4 DEF Going, GoingOK
    <3>2. Calm(c)' \/ Loose(c)'
      BY <2>3, <2>4, <2>5, <2>7, <3>1 DEF Loose
    <3> QED BY <2>1, <3>2 DEF GoingOK
  <2>11. OnOK'
    BY <1>1, <2>1, <2>5 DEF Going, OnOK
  <2>12. AckOK'
    BY <1>1, <2>1, <2>5 DEF Going, AckOK, Asking
  <2>13. HeardOK'
    BY <1>1, <1>2, <2>1, HeardOn DEF Going
  <2> QED BY <2>8, <2>9, <2>10, <2>11, <2>12, <2>13 DEF Going
<1> QED BY <1>0, <1>3, <1>4, ClosesFacts

LEMMA ClosedMon ==
  ASSUME Base, Going, ServerClosed
  PROVE  Going'
<1>0. PICK c : c = srv.c
  OBVIOUS
<1>1. /\ UNCHANGED <<ev, mon>> /\ srv.pc = "closed" /\ shouldClose' = shouldClose \ {c}
      /\ srv'.pc = "visit" /\ srv'.i = srv.i + 1
  BY <1>0, ClosedFactsOfServer
<1>2. srv.i \in Nat /\ poll \in Seq(Slot) /\ DOMAIN poll \subseteq Nat
  BY DEF Base, Typed, RestOK, ServerState
<1>3. OnOK' /\ AckOK' /\ \A d \in Ctxs : GoingOK(d)'
  BY <1>1, AckOff, NotGoing DEF Going, OnOK, Asking, LettingGo
<1>4. CASE c < 0 /\ UNCHANGED <<ctxs, line>> /\ srv.i \in DOMAIN poll /\ poll' = [poll EXCEPT ![srv.i] = Unused]
  <2>1. \A d \in Ctxs : CalmOK(d)'
    BY <1>1, <1>4, CalmAround DEF Alike
  <2>2. DOMAIN poll' = DOMAIN poll /\ \A k \in DOMAIN poll : poll'[k] = IF k = srv.i THEN Unused ELSE poll[k]
    BY <1>2, <1>4
  <2>3. HeardOK'
    BY <1>1, <1>2, <1>4, <2>2, HeardOn DEF Going, Unused
  <2> QED BY <1>3, <2>1, <2>3 DEF Going
<1>5. CASE /\ c \in Ctxs /\ ctxs' = [ctxs EXCEPT ![c] = Closed(ctxs[c])]
           /\ line' = [line EXCEPT ![c] = NoLine]
           /\ ctxs[c].i \in DOMAIN poll /\ poll' = [poll EXCEPT ![ctxs[c].i] = Unused]
  <2>1. ctxs \in [Ctxs -> Context] /\ line \in [Ctxs -> Connection] /\ ctxs[c] \in Context
    BY <1>5 DEF Base, Typed, CtxTypes
  <2>2. Calm(c)
    BY <1>0, <1>1, <1>5 DEF Going, GoingOK
  <2>3. /\ Closed(ctxs[c]).debug = None /\ Closed(ctxs[c]).state = "DISCONNECTED"
        /\ Closed(ctxs[c]).eventToWaitFor = "attached" /\ ~Closed(ctxs[c]).attached
    BY <2>1, <2>2, ClosedFacts DEF Calm
  <2>4. /\ ctxs'[c].state = "DISCONNECTED" /\ ctxs'[c].eventToWaitFor = "attached" /\ ~ctxs'[c].attached
        /\ \A d \in Ctxs : d # c => ctxs'[d] = ctxs[d] /\ line'[d] = line[d]
        /\ line'[c] = NoLine
    BY <1>5, <2>1, <2>3
  <2>5. CalmOK(c)'
    <3>1. Calm(c)'
      BY <1>1, <2>2, <2>4 DEF Calm
    <3> QED BY <1>5, <2>4, <3>1, CalmIsValid DEF CalmOK, NoLine
  <2>6. \A d \in Ctxs : d # c => CalmOK(d)'
    BY <1>1, <1>5, <2>4, OthersCalm DEF Undisturbed
  <2>7. /\ DOMAIN poll' = DOMAIN poll
        /\ \A k \in DOMAIN poll : poll'[k] = IF k = ctxs[c].i THEN Unused ELSE poll[k]
    BY <1>2, <1>5
  <2>8. \A k \in DOMAIN poll : k # ctxs[c].i => poll[k].ctx # c
    BY <1>5 DEF Base, SlotsOK
  <2>9. HeardOK'
    BY <1>1, <1>2, <2>4, <2>7, <2>8, HeardOn DEF Going, Unused
  <2> QED BY <1>3, <2>5, <2>6, <2>9 DEF Going
<1> QED BY <1>0, <1>4, <1>5, ClosedFactsOfServer

(* Packets *)
LEMMA HeardPacket ==
  ASSUME Base, Going, NEW c \in Ctxs, srv.c = c, srv.pc \in {"data", "detaching"}, poll' = poll,
         line' = line \/ (srv.pc = "data" /\ line'[c].st = line[c].st /\ \A d \in Ctxs : d # c => line'[d] = line[d]),
         srv'.pc # "data", srv'.i = srv.i + 1 \/ (srv'.i = srv.i /\ srv'.pc # "visit")
  PROVE  HeardOK'
<1>1. srv.i \in Nat /\ DOMAIN poll \subseteq Nat
  BY DEF Base, Typed, RestOK, ServerState
<1>2. srv.pc = "data" => \A k \in DOMAIN poll : k > srv.i => poll[k].ctx # c
  <2>1. srv.pc = "data" => srv.i \in DOMAIN poll /\ poll[srv.i].ctx = c
    BY DEF Going, HeardOK
  <2>2. \A k \in DOMAIN poll : poll[k].ctx = c => k = ctxs[c].i
    BY DEF Base, SlotsOK
  <2> QED BY <1>1, <2>1, <2>2
<1>3. \A k \in DOMAIN poll : poll[k].ctx \in Ctxs =>
        /\ line'[poll[k].ctx].st = line[poll[k].ctx].st
        /\ k > srv.i => line'[poll[k].ctx].pkt = line[poll[k].ctx].pkt
  BY <1>2
<1> QED BY <1>1, <1>3, HeardOn DEF Going

(* A packet is handled without the monitor.                                 *)
LEMMA HandledMon ==
  ASSUME Base, Going, NEW c \in Ctxs, srv.c = c, srv.pc \in {"data", "detaching"}, UNCHANGED <<shouldClose, ev, poll>>,
         line' = line \/ (srv.pc = "data" /\ line'[c].st = line[c].st /\ \A d \in Ctxs : d # c => line'[d] = line[d]),
         NEW y, ctxs' = [ctxs EXCEPT ![c] = y], CalmOK(c)',
         mon' = mon \/ (mon.pc = "asleep" /\ mon'.pc = "event"), \A d \in Ctxs : d # c => Undisturbed(d),
         srv.pc = "data" \/ ev.received,
         \/ srv'.pc = "visit" /\ srv'.i = srv.i + 1
         \/ srv'.pc = "close" /\ srv'.i = srv.i /\ srv'.c = c /\ y.state = "DETACHING"
  PROVE  Going'
<1>1. ctxs'[c] = y /\ \A d \in Ctxs : d # c => ctxs'[d] = ctxs[d]
  BY DEF Base, Typed, CtxTypes
<1>2. \A d \in Ctxs : d # c => CalmOK(d)'
  BY <1>1, OthersCalm
<1>3. \A d \in Ctxs : GoingOK(d)'
  BY <1>1 DEF GoingOK, Asking
<1>4. OnOK'
  BY DEF Going, OnOK
<1>5. AckOK'
  BY DEF Going, AckOK, Asking
<1>6. HeardOK'
  BY HeardPacket
<1> QED BY <1>2, <1>3, <1>4, <1>5, <1>6 DEF Going

LEMMA FinishedMon ==
  ASSUME Base, Going, NEW c \in Ctxs, srv.c = c, srv.pc = "data", NEW x \in Context, Finished(c, x),
         x.debug = ctxs[c].debug, x.eventToWaitFor = ctxs[c].eventToWaitFor, x.attached = ctxs[c].attached,
         x.state \in {ctxs[c].state, "DETACHING"}, UNCHANGED <<shouldClose, ev, poll>>,
         line'[c].st = line[c].st, \A d \in Ctxs : d # c => line'[d] = line[d],
         line'[c].view = line[c].view \/ (line'[c].view = "none" /\ x.state = "DETACHING"),
         mon' = mon \/ (mon.pc = "asleep" /\ mon.handles[c] # "attached" /\ Wakes(c))
  PROVE  Going'
<1>1. PICK y \in Context :
        /\ ctxs' = [ctxs EXCEPT ![c] = y] /\ y.debug = x.debug
        /\ y.eventToWaitFor = x.eventToWaitFor /\ y.attached = x.attached
        /\ \/ srv'.pc = "visit" /\ srv'.i = srv.i + 1
           \/ srv'.pc = "close" /\ srv'.i = srv.i /\ srv'.c = c /\ y.state = "DETACHING"
        /\ y.state = "ATTACHED" => x.state = "ATTACHED"
  BY FinishedFacts
<1>2. ctxs'[c] = y /\ \A d \in Ctxs : d # c => ctxs'[d] = ctxs[d]
  BY <1>1 DEF Base, Typed, CtxTypes
<1>3. (mon' = mon \/ (mon.pc = "asleep" /\ mon'.pc = "event")) /\ \A d \in Ctxs : Undisturbed(d)
  BY WakesOne DEF Undisturbed
<1>4. CalmOK(c)'
  <2>1. Calm(c) => Calm(c)'
    BY <1>1, <1>2, <1>3, CalmKept DEF Calm
  <2>2. mon'.pc = "call" => Valid(c)'
    <3>1. mon'.pc = "call" => mon' = mon
      BY <1>3
    <3> QED BY <1>1, <1>2, <3>1 DEF Going, CalmOK, Valid
  <2>3. x.state = "ATTACHED" => ctxs[c].state = "ATTACHED" /\ line'[c].view = line[c].view
    OBVIOUS
  <2> QED BY <1>1, <1>2, <2>1, <2>2, <2>3 DEF Going, CalmOK
<1> QED BY <1>1, <1>3, <1>4, HandledMon

LEMMA DetachingMon ==
  ASSUME Base, Going, NEW c \in Ctxs, srv.c = c, srv.pc = "data", NEW x \in Context, Detaching(c, x),
         x.debug = ctxs[c].debug, UNCHANGED <<shouldClose, poll>>,
         line'[c].st = line[c].st, line'[c].view = "none", \A d \in Ctxs : d # c => line'[d] = line[d]
  PROVE  Going'
<1>1. PICK w : w = [x EXCEPT !.state = "DETACHING"]
  OBVIOUS
<1>2. w \in Context /\ w.state = "DETACHING" /\ w.debug = x.debug
  BY <1>1 DEF Context
<1>3. PICK y : /\ y = Resets(w) /\ y.state = "DETACHING" /\ y.debug = x.debug
               /\ y.eventToWaitFor = "attached" /\ y.attached = FALSE
  <2>1. /\ Resets(w).state = "DETACHING" /\ Resets(w).debug = x.debug
        /\ Resets(w).eventToWaitFor = "attached" /\ Resets(w).attached = FALSE
    BY <1>2, ResetsFacts
  <2> QED BY <2>1
<1>4. ctxs'[c] = y /\ \A d \in Ctxs : d # c => ctxs'[d] = ctxs[d]
  BY <1>1, <1>3 DEF Detaching, Base, Typed, CtxTypes
<1>5. srv'.pc = "detaching" /\ srv'.i = srv.i /\ srv'.c = c
  BY ToFacts DEF Detaching, Base, RestOK, SrvPlaces
<1>6. /\ ev'.received = FALSE
      /\ \/ mon.pc = "asleep" /\ mon'.pc = "ack" /\ ev'.updated = ev.updated
         \/ mon.pc # "asleep" /\ mon' = mon /\ ev'.updated = TRUE
  BY UpdatedFacts DEF Detaching, Base, RestOK
<1>7. \A d \in Ctxs : Undisturbed(d)
  BY <1>6 DEF Undisturbed
<1>8. CalmOK(c)'
  <2>1. Calm(c) => Calm(c)'
    BY <1>3, <1>4, <1>7, CalmKept
  <2>2. mon'.pc = "call" => Valid(c)'
    BY <1>3, <1>4, <1>6 DEF Going, CalmOK, Valid
  <2> QED BY <1>3, <1>4, <2>1, <2>2 DEF Going, CalmOK
<1>9. \A d \in Ctxs : d # c => CalmOK(d)'
  BY <1>4, <1>7, OthersCalm
<1>10. \A d \in Ctxs : GoingOK(d)'
  <2>1. Loose(c)'
    BY <1>3, <1>4, <1>6 DEF Loose
  <2> QED BY <1>5, <2>1 DEF GoingOK
<1>11. OnOK'
  BY <1>5, <1>6 DEF Going, OnOK
<1>12. AckOK'
  BY <1>5, <1>6 DEF Going, AckOK, Asking
<1>13. HeardOK'
  BY <1>5, HeardPacket
<1> QED BY <1>8, <1>9, <1>10, <1>11, <1>12, <1>13 DEF Going

LEMMA AttachMon ==
  ASSUME Base, Views, Going, NEW c \in Ctxs, srv.c = c, srv.pc = "data", line[c].pkt.cmd = "vAttach",
         NEW p \in Pids, NEW x \in Context, Finished(c, x), Attaching(c, p), x.debug = p, x.state = "ATTACHED",
         UNCHANGED <<shouldClose, ev, poll>>,
         line'[c].st = line[c].st, line'[c].view = "stopped", \A d \in Ctxs : d # c => line'[d] = line[d]
  PROVE  Going'
<1>1. PICK y : /\ ctxs' = [ctxs EXCEPT ![c] = y] /\ y.debug = p
               /\ srv'.pc = "visit" /\ srv'.i = srv.i + 1
  BY FinishedFacts
<1>2. ctxs'[c] = y
  BY <1>1 DEF Base, Typed, CtxTypes
<1>3. line[c].st = "open" /\ Calm(c)
  <2>1. ctxs[c].debug # None => ctxs[c].state = "ATTACHED"
    BY DEF Views, SessionOK, HeldOK, Clearing, LettingGo
  <2>2. line[c].st = "open" /\ line[c].view \in {"none", "exited"}
    BY DEF Views, SessionOK, LineOK, ViewOK, NoPacket
  <2> QED BY <2>1, <2>2 DEF Going, CalmOK
<1>4. mon' = mon \/ (mon.pc = "asleep" /\ mon'.pc = "event" /\ mon'.c = c)
  BY AttachingFacts, WakesFacts
<1>5. CalmOK(c)'
  <2>1. mon'.pc = "call" => Valid(c)'
    BY <1>3, <1>4 DEF Calm, Valid
  <2> QED BY <1>1, <1>2, <1>3, <2>1, GdbAssumption DEF CalmOK
<1>6. \A d \in Ctxs : d # c => Undisturbed(d)
  BY <1>4 DEF Undisturbed
<1> QED BY <1>1, <1>4, <1>5, <1>6, HandledMon

LEMMA PacketMon ==
  ASSUME Base, Views, Going, DoPacket
  PROVE  Going'
<1>0. PICK c, pkt : c = srv.c /\ pkt = line[c].pkt
  OBVIOUS
<1>1. /\ c \in Ctxs /\ srv.c = c /\ srv.pc = "data" /\ (pkt.cmd = "vAttach" => pkt.pid \in Pids)
      /\ UNCHANGED <<shouldClose, poll>> /\ line'[c].st = line[c].st
      /\ line'[c].view = IF pkt.cmd = "vAttach" /\ Attachable(pkt.pid) THEN "stopped"
                         ELSE IF pkt.cmd \in {"D", "k", "vAttach"} THEN "none" ELSE line[c].view
      /\ \A d \in Ctxs : d # c => line'[d] = line[d]
  BY <1>0, PacketFacts
<1>2. \/ pkt.cmd = "c" /\ Continue(c)
      \/ pkt.cmd = "brk" /\ Break(c)
      \/ pkt.cmd = "D" /\ EndSession(c, {})
      \/ pkt.cmd = "k" /\ EndSession(c, {"TERMINATE_PROCESS"})
      \/ pkt.cmd = "!" /\ EnableExtendedMode(c)
      \/ pkt.cmd = "vAttach" /\ VerboseAttach(c, pkt.pid)
      \/ pkt.cmd = "none"
  BY <1>0, PacketFacts
<1>3. CASE pkt.cmd = "c" /\ Continue(c)
  <2>1. PICK x : /\ Finished(c, x) /\ Handles(c, x) /\ x.state = ctxs[c].state
                 /\ x.debug = ctxs[c].debug /\ x.eventToWaitFor = ctxs[c].eventToWaitFor
                 /\ x.attached = ctxs[c].attached /\ ev' = ev
                 /\ mon' = mon \/ (mon.pc = "asleep" /\ mon.handles[c] = "continued" /\ Wakes(c))
    BY <1>1, <1>3, ContinueFacts
  <2>2. x \in Context /\ line'[c].view = line[c].view
    BY <1>1, <1>3, <2>1 DEF Handles, HandlesRest
  <2> QED BY <1>1, <2>1, <2>2, FinishedMon
<1>4. CASE pkt.cmd = "brk" /\ Break(c)
  <2>1. PICK x : /\ Finished(c, x) /\ Handles(c, x) /\ x.state = ctxs[c].state
                 /\ x.debug = ctxs[c].debug /\ x.eventToWaitFor = ctxs[c].eventToWaitFor
                 /\ x.attached = ctxs[c].attached /\ ev' = ev
                 /\ mon' = mon \/ (mon.pc = "asleep" /\ mon.handles[c] = ctxs[c].debug /\ Wakes(c))
    BY <1>1, <1>4, BreakFacts
  <2>2. x \in Context /\ line'[c].view = line[c].view
    BY <1>1, <1>4, <2>1 DEF Handles, HandlesRest
  <2>3. ctxs[c].debug # "attached"
    BY <1>1, GdbAssumption DEF Base, Typed, CtxTypes, Context
  <2> QED BY <1>1, <2>1, <2>2, <2>3, FinishedMon
<1>5. CASE pkt.cmd \in {"D", "k"} /\ (EndSession(c, {}) \/ EndSession(c, {"TERMINATE_PROCESS"}))
  <2>1. PICK fl \in SUBSET {"TERMINATE_PROCESS"} : EndSession(c, fl)
    BY <1>5
  <2>2. PICK x : /\ Handles(c, x) /\ x.state = "DETACHING" /\ x.debug = ctxs[c].debug
                 /\ x.eventToWaitFor = ctxs[c].eventToWaitFor /\ x.attached = ctxs[c].attached
                 /\ Detaching(c, x) \/ (Finished(c, x) /\ UNCHANGED <<proc, ev, mon>>)
    BY <1>1, <2>1, EndSessionFacts
  <2>3. x \in Context /\ line'[c].view = "none"
    BY <1>1, <1>5, <2>2 DEF Handles, HandlesRest
  <2> QED BY <1>1, <2>2, <2>3, FinishedMon, DetachingMon
<1>6. CASE pkt.cmd = "!" /\ EnableExtendedMode(c)
  <2>1. PICK x : /\ Finished(c, x) /\ Handles(c, x) /\ UNCHANGED <<proc, ev, mon>>
                 /\ x.state = ctxs[c].state /\ x.debug = ctxs[c].debug
                 /\ x.eventToWaitFor = ctxs[c].eventToWaitFor /\ x.attached = ctxs[c].attached
    BY <1>1, <1>6, ExtendedFacts
  <2>2. x \in Context /\ line'[c].view = line[c].view
    BY <1>1, <1>6, <2>1 DEF Handles, HandlesRest
  <2> QED BY <1>1, <2>1, <2>2, FinishedMon
<1>7. CASE pkt.cmd = "vAttach" /\ VerboseAttach(c, pkt.pid)
  <2>1. PICK p \in Pids : p = pkt.pid /\ VerboseAttach(c, p)
    BY <1>1, <1>7
  <2>2. PICK x : \/ /\ Attachable(p) /\ Handles(c, x) /\ Finished(c, x) /\ Attaching(c, p) /\ ev' = ev
                    /\ x.debug = p /\ x.state = "ATTACHED"
                 \/ ~Attachable(p) /\ HandlesRest(c, x) /\ Detaching(c, x) /\ x.debug = ctxs[c].debug
    BY <1>1, <2>1, VerboseAttachFacts
  <2>3. x \in Context /\ line[c].pkt.cmd = "vAttach"
    BY <1>0, <1>7, <2>2 DEF Handles, HandlesRest
  <2>4. CASE ~Attachable(p) /\ Detaching(c, x) /\ x.debug = ctxs[c].debug
    <3>1. line'[c].view = "none"
      BY <1>1, <1>7, <2>1, <2>4
    <3> QED BY <1>1, <2>3, <2>4, <3>1, DetachingMon
  <2>5. CASE /\ Attachable(p) /\ Finished(c, x) /\ Attaching(c, p) /\ ev' = ev
             /\ x.debug = p /\ x.state = "ATTACHED"
    <3>1. line'[c].view = "stopped"
      BY <1>1, <1>7, <2>1, <2>5
    <3> QED BY <1>1, <2>3, <2>5, <3>1, AttachMon
  <2> QED BY <2>2, <2>4, <2>5
<1>8. pkt.cmd # "none"
  BY <1>0, <1>1 DEF Going, HeardOK
<1> QED BY <1>2, <1>3, <1>4, <1>5, <1>6, <1>7, <1>8

LEMMA DetachesMon ==
  ASSUME Base, Going, ServerDetaches
  PROVE  Going'
<1>0. PICK c, x : c = srv.c /\ x = Kept(Detached(ctxs[c]))
  OBVIOUS
<1>1. /\ c \in Ctxs /\ srv.c = c /\ srv.pc = "detaching" /\ ev.received
      /\ UNCHANGED <<shouldClose, line, ev, mon, poll>>
      /\ x \in Context /\ x.state = "DETACHING" /\ x.eventToWaitFor = "attached"
      /\ x.attached = ctxs[c].attached /\ Finished(c, x)
  BY <1>0, DetachesFacts
<1>2. PICK y \in Context :
        /\ ctxs' = [ctxs EXCEPT ![c] = y] /\ y.eventToWaitFor = "attached" /\ y.attached = ctxs[c].attached
        /\ \/ srv'.pc = "visit" /\ srv'.i = srv.i + 1
           \/ srv'.pc = "close" /\ srv'.i = srv.i /\ srv'.c = c /\ y.state = "DETACHING"
        /\ y.state # "ATTACHED"
  BY <1>1, FinishedFacts
<1>3. ctxs'[c] = y /\ \A d \in Ctxs : d # c => ctxs'[d] = ctxs[d]
  BY <1>1, <1>2 DEF Base, Typed, CtxTypes
<1>4. Calm(c)
  BY <1>1 DEF Going, GoingOK, Asking, Loose
<1>5. Calm(c)'
  BY <1>1, <1>2, <1>3, <1>4 DEF Calm
<1>6. CalmOK(c)'
  BY <1>1, <1>2, <1>3, <1>5, CalmIsValid DEF Going, CalmOK
<1>7. \A d \in Ctxs : d # c => Undisturbed(d)
  BY <1>1 DEF Undisturbed
<1> QED BY <1>1, <1>2, <1>6, <1>7, HandledMon

(* The end, and the steps of all                                            *)
LEMMA EndsMon ==
  ASSUME Base, Going, ~ev.terminate, ServerAborts \/ ServerLeaves \/ MonitorLeaves
  PROVE  FALSE
BY DEF ServerAborts, ServerLeaves, MonitorLeaves, At, Going, OnOK, Base, EndOK

LEMMA StutterMon ==
  ASSUME Base, Going, UNCHANGED vars
  PROVE  Going'
<1>1. UNCHANGED <<ctxs, line, shouldClose, ev, srv, poll, mon>>
  BY DEF vars, connections, tables
<1>2. HeardOK'
  BY <1>1, HeardKept DEF Going
<1> QED BY <1>1, <1>2, AroundMon DEF Alike, Undisturbed

LEMMA ServerMon ==
  ASSUME Base, Views, Going, ~ev.terminate, Server
  PROVE  Going'
BY PollsMon, CompactsMon, VisitsMon, AcceptsMon, AcceptClientMon, ClosesMon, AnswersMon, ClosedMon,
   PacketMon, DetachesMon, EndsMon DEF Server

LEMMA MonitorMon ==
  ASSUME Base, Going, ~ev.terminate, Monitor
  PROVE  Going'
BY ReadsMon, WaitsMon, AcknowledgesMon, HandlesMon, EndsMon DEF Monitor

(* The debugger is not enabled again.                                       *)
LEMMA StaysDisabled ==
  ASSUME Base, ev.terminate, [Next]_vars
  PROVE  ev'.terminate
<1>1. CASE Server
  <2>1. CASE ServerCloses
    <3>1. UNCHANGED ev \/ SignalStatusUpdated(FALSE)
      BY <2>1 DEF ServerCloses
    <3> QED BY <3>1, UpdatedFacts DEF Base, RestOK
  <2>2. CASE DoPacket
    <3>1. UNCHANGED ev \/ SignalStatusUpdated(FALSE)
      <4>1. PICK c, p : \/ Continue(c) \/ Break(c) \/ EnableExtendedMode(c) \/ UNCHANGED ev
                        \/ EndSession(c, {}) \/ EndSession(c, {"TERMINATE_PROCESS"})
                        \/ VerboseAttach(c, p)
        BY <2>2, PacketFacts
      <4>2. CASE Continue(c) \/ Break(c) \/ EnableExtendedMode(c)
        BY <4>2 DEF Continue, Break, EnableExtendedMode
      <4>3. CASE EndSession(c, {}) \/ EndSession(c, {"TERMINATE_PROCESS"})
        BY <4>3 DEF EndSession, Detaching
      <4>4. CASE VerboseAttach(c, p)
        BY <4>4 DEF VerboseAttach, Detaching
      <4> QED BY <4>1, <4>2, <4>3, <4>4
    <3> QED BY <3>1, UpdatedFacts DEF Base, RestOK
  <2>3. CASE ServerAborts
    BY <2>3, TerminateFacts DEF ServerAborts, Base, RestOK
  <2>4. CASE ServerLeaves
    BY <2>4 DEF ServerLeaves, Dereference
  <2> QED BY <1>1, <2>1, <2>2, <2>3, <2>4 DEF Server, ServerPolls, ServerCompacts, ServerVisits,
       ServerAccepts, AcceptClient, ServerAsks, ServerIsAnswered, ServerClosed, ServerDetaches
<1>2. CASE Monitor
  <2>1. ev \in Events
    BY DEF Base, RestOK
  <2>2. CASE MonitorWaits \/ MonitorAcknowledges
    BY <2>1, <2>2 DEF MonitorWaits, MonitorAcknowledges, Events
  <2> QED BY <1>2, <2>2 DEF Monitor, MonitorReads, MonitorHandles, MonitorLeaves, Dereference
<1>3. CASE Menu
  BY <1>3, TerminateFacts DEF Menu, Disable, DisableKills, DisableJoins, SelectProcess, DeselectProcess, Base, RestOK
<1>4. CASE Clients \/ Processes
  BY <1>4 DEF Clients, Connect, Send, HangUp, ClientSteps, Processes, Debuggee, Restarted
<1>5. CASE UNCHANGED vars
  BY <1>5 DEF vars
<1> QED BY <1>1, <1>2, <1>3, <1>4, <1>5 DEF Next

LEMMA NextMon ==
  ASSUME Base, Views, MonOK, Polite = TRUE, [Next]_vars
  PROVE  MonOK'
<1>1. CASE ev.terminate
  BY <1>1, StaysDisabled DEF MonOK
<1>2. CASE ~ev.terminate
  <2>1. Going
    BY <1>2 DEF MonOK
  <2>2. Going' \/ ev'.terminate
    BY <1>2, <2>1, ServerMon, MonitorMon, MenuMon, ClientsMon, ProcessesMon, StutterMon DEF Next
  <2> QED BY <2>2 DEF MonOK
<1> QED BY <1>1, <1>2

LEMMA InitMon == ASSUME Init PROVE MonOK
<1>1. /\ \A c \in Ctxs : ctxs[c] = Blank /\ line[c] = NoLine
      /\ mon.pc = "top" /\ srv.pc = "poll" /\ shouldClose = {} /\ ev.updated = FALSE
  BY DEF Init, NoHandles, Polling
<1>2. \A c \in Ctxs : CalmOK(c)
  BY <1>1 DEF CalmOK, Calm, Blank, NoLine
<1>3. OnOK /\ AckOK /\ HeardOK /\ \A c \in Ctxs : GoingOK(c)
  BY <1>1 DEF OnOK, AckOK, HeardOK, GoingOK, Asking
<1> QED BY <1>2, <1>3 DEF MonOK, Going

(* As long as the debugger is not disabled the monitor goes on, if clients  *)
(* end their session before they hang up: a debug handle is closed only     *)
(* when the monitor has acknowledged that the context wants it waited for   *)
(* no longer, or when it never did, so that no wait of the monitor fails.   *)
THEOREM MonitorIsKept ==
  ASSUME Polite = TRUE
  PROVE  Spec => []MonitorStays
<1>1. Init => Base /\ Views /\ MonOK
  BY InitBase, InitViews, InitMon
<1>2. Base /\ Views /\ MonOK /\ [Next]_vars => (Base /\ Views /\ MonOK)'
  BY NextBase, NextViews, NextMon
<1>3. MonOK => MonitorStays
  BY DEF MonOK, Going, OnOK, MonitorStays
<1> QED BY <1>1, <1>2, <1>3, PTL DEF Spec
=============================================================================
