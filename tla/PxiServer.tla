------------------------------ MODULE PxiServer ----------------------------
(***************************************************************************)
(* pxi: commands of ARM11 processes go to Process9 on the ARM9, and its     *)
(* replies come back.  Four threads: main accepts sessions, sender talks to *)
(* the sessions and sends to the ARM9, receiver reads what the ARM9 sends,  *)
(* and the handler of pxi:srv11 answers the ARM9.  Session 0 is pxi:mc.     *)
(*                                                                          *)
(* The lock of a session is held by one thread for the length of an action, *)
(* or by the sender while it waits for the transfer mutex, when nobody else *)
(* wants it.  The lock of the sender is free while the sender is in         *)
(* svcReplyAndReceive.                                                      *)
(***************************************************************************)
EXTENDS Integers, Sequences, FiniteSets

CONSTANTS
  NSessions,                   \* 9 in the code
  nbStaticBuffersByService,    \* of each session
  NB_STATIC_BUFFERS,           \* 21 in the code
  Tags,                        \* tell the requests of one session apart
  Uses,                        \* how pxi may be used: see use
  Exclusive                    \* is pxi:mc 5 used only while no other command is in progress?

Sessions == 0 .. NSessions - 1
Srv11    == NSessions
Ids      == 0 .. NSessions
Buffers  == 0 .. NB_STATIC_BUFFERS - 1
None     == -1

ASSUME PxiAssumption ==
  /\ NSessions \in Nat \ {0}
  /\ NB_STATIC_BUFFERS \in Nat
  /\ nbStaticBuffersByService \in [Sessions -> 0..4]
  /\ Uses \subseteq [clients : SUBSET Sessions, modes : BOOLEAN, ends : BOOLEAN, asks : BOOLEAN]
  /\ Exclusive \in BOOLEAN

(* What a command buffer holds: pxi:mc 5 with a flag, any other command, or *)
(* the last command pxi sends.  A reply carries what it answers.            *)
Commands == [op : {"other"}, tag : Tags] \cup [op : {"disable", "enable"}]
Last     == [op |-> "terminate"]
Empty    == [op |-> "none"]
Requests9 == {[op |-> "publish"], [op |-> "unknown"]}
Messages == Commands \cup Requests9 \cup {Last, Empty}

VARIABLES
  state, buffer, handle, usedStaticBuffers,                      \* sessionData
  freeStaticBuffers, currentlyProvidedStaticBuffers,
  latest_PXI_MC5_val, pendingArm9Commands, sendingDisabled,
  ev, mutex,                                  \* events, PXITransferMutex's owner
  main, sender, receiver, handler,            \* the threads
  arm9,        \* what it works on, is about to send, and whether it asked or ended
  client, port,
  filled,      \* history: the static buffers the data of a command is in
  shouldTerminate, panicked,
  use          \* chosen at the start: the sessions that have clients, whether they send
               \* pxi:mc 5, whether pm ends pxi, whether the ARM9 uses pxi:srv11

poolVars   == <<usedStaticBuffers, freeStaticBuffers, currentlyProvidedStaticBuffers, filled>>
modeVars   == <<latest_PXI_MC5_val, pendingArm9Commands, sendingDisabled>>
clientVars == <<client, port>>
ends       == <<shouldTerminate, panicked, use>>
vars == <<state, buffer, handle, poolVars, modeVars, ev, mutex, main, sender, receiver, handler,
          arm9, clientVars, ends>>

---------------------------------------------------------------------------
(* Words as sets of bits                                                    *)

Above(val, b) == {c \in val : c > b}
Below(val, b) == {c \in val : c < b}
(* mutant: clears the lowest bits                                           *)
clearLSBs(val, nb) == {b \in val : Cardinality(Below(val, b)) >= nb}
clearMSBs(val, nb) == {b \in val : Cardinality(Above(val, b)) >= nb}
(* The nb lowest bits: the static buffers a command with nb of them fills   *)
Lowest(val, nb)    == {b \in val : Cardinality(Below(val, b)) < nb}
Least(S)           == CHOOSE x \in S : \A y \in S : x <= y

---------------------------------------------------------------------------
(* The environment: clients and the ARM9                                    *)

UnderWay(s) == \/ state[s] # "idle"
               \/ client[s].st \in {"asking", "waiting"}
               \/ sender.event = "command" /\ sender.who = s
Busy     == {s \in Sessions : UnderWay(s)}
InMode   == sendingDisabled \/ (0 \in Busy /\ client[0].cmd.op # "other")
MayAsk(s, op) ==
  IF op = "other"  THEN Exclusive => ~InMode
  ELSE use.modes /\ s = 0 /\ (op = "enable" <=> sendingDisabled) /\ (Exclusive => Busy = {})

NoClient == [st |-> "none", cmd |-> Empty]
ClientSteps == UNCHANGED <<state, buffer, handle, poolVars, modeVars, ev, mutex, main, sender,
                           receiver, handler, arm9, ends>>

(* A port takes one session; there is room when pxi has closed its end.     *)
Connect(s) ==
  /\ s \in use.clients /\ client[s].st = "none" /\ ~port[s] /\ ~shouldTerminate
  /\ client' = [client EXCEPT ![s].st = "open"]
  /\ port' = [port EXCEPT ![s] = TRUE]
  /\ ClientSteps

Ask(s) ==
  /\ client[s].st = "open"
  /\ \E c \in Commands : MayAsk(s, c.op) /\ client' = [client EXCEPT ![s] = [st |-> "asking", cmd |-> c]]
  /\ UNCHANGED port
  /\ ClientSteps

(* The client closes its session, whatever it is waiting for.               *)
Leave(s) ==
  /\ client[s].st \in {"open", "asking", "waiting"}
  /\ client' = [client EXCEPT ![s] = [NoClient EXCEPT !.st = "closed"]]
  /\ UNCHANGED port
  /\ ClientSteps

Arm9Sends(m) ==
  /\ arm9' = [arm9 EXCEPT !.fifo = Append(@, m), !.working = @ \ {m}, !.done = @ \/ m.msg = Last,
                          !.asking = @ \/ m.id = Srv11]
  /\ ev' = [ev EXCEPT !.sync = TRUE]
  /\ UNCHANGED <<state, buffer, handle, poolVars, modeVars, mutex, main, sender, receiver, handler,
                 clientVars, ends>>

(* Process9 works on several commands at once and answers in any order.  It *)
(* has one request for pxi:srv11 at a time, and none once it has answered   *)
(* the last command.                                                        *)
Arm9Answers(s) == \E m \in arm9.working : m.id = s /\ Arm9Sends(m)
Arm9Asks ==
  /\ use.asks /\ ~arm9.asking /\ ~arm9.done
  /\ \E m \in Requests9 : Arm9Sends([id |-> Srv11, msg |-> m])

---------------------------------------------------------------------------
(* sendPXICmdbuf                                                            *)

Panic == /\ panicked' = TRUE
         /\ UNCHANGED <<state, buffer, handle, poolVars, modeVars, ev, mutex, main, sender, receiver,
                        handler, arm9, clientVars, shouldTerminate, use>>

Acquire(t) == mutex = "free" /\ mutex' = t
(* The words of the buffer go to the ARM9, which takes the answer to its    *)
(* own request or works on a command.                                       *)
Transferred(id, msg) ==
  /\ mutex' = "free"
  /\ arm9' = IF id = Srv11 THEN [arm9 EXCEPT !.asking = FALSE]
             ELSE [arm9 EXCEPT !.working = @ \cup {[id |-> id, msg |-> msg]}]

---------------------------------------------------------------------------
(* receiver                                                                 *)

notReceiver == <<handle, poolVars, modeVars, mutex, main, sender, handler, clientVars, ends>>

ReceiverStarts ==
  /\ receiver.pc = "start" /\ ev.replySent
  /\ ev' = [ev EXCEPT !.replySent = FALSE]
  /\ receiver' = [receiver EXCEPT !.pc = "wait"]
  /\ UNCHANGED <<state, buffer, arm9, notReceiver>>

ReceiverWakes ==
  /\ receiver.pc = "wait" /\ (ev.sync \/ ev.terminate)
  /\ ev' = [ev EXCEPT !.sync = FALSE]
  /\ receiver' = [receiver EXCEPT !.pc = IF ev.sync THEN "drain" ELSE "ended"]
  /\ UNCHANGED <<state, buffer, arm9, notReceiver>>

ReceiverDrained ==
  /\ receiver.pc = "drain" /\ arm9.fifo = <<>>
  /\ receiver' = [receiver EXCEPT !.pc = "wait"]
  /\ UNCHANGED <<state, buffer, ev, arm9, notReceiver>>

(* receiveFromArm9, up to the new state of the session                      *)
Receive ==
  /\ receiver.pc = "drain" /\ arm9.fifo # <<>>
  /\ LET m == Head(arm9.fifo) IN
     IF state[m.id] # "sentToArm9" THEN Panic
     ELSE /\ arm9' = [arm9 EXCEPT !.fifo = Tail(@)]
          /\ buffer' = [buffer EXCEPT ![m.id] = m.msg]
          /\ state' = [state EXCEPT ![m.id] = "fromArm9"]
          /\ receiver' = [pc |-> "notify", id |-> m.id]
          /\ UNCHANGED <<ev, notReceiver>>

(* mutant: tells the sender of every message                                *)
IsReplyAlways(id) == TRUE
IsReply(id) == id # Srv11
IsLast(id)  == id = 0 /\ shouldTerminate
Notify ==
  /\ receiver.pc = "notify"
  /\ LET id == receiver.id IN
     /\ ev' = IF IsLast(id) THEN [ev EXCEPT !.terminate = TRUE]
              ELSE IF IsReply(id) THEN [ev EXCEPT !.reply = @ + 1]
              ELSE [ev EXCEPT !.command = TRUE]
     /\ receiver' = [receiver EXCEPT !.pc = IF IsReply(id) THEN "drain" ELSE "await"]
  /\ UNCHANGED <<state, buffer, arm9, notReceiver>>

ReceiverAwaits ==
  /\ receiver.pc = "await" /\ ev.replySent
  /\ IF state[Srv11] # "sentToArm9" THEN Panic
     ELSE /\ ev' = [ev EXCEPT !.replySent = FALSE]
          /\ receiver' = [receiver EXCEPT !.pc = "drain"]
          /\ UNCHANGED <<state, buffer, arm9, notReceiver>>

Receiver == ReceiverStarts \/ ReceiverWakes \/ ReceiverDrained \/ Receive \/ Notify \/ ReceiverAwaits

---------------------------------------------------------------------------
(* PXISRV11Handler                                                          *)

notHandler == <<handle, poolVars, modeVars, main, sender, receiver, clientVars, ends>>

HandlerStarts ==
  /\ handler = "start"
  /\ state' = [state EXCEPT ![Srv11] = "sentToArm9"]
  /\ ev' = [ev EXCEPT !.replySent = TRUE]
  /\ handler' = "wait"
  /\ UNCHANGED <<buffer, mutex, arm9, notHandler>>

HandlerWakes ==
  /\ handler = "wait" /\ (ev.command \/ ev.terminate)
  /\ ev' = [ev EXCEPT !.command = FALSE]
  /\ handler' = IF ev.command THEN "handle" ELSE "ended"
  /\ UNCHANGED <<state, buffer, mutex, arm9, notHandler>>

(* The notification is published, or the command is unknown.                *)
Handle ==
  /\ handler = "handle"
  /\ IF state[Srv11] # "fromArm9" THEN Panic
     ELSE /\ state' = [state EXCEPT ![Srv11] = IF buffer[Srv11].op = "publish" THEN "fromArm11"
                                                ELSE "idle"]
          /\ handler' = "acquire"
          /\ UNCHANGED <<buffer, ev, mutex, arm9, notHandler>>

HandlerAcquires ==
  /\ handler = "acquire"
  /\ IF mutex # "free" /\ ev.terminate THEN Panic
     ELSE /\ Acquire("handler")
          /\ handler' = "transfer"
          /\ UNCHANGED <<state, buffer, ev, arm9, notHandler>>

HandlerTransfers ==
  /\ handler = "transfer" /\ Transferred(Srv11, buffer[Srv11])
  /\ handler' = "sent"
  /\ UNCHANGED <<state, buffer, ev, notHandler>>

Replied(st) == [st EXCEPT ![Srv11] = "sentToArm9"]
HandlerReplied ==
  /\ handler = "sent"
  /\ state' = Replied(state)
  /\ buffer' = [buffer EXCEPT ![Srv11] = Empty]
  /\ ev' = [ev EXCEPT !.replySent = TRUE]
  /\ handler' = "wait"
  /\ UNCHANGED <<mutex, arm9, notHandler>>

Handler == HandlerStarts \/ HandlerWakes \/ Handle \/ HandlerAcquires \/ HandlerTransfers
           \/ HandlerReplied

---------------------------------------------------------------------------
(* main                                                                     *)

notMain == <<buffer, poolVars, modeVars, sender, receiver, handler, client, panicked, use>>

(* The sender holds its lock except in svcReplyAndReceive.                  *)
SenderLockFree == sender.pc \in {"reply", "receive", "event", "ended"}

Accept(s) ==
  /\ main.pc = "wait" /\ port[s]
  /\ port' = [port EXCEPT ![s] = FALSE]
  /\ main' = [pc |-> "accepted", id |-> s]
  /\ UNCHANGED <<state, handle, ev, mutex, arm9, shouldTerminate, notMain>>

Accepted ==
  /\ main.pc = "accepted" /\ SenderLockFree
  /\ IF handle[main.id] THEN Panic
     ELSE /\ handle' = [handle EXCEPT ![main.id] = TRUE]
          /\ ev' = [ev EXCEPT !.sendAll = TRUE]
          /\ main' = [pc |-> "wait", id |-> None]
          /\ UNCHANGED <<state, mutex, arm9, port, shouldTerminate, notMain>>

(* pm ends pxi when its clients have ended: nobody has a session.           *)
ShouldTerminate ==
  /\ use.ends /\ main.pc = "wait"
  /\ \A s \in Sessions : client[s].st = "none" /\ ~port[s] /\ ~UnderWay(s)
  /\ shouldTerminate' = TRUE
  /\ main' = [main EXCEPT !.pc = "last"]
  /\ UNCHANGED <<state, handle, ev, mutex, arm9, port, notMain>>

MainLast ==
  /\ main.pc = "last"
  /\ state' = [state EXCEPT ![0] = "sentToArm9"]
  /\ main' = [main EXCEPT !.pc = "acquire"]
  /\ UNCHANGED <<handle, ev, mutex, arm9, port, shouldTerminate, notMain>>

MainAcquires ==
  /\ main.pc = "acquire" /\ Acquire("main")
  /\ main' = [main EXCEPT !.pc = "transfer"]
  /\ UNCHANGED <<state, handle, ev, arm9, port, shouldTerminate, notMain>>

(* mutant: sends the last command as an answer of pxi:srv11                 *)
LastFromSrv11 == Srv11
LastFrom == 0
MainTransfers ==
  /\ main.pc = "transfer" /\ Transferred(LastFrom, Last)
  /\ main' = [main EXCEPT !.pc = "join"]
  /\ UNCHANGED <<state, handle, ev, port, shouldTerminate, notMain>>

MainJoins ==
  /\ main.pc = "join" /\ receiver.pc = "ended" /\ sender.pc = "ended" /\ handler = "ended"
  /\ main' = [main EXCEPT !.pc = "ended"]
  /\ UNCHANGED <<state, handle, ev, mutex, arm9, port, shouldTerminate, notMain>>

MainRuns == (\E s \in Sessions : Accept(s)) \/ Accepted \/ MainLast \/ MainAcquires \/ MainTransfers
            \/ MainJoins

---------------------------------------------------------------------------
(* sender: commands to the ARM9                                             *)

notSender == <<main, receiver, handler, port, ends>>

(* mutant: pxi:mc 5 is held back with the others                            *)
MaySendEnabled == ~sendingDisabled
MaySend == sendingDisabled => pendingArm9Commands = 0 /\ latest_PXI_MC5_val # 0
ToSend  == {s \in Sessions : s >= sender.next /\ handle[s] /\ state[s] = "fromArm11" /\ MaySend}

Send ==
  /\ sender.pc = "send" /\ sender.target = None /\ ToSend # {}
  /\ LET s == Least(ToSend) IN
     /\ state' = [state EXCEPT ![s] = "sentToArm9"]
     /\ sender' = [sender EXCEPT !.pc = "acquire", !.next = s]
  /\ pendingArm9Commands' = IF sendingDisabled THEN pendingArm9Commands ELSE pendingArm9Commands + 1
  /\ UNCHANGED <<buffer, handle, poolVars, latest_PXI_MC5_val, sendingDisabled, ev, mutex, arm9,
                 client, notSender>>

SenderAcquires ==
  /\ sender.pc = "acquire"
  /\ IF mutex # "free" /\ ev.terminate
     THEN sender' = [sender EXCEPT !.pc = "terminate"] /\ UNCHANGED mutex
     ELSE Acquire("sender") /\ sender' = [sender EXCEPT !.pc = "transfer"]
  /\ UNCHANGED <<state, buffer, handle, poolVars, modeVars, ev, arm9, client, notSender>>

SenderTransfers ==
  /\ sender.pc = "transfer" /\ Transferred(sender.next, buffer[sender.next])
  /\ sender' = [sender EXCEPT !.pc = "send", !.next = @ + 1]
  /\ UNCHANGED <<state, buffer, handle, poolVars, modeVars, ev, client, notSender>>

(* The idle sessions are waited for, and the lock is released.              *)
SendEnds ==
  /\ sender.pc = "send" /\ (sender.target # None \/ ToSend = {})
  /\ sender' = [sender EXCEPT !.pc = "reply", !.next = 0,
                              !.idle = {s \in Sessions : handle[s] /\ state[s] = "idle"}]
  /\ UNCHANGED <<state, buffer, handle, poolVars, modeVars, ev, mutex, arm9, client, notSender>>

---------------------------------------------------------------------------
(* sender: svcReplyAndReceive                                               *)

Happens(e, s) == [sender EXCEPT !.pc = "event", !.event = e, !.who = s, !.idle = {}]

Reply ==
  /\ sender.pc = "reply"
  /\ LET s == sender.target IN
     IF s = None
     THEN sender' = [sender EXCEPT !.pc = "receive"] /\ UNCHANGED client
     ELSE IF client[s].st = "closed"
     THEN sender' = Happens("closed", s) /\ UNCHANGED client
     ELSE /\ sender' = [sender EXCEPT !.pc = "receive", !.cmdbuf = Empty]
          /\ client' = [client EXCEPT ![s] = [NoClient EXCEPT !.st = "open"]]
  /\ UNCHANGED <<state, buffer, handle, poolVars, modeVars, ev, mutex, arm9, notSender>>

Readable == {s \in sender.idle : client[s].st \in {"closed", "asking"}}

(* The first of the handles that is ready, as the kernel looks for it       *)
ReceiveEvent ==
  /\ sender.pc = "receive"
  /\ IF ev.terminate
     THEN sender' = Happens("terminate", None) /\ UNCHANGED <<ev, client, filled>>
     ELSE IF ev.sendAll
     THEN /\ sender' = Happens("sendAll", None) /\ ev' = [ev EXCEPT !.sendAll = FALSE]
          /\ UNCHANGED <<client, filled>>
     ELSE IF ev.reply > 0
     THEN /\ sender' = Happens("reply", None) /\ ev' = [ev EXCEPT !.reply = @ - 1]
          /\ UNCHANGED <<client, filled>>
     ELSE /\ Readable # {}
          /\ LET s == Least(Readable) IN
             IF client[s].st = "closed"
             THEN sender' = Happens("closed", s) /\ UNCHANGED <<client, filled>>
             ELSE /\ sender' = [Happens("command", s) EXCEPT !.cmdbuf = client[s].cmd]
                  /\ client' = [client EXCEPT ![s].st = "waiting"]
                  /\ filled' = [filled EXCEPT ![s] = Lowest(currentlyProvidedStaticBuffers,
                                                            nbStaticBuffersByService[s])]
          /\ UNCHANGED ev
  /\ UNCHANGED <<state, buffer, handle, usedStaticBuffers, freeStaticBuffers,
                 currentlyProvidedStaticBuffers, modeVars, mutex, arm9, notSender>>

---------------------------------------------------------------------------
(* sender: what it got.  Its lock is free: main may hold it for an instant. *)

On(e) == sender.pc = "event" /\ sender.event = e
Continue(t) == sender' = [sender EXCEPT !.pc = "send", !.target = t, !.event = "none", !.who = None]

SessionClosed ==
  /\ On("closed")
  /\ handle' = [handle EXCEPT ![sender.who] = FALSE]
  /\ client' = [client EXCEPT ![sender.who] = NoClient]
  /\ Continue(None)
  /\ UNCHANGED <<state, buffer, poolVars, modeVars, ev, mutex, arm9, notSender>>

SendAllBuffers ==
  /\ On("sendAll") /\ Continue(None)
  /\ UNCHANGED <<state, buffer, handle, poolVars, modeVars, ev, mutex, arm9, client, notSender>>

(* mutant: counts the replies of pxi:mc 5 as well                           *)
EveryReplyCounted ==
  /\ pendingArm9Commands' = pendingArm9Commands - 1
  /\ sendingDisabled' = (sendingDisabled /\ latest_PXI_MC5_val # 2)
(* What a reply does to the modes.  The counter is unsigned: -1 stands for  *)
(* 0xFFFFFFFF.                                                              *)
ReplyCounted ==
  /\ pendingArm9Commands' = IF latest_PXI_MC5_val = 0 THEN pendingArm9Commands - 1
                            ELSE pendingArm9Commands
  /\ sendingDisabled' = (sendingDisabled /\ latest_PXI_MC5_val # 2)

Replies == {s \in Sessions : state[s] = "fromArm9"}
Released(s) ==
  /\ freeStaticBuffers' = freeStaticBuffers \cup usedStaticBuffers[s]
  /\ usedStaticBuffers' = [usedStaticBuffers EXCEPT ![s] = {}]
  /\ filled' = [filled EXCEPT ![s] = {}]
(* mutant: answers the session that is first                                *)
AnsweredFirst == 0
Answered == Least(Replies)
Arm9Reply ==
  /\ On("reply")
  /\ IF Replies = {} \/ (latest_PXI_MC5_val = 2 /\ pendingArm9Commands # 0) THEN Panic
     ELSE LET s == Answered IN
          /\ ReplyCounted
          /\ sender' = [sender EXCEPT !.pc = "send", !.target = IF handle[s] THEN s ELSE None,
                                      !.event = "none", !.cmdbuf = buffer[s]]
          /\ buffer' = [buffer EXCEPT ![s] = Empty]
          /\ Released(s)
          /\ state' = [state EXCEPT ![s] = "idle"]
          /\ UNCHANGED <<handle, currentlyProvidedStaticBuffers, latest_PXI_MC5_val, ev, mutex, arm9,
                         client, notSender>>

(* mutant: takes the number of the command for the mode                     *)
ModeIsCommand(op) == IF op = "other" THEN 0 ELSE 5
ModeAsked(op) == CASE op = "disable" -> 1 [] op = "enable" -> 2 [] OTHER -> 0
(* acquireStaticBuffers after releaseStaticBuffers of what is not needed    *)
Provided(s) ==
  LET keep  == clearMSBs(currentlyProvidedStaticBuffers, 4 - nbStaticBuffersByService[s])
      free1 == freeStaticBuffers \cup (currentlyProvidedStaticBuffers \ keep) IN
  /\ usedStaticBuffers' = [usedStaticBuffers EXCEPT ![s] = keep]
  /\ freeStaticBuffers' = clearMSBs(free1, 4)
  /\ currentlyProvidedStaticBuffers' = free1 \ clearMSBs(free1, 4)
CommandReceived ==
  /\ On("command")
  /\ LET s == sender.who
         mode == ModeAsked(sender.cmdbuf.op) IN
     IF state[s] # "idle" \/ (mode = 1 /\ sendingDisabled) \/ (mode = 2 /\ ~sendingDisabled) THEN Panic
     ELSE /\ latest_PXI_MC5_val' = mode
          /\ sendingDisabled' = (sendingDisabled \/ mode = 1)
          /\ buffer' = [buffer EXCEPT ![s] = sender.cmdbuf]
          /\ state' = [state EXCEPT ![s] = "fromArm11"]
          /\ sender' = [sender EXCEPT !.pc = "send", !.target = None, !.event = "none", !.who = None,
                                      !.cmdbuf = Empty]
          /\ Provided(s)
          /\ UNCHANGED <<handle, pendingArm9Commands, filled, ev, mutex, arm9, client, notSender>>

(* Closing the sessions tells their clients.                                *)
SenderTerminates ==
  /\ On("terminate") \/ sender.pc = "terminate"
  /\ sender' = [sender EXCEPT !.pc = "ended"]
  /\ client' = [s \in Sessions |-> IF handle[s] THEN NoClient ELSE client[s]]
  /\ UNCHANGED <<state, buffer, handle, poolVars, modeVars, ev, mutex, arm9, notSender>>

SenderLoop == Send \/ SenderTransfers \/ SendEnds \/ Reply \/ ReceiveEvent \/ SessionClosed
              \/ SendAllBuffers \/ Arm9Reply \/ CommandReceived \/ SenderTerminates
Sender == SenderLoop \/ SenderAcquires
---------------------------------------------------------------------------
(* The system                                                               *)

Init ==
  /\ state = [s \in Ids |-> "idle"] /\ buffer = [s \in Ids |-> Empty]
  /\ handle = [s \in Sessions |-> FALSE]
  /\ usedStaticBuffers = [s \in Sessions |-> {}] /\ filled = [s \in Sessions |-> {}]
  /\ freeStaticBuffers = clearMSBs(Buffers, 4)
  /\ currentlyProvidedStaticBuffers = Buffers \ clearMSBs(Buffers, 4)
  /\ latest_PXI_MC5_val = 0 /\ pendingArm9Commands = 0 /\ sendingDisabled = FALSE
  /\ ev = [sendAll |-> FALSE, reply |-> 0, command |-> FALSE, replySent |-> FALSE,
           terminate |-> FALSE, sync |-> FALSE]
  /\ mutex = "free"
  /\ main = [pc |-> "wait", id |-> None]
  /\ sender = [pc |-> "send", next |-> 0, target |-> None, event |-> "none", who |-> None,
               cmdbuf |-> Empty, idle |-> {}]
  /\ receiver = [pc |-> "start", id |-> None] /\ handler = "start"
  /\ arm9 = [working |-> {}, fifo |-> <<>>, asking |-> FALSE, done |-> FALSE]
  /\ client = [s \in Sessions |-> NoClient] /\ port = [s \in Sessions |-> FALSE]
  /\ shouldTerminate = FALSE /\ panicked = FALSE
  /\ use \in Uses

Pxi     == Sender \/ Receiver \/ Handler \/ MainRuns
Arm9    == Arm9Asks \/ \E s \in Sessions : Arm9Answers(s)
Clients == \E s \in Sessions : Connect(s) \/ Ask(s) \/ Leave(s)
Done    == main.pc = "ended" /\ UNCHANGED vars
Next    == ~panicked /\ (Pxi \/ ShouldTerminate \/ Arm9 \/ Clients \/ Done)
Spec    == Init /\ [][Next]_vars

(* The kernel schedules the threads and gives the mutex to who waits for    *)
(* it; Process9 answers what it has been sent.                              *)
Fairness ==
  /\ WF_vars(~panicked /\ SenderLoop) /\ WF_vars(~panicked /\ Receiver)
  /\ WF_vars(~panicked /\ Handler) /\ WF_vars(~panicked /\ MainRuns)
  /\ SF_vars(~panicked /\ SenderAcquires) /\ SF_vars(~panicked /\ HandlerAcquires)
  /\ SF_vars(~panicked /\ MainAcquires)
  /\ \A s \in Sessions : WF_vars(~panicked /\ Arm9Answers(s))
FairSpec == Spec /\ Fairness
---------------------------------------------------------------------------
(* Properties                                                               *)

TypeOK ==
  /\ state \in [Ids -> {"idle", "fromArm11", "sentToArm9", "fromArm9"}]
  /\ buffer \in [Ids -> Messages]
  /\ handle \in [Sessions -> BOOLEAN] /\ port \in [Sessions -> BOOLEAN]
  /\ usedStaticBuffers \in [Sessions -> SUBSET Buffers] /\ filled \in [Sessions -> SUBSET Buffers]
  /\ freeStaticBuffers \in SUBSET Buffers /\ currentlyProvidedStaticBuffers \in SUBSET Buffers
  /\ latest_PXI_MC5_val \in 0..2 /\ pendingArm9Commands \in Int
  /\ sendingDisabled \in BOOLEAN /\ shouldTerminate \in BOOLEAN /\ panicked \in BOOLEAN
  /\ use \in Uses
  /\ ev \in [sendAll : BOOLEAN, reply : Nat, command : BOOLEAN, replySent : BOOLEAN,
             terminate : BOOLEAN, sync : BOOLEAN]
  /\ mutex \in {"free", "main", "sender", "handler"}
  /\ main \in [pc : {"wait", "accepted", "last", "acquire", "transfer", "join", "ended"},
               id : Sessions \cup {None}]
  /\ sender \in [pc : {"send", "acquire", "transfer", "reply", "receive", "event", "terminate", "ended"},
                 next : Nat, target : Sessions \cup {None},
                 event : {"none", "closed", "sendAll", "reply", "command", "terminate"},
                 who : Sessions \cup {None}, cmdbuf : Messages, idle : SUBSET Sessions]
  /\ receiver \in [pc : {"start", "wait", "drain", "notify", "await", "ended"}, id : Ids \cup {None}]
  /\ handler \in {"start", "wait", "handle", "acquire", "transfer", "sent", "ended"}
  /\ arm9 \in [working : SUBSET [id : Sessions, msg : Messages],
               fifo : Seq([id : Ids, msg : Messages]), asking : BOOLEAN, done : BOOLEAN]
  /\ client \in [Sessions -> [st : {"none", "open", "asking", "waiting", "closed"}, cmd : Messages]]

(* The semaphore, on which the sender decides to look for a reply, counts    *)
(* the sessions that have one: receiver.c:33 makes one and receiver.c:45     *)
(* tells of it, while sender.c:177 looks for any.                            *)
RepliesAreCounted ==
  Cardinality(Replies) = ev.reply + (IF receiver.pc = "notify" /\ IsReply(receiver.id)
                                         /\ ~IsLast(receiver.id) THEN 1 ELSE 0)
                         + (IF On("reply") THEN 1 ELSE 0)
                         + (IF state[0] = "fromArm9" /\ shouldTerminate THEN 1 ELSE 0)

(* The static buffers are shared out without overlap and none is lost.       *)
BuffersPartitioned ==
  /\ freeStaticBuffers \cap currentlyProvidedStaticBuffers = {}
  /\ freeStaticBuffers \cup currentlyProvidedStaticBuffers
       \cup UNION {usedStaticBuffers[s] : s \in Sessions} = Buffers
  /\ \A s \in Sessions :
       /\ usedStaticBuffers[s] \cap (freeStaticBuffers \cup currentlyProvidedStaticBuffers) = {}
       /\ \A r \in Sessions \ {s} : usedStaticBuffers[s] \cap usedStaticBuffers[r] = {}
(* What a command has brought stays reserved for it until its reply: the     *)
(* kernel filled the lowest buffers on offer, acquireStaticBuffers gives     *)
(* back the highest.                                                         *)
DataIsReserved == \A s \in Sessions : state[s] # "idle" => filled[s] \subseteq usedStaticBuffers[s]
(* Two sessions never share a static buffer, whatever the order of their     *)
(* commands and replies, and no command loses the data it came with.  The    *)
(* second needs four buffers on offer besides those the sessions may hold:   *)
(* PxiProofs states how many that takes.                                     *)
StaticBuffersSound == BuffersPartitioned /\ DataIsReserved

(* The counter that holds pxi:mc 5 back is the number of commands sent and   *)
(* not yet answered, pxi:mc 5 itself excepted.                               *)
InFlight(s) == state[s] \in {"sentToArm9", "fromArm9"} /\ ~(s = 0 /\ shouldTerminate)
PendingIsInFlight ==
  pendingArm9Commands = Cardinality({s \in Sessions : InFlight(s)
                                       /\ ~(s = 0 /\ latest_PXI_MC5_val # 0)})

(* Each client gets the reply of its own request.                            *)
Executed(s) == \/ state[s] = "fromArm9"
               \/ \E i \in DOMAIN arm9.fifo : arm9.fifo[i].id = s
               \/ state[s] = "idle" /\ sender.target = s /\ sender.pc \in {"send", "reply"}
Calls == INSTANCE PxiCalls WITH
  Requests <- Commands, NoRequest <- Empty,
  caller <- [s \in Sessions |-> IF client[s].st = "waiting" THEN client[s].cmd ELSE Empty],
  call <- [s \in Sessions |->
             IF sender.pc = "ended" \/ (s = 0 /\ shouldTerminate) THEN [st |-> "none", cmd |-> Empty]
             ELSE IF Executed(s) THEN [st |-> "executed",
                    cmd |-> IF state[s] = "idle" THEN sender.cmdbuf ELSE
                            IF state[s] = "fromArm9" THEN buffer[s] ELSE
                            (CHOOSE m \in {arm9.fifo[i] : i \in DOMAIN arm9.fifo} : m.id = s).msg]
             ELSE IF On("command") /\ sender.who = s THEN [st |-> "asked", cmd |-> sender.cmdbuf]
             ELSE IF state[s] = "idle" THEN [st |-> "none", cmd |-> Empty]
             ELSE [st |-> "asked", cmd |-> buffer[s]]]
IsCalls == Calls!Spec

(* A command pxi has taken is answered, unless its client has closed the     *)
(* session, or clients of lower sessions keep asking: sender.c:179 answers   *)
(* the lowest session that has a reply, whichever the semaphore counted.     *)
CommandsAreAnswered ==
  \A s \in Sessions :
    (\A r \in 0..(s-1) : <>[](client[r].st # "waiting"))
      => (client[s].st = "waiting" ~> client[s].st # "waiting")

(* Once pm has told pxi to end, it ends, whatever its clients do.            *)
TerminationCompletes == shouldTerminate ~> main.pc = "ended"
=============================================================================
