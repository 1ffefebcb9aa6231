----------------------------- MODULE PxiProofs -----------------------------
(***************************************************************************)
(* The sessions of pxi, for any number of them and any shares of static     *)
(* buffers: types, the replies the semaphore counts, and the pool.          *)
(***************************************************************************)
EXTENDS PxiServer, FiniteSetTheorems, WellFoundedInduction, TLAPS

(* Every set of sessions has a first: svcWaitSynchronizationN and the loops  *)
(* of the sender find one.                                                  *)
LEMMA LeastIsMember ==
  ASSUME NEW S \in SUBSET Sessions, S # {}
  PROVE  Least(S) \in S
<1> DEFINE R == {ss \in Nat \X Nat : ss[1] < ss[2]}
<1>1. IsWellFoundedOn(R, Nat)
  BY NatLessThanWellFounded DEF OpToRel
<1>2. S \subseteq Nat
  BY PxiAssumption DEF Sessions
<1>3. \E x \in S : \A y \in S : ~(<<y, x>> \in R)
  <2> HIDE DEF R
  <2> QED BY <1>1, <1>2, WFMin
<1>4. PICK x \in S : \A y \in S : ~(<<y, x>> \in R)
  BY <1>3
<1>5. \A y \in S : x <= y
  <2> TAKE y \in S
  <2>1. x \in Nat /\ y \in Nat /\ ~(y < x)
    BY <1>2, <1>4
  <2> QED BY <2>1
<1> QED BY <1>5 DEF Least

LEMMA SessionIds ==
  /\ Sessions \subseteq Ids /\ Srv11 \in Ids /\ Srv11 \notin Sessions
  /\ 0 \in Sessions /\ Sessions \subseteq Nat /\ IsFiniteSet(Sessions) /\ None \notin Sessions
BY PxiAssumption, FS_Interval DEF Sessions, Ids, Srv11, None

---------------------------------------------------------------------------
(* Types.  Where a thread is says which of its variables hold a session.     *)

Located ==
  /\ main.pc = "accepted" => main.id \in Sessions
  /\ sender.pc \in {"acquire", "transfer"} => sender.next \in Sessions
  /\ On("closed") \/ On("command") => sender.who \in Sessions
  /\ receiver.pc = "notify" => receiver.id \in Ids
TypeInv == TypeOK /\ Located

(* The parts of TypeOK, by the thread or the object they belong to           *)
SessionType == /\ state \in [Ids -> {"idle", "fromArm11", "sentToArm9", "fromArm9"}]
               /\ buffer \in [Ids -> Messages]
               /\ handle \in [Sessions -> BOOLEAN] /\ port \in [Sessions -> BOOLEAN]
PoolType    == /\ usedStaticBuffers \in [Sessions -> SUBSET Buffers]
               /\ filled \in [Sessions -> SUBSET Buffers]
               /\ freeStaticBuffers \in SUBSET Buffers
               /\ currentlyProvidedStaticBuffers \in SUBSET Buffers
ModeType    == latest_PXI_MC5_val \in 0..2 /\ pendingArm9Commands \in Int
FlagType    == /\ sendingDisabled \in BOOLEAN /\ shouldTerminate \in BOOLEAN
               /\ panicked \in BOOLEAN /\ use \in Uses
EventType   == /\ ev \in [sendAll : BOOLEAN, reply : Nat, command : BOOLEAN, replySent : BOOLEAN,
                          terminate : BOOLEAN, sync : BOOLEAN]
               /\ mutex \in {"free", "main", "sender", "handler"}
MainType    == main \in [pc : {"wait", "accepted", "last", "acquire", "transfer", "join", "ended"},
                         id : Sessions \cup {None}]
SenderType  == sender \in [pc : {"send", "acquire", "transfer", "reply", "receive", "event",
                                "terminate", "ended"},
                          next : Nat, target : Sessions \cup {None},
                          event : {"none", "closed", "sendAll", "reply", "command", "terminate"},
                          who : Sessions \cup {None}, cmdbuf : Messages, idle : SUBSET Sessions]
OtherType   == /\ receiver \in [pc : {"start", "wait", "drain", "notify", "await", "ended"},
                                id : Ids \cup {None}]
               /\ handler \in {"start", "wait", "handle", "acquire", "transfer", "sent", "ended"}
Arm9Type    == arm9 \in [working : SUBSET [id : Sessions, msg : Messages],
                         fifo : Seq([id : Ids, msg : Messages]), asking : BOOLEAN, done : BOOLEAN]
ClientType  == client \in [Sessions -> [st : {"none", "open", "asking", "waiting", "closed"},
                                        cmd : Messages]]

LEMMA TypeParts ==
  TypeOK <=> /\ SessionType /\ PoolType /\ ModeType /\ FlagType /\ EventType /\ MainType
             /\ SenderType /\ OtherType /\ Arm9Type /\ ClientType
BY DEF TypeOK, SessionType, PoolType, ModeType, FlagType, EventType, MainType, SenderType, OtherType,
       Arm9Type, ClientType

LEMMA TypePartsNext ==
  TypeOK' <=> /\ SessionType' /\ PoolType' /\ ModeType' /\ FlagType' /\ EventType' /\ MainType'
              /\ SenderType' /\ OtherType' /\ Arm9Type' /\ ClientType'
BY DEF TypeOK, SessionType, PoolType, ModeType, FlagType, EventType, MainType, SenderType, OtherType,
       Arm9Type, ClientType

LEMMA MessagesOK ==
  /\ Empty \in Messages /\ Last \in Messages
  /\ Commands \subseteq Messages /\ Requests9 \subseteq Messages
BY DEF Messages

LEMMA InitType == Init => TypeInv
<1> SUFFICES ASSUME Init PROVE TypeInv
  OBVIOUS
<1>1. SessionType
  BY MessagesOK DEF Init, SessionType
<1>2. PoolType
  BY DEF Init, PoolType, clearMSBs
<1>3. ModeType
  BY DEF Init, ModeType
<1>9. FlagType
  BY Zenon DEF Init, FlagType
<1>8. EventType /\ MainType
  BY DEF Init, EventType, MainType
<1>4. SenderType /\ OtherType
  BY MessagesOK DEF Init, SenderType, OtherType
<1>5. Arm9Type
  BY DEF Init, Arm9Type
<1>6. ClientType
  BY MessagesOK DEF Init, ClientType, NoClient
<1>7. Located
  BY DEF Init, Located, On
<1> QED BY <1>1, <1>2, <1>3, <1>4, <1>5, <1>6, <1>7, <1>8, <1>9, TypeParts DEF TypeInv

LEMMA ChosenSessions ==
  ASSUME TypeInv
  PROVE  /\ Replies # {} => Answered \in Replies
         /\ ToSend # {} => Least(ToSend) \in ToSend
         /\ Readable # {} => Least(Readable) \in Readable
<1>1. Replies \subseteq Sessions /\ ToSend \subseteq Sessions
  BY DEF Replies, ToSend
<1>2. Readable \subseteq Sessions
  BY TypeParts DEF TypeInv, SenderType, Readable
<1> QED BY <1>1, <1>2, LeastIsMember DEF Answered

(* What the receiver reads is a message, and the sender knows whose a       *)
(* command is.                                                              *)
LEMMA KnownIds ==
  ASSUME TypeInv
  PROVE  /\ arm9.fifo # <<>> => Head(arm9.fifo).id \in Ids /\ Head(arm9.fifo).msg \in Messages
         /\ On("command") => sender.who \in Sessions
<1>1. arm9.fifo \in Seq([id : Ids, msg : Messages])
  BY TypeParts DEF TypeInv, Arm9Type
<1>2. \A S, q : q \in Seq(S) /\ q # <<>> => Head(q) \in S
  OBVIOUS
<1>3. arm9.fifo # <<>> => Head(arm9.fifo) \in [id : Ids, msg : Messages]
  BY <1>1, <1>2, Zenon
<1> QED BY <1>3 DEF TypeInv, Located

(* Which actions concern main, the sender and the receiver                   *)
LEMMA StepsOfMain ==
  Next => \/ UNCHANGED main \/ \E s \in Sessions : Accept(s)
          \/ Accepted \/ ShouldTerminate \/ MainLast \/ MainAcquires \/ MainTransfers \/ MainJoins
BY DEF Next, Pxi, Sender, SenderLoop, Receiver, Handler, MainRuns, Arm9, Clients, Done, vars, clientVars, ends,
   Connect, Ask, Leave, ClientSteps, Arm9Answers, Arm9Asks, Arm9Sends, Panic,
   notReceiver, ReceiverStarts, ReceiverWakes, ReceiverDrained, Receive, Notify, ReceiverAwaits,
   notHandler, HandlerStarts, HandlerWakes, Handle, HandlerAcquires, HandlerTransfers, HandlerReplied,
   notSender, Send, SenderAcquires, SenderTransfers, SendEnds, Reply, ReceiveEvent, SessionClosed, SendAllBuffers,
   Arm9Reply, CommandReceived, SenderTerminates

LEMMA StepsOfSender ==
  Next => \/ UNCHANGED sender \/ Send \/ SenderAcquires \/ SenderTransfers \/ SendEnds \/ Reply
          \/ ReceiveEvent \/ SessionClosed \/ SendAllBuffers \/ Arm9Reply \/ CommandReceived
          \/ SenderTerminates
BY DEF Next, Pxi, Sender, SenderLoop, Receiver, Handler, MainRuns, Arm9, Clients, Done, vars, clientVars, ends,
   Connect, Ask, Leave, ClientSteps, Arm9Answers, Arm9Asks, Arm9Sends, Panic,
   notReceiver, ReceiverStarts, ReceiverWakes, ReceiverDrained, Receive, Notify, ReceiverAwaits,
   notHandler, HandlerStarts, HandlerWakes, Handle, HandlerAcquires, HandlerTransfers, HandlerReplied,
   notMain, Accept, Accepted, MainLast, MainAcquires, MainTransfers, MainJoins, ShouldTerminate

LEMMA StepsOfReceiver ==
  Next => \/ UNCHANGED receiver \/ ReceiverStarts \/ ReceiverWakes \/ ReceiverDrained \/ Receive
          \/ Notify \/ ReceiverAwaits
BY DEF Next, Pxi, Sender, SenderLoop, Receiver, Handler, MainRuns, Arm9, Clients, Done, vars, clientVars, ends,
   Connect, Ask, Leave, ClientSteps, Arm9Answers, Arm9Asks, Arm9Sends, Panic,
   notHandler, HandlerStarts, HandlerWakes, Handle, HandlerAcquires, HandlerTransfers, HandlerReplied,
   notMain, Accept, Accepted, MainLast, MainAcquires, MainTransfers, MainJoins, ShouldTerminate,
   notSender, Send, SenderAcquires, SenderTransfers, SendEnds, Reply, ReceiveEvent, SessionClosed, SendAllBuffers,
   Arm9Reply, CommandReceived, SenderTerminates

LEMMA SessionTypeStep == TypeInv /\ Next => SessionType'
<1> SUFFICES ASSUME TypeInv, Next PROVE SessionType'
  OBVIOUS
<1> USE SessionIds, MessagesOK, TypeParts DEF TypeInv, SessionType, clientVars
<1>1. CASE UNCHANGED <<state, buffer, handle, port>>
  BY <1>1 DEF poolVars, modeVars
<1>2. ASSUME NEW s \in Sessions, Connect(s) PROVE SessionType'
  BY <1>2 DEF Connect, ClientSteps
<1>3. CASE Receive
  BY <1>3, KnownIds DEF Receive, Panic, notReceiver
<1>4. CASE HandlerStarts
  BY <1>4 DEF HandlerStarts, notHandler
<1>5. CASE Handle
  BY <1>5 DEF Handle, Panic, notHandler
<1>6. CASE HandlerReplied
  BY <1>6 DEF HandlerReplied, Replied, notHandler
<1>7. ASSUME NEW s \in Sessions, Accept(s) PROVE SessionType'
  BY <1>7 DEF Accept, notMain
<1>8. CASE Accepted
  BY <1>8 DEF Accepted, Panic, notMain
<1>9. CASE MainLast
  BY <1>9 DEF MainLast, notMain
<1>10. CASE Send
  BY <1>10, ChosenSessions DEF Send, notSender, Readable, ToSend, Replies
<1>11. CASE SessionClosed
  BY <1>11 DEF SessionClosed, Continue, NoClient, notSender
<1>12. CASE Arm9Reply
  BY <1>12, ChosenSessions DEF Arm9Reply, Panic, notSender, Readable, ToSend, Replies
<1>13. CASE CommandReceived
  <2>1. sender.who \in Sessions /\ sender.cmdbuf \in Messages
    BY <1>13, KnownIds DEF CommandReceived, SenderType
  <2> QED BY <1>13, <2>1 DEF CommandReceived, Panic, notSender
<1> QED
  BY <1>1, <1>2, <1>3, <1>4, <1>5, <1>6, <1>7, <1>8, <1>9, <1>10, <1>11, <1>12, <1>13 DEF
    Next, Pxi, Sender, SenderLoop, Receiver, Handler, MainRuns, Arm9, Clients, Done, vars,
    poolVars, modeVars, clientVars, ends, Ask, ClientSteps, Leave, Arm9Answers, Arm9Sends,
    Arm9Asks, ReceiverStarts, notReceiver, ReceiverWakes, ReceiverDrained, Notify,
    ReceiverAwaits, Panic, HandlerWakes, notHandler, HandlerAcquires, Acquire,
    HandlerTransfers, Transferred, MainAcquires, notMain, MainTransfers, LastFrom,
    MainJoins, ShouldTerminate, SenderAcquires, notSender, SenderTransfers, SendEnds,
    Reply, ReceiveEvent, SendAllBuffers, SenderTerminates

LEMMA PoolTypeStep == TypeInv /\ Next => PoolType'
<1> SUFFICES ASSUME TypeInv, Next PROVE PoolType'
  OBVIOUS
<1> USE SessionIds, MessagesOK, TypeParts DEF TypeInv, PoolType, poolVars
<1>1. CASE UNCHANGED <<poolVars>>
  BY <1>1 DEF poolVars, modeVars
<1>2. CASE ReceiveEvent
  BY <1>2, ChosenSessions DEF ReceiveEvent, Happens, Lowest, notSender, Lowest, Readable, ToSend, Replies
<1>3. CASE Arm9Reply
  BY <1>3, ChosenSessions DEF Arm9Reply, Panic, notSender, Released, Readable, ToSend, Replies
<1>4. CASE CommandReceived
  <2>1. sender.who \in Sessions
    BY <1>4, KnownIds DEF CommandReceived
  <2>2. \A val \in SUBSET Buffers : \A nb : clearMSBs(val, nb) \in SUBSET Buffers
    BY DEF clearMSBs
  <2> QED BY <1>4, <2>1, <2>2 DEF CommandReceived, Panic, notSender, Provided
<1> QED
  BY <1>1, <1>2, <1>3, <1>4 DEF Next, Pxi, Sender, SenderLoop, Receiver, Handler,
    MainRuns, Arm9, Clients, Done, vars, poolVars, modeVars, clientVars, ends, Connect,
    ClientSteps, Ask, Leave, Arm9Answers, Arm9Sends, Arm9Asks, ReceiverStarts,
    notReceiver, ReceiverWakes, ReceiverDrained, Receive, Panic, Notify, ReceiverAwaits,
    HandlerStarts, notHandler, HandlerWakes, Handle, HandlerAcquires, Acquire,
    HandlerTransfers, Transferred, HandlerReplied, Replied, Accept, notMain, Accepted,
    MainLast, MainAcquires, MainTransfers, LastFrom, MainJoins, ShouldTerminate, Send,
    notSender, SenderAcquires, SenderTransfers, SendEnds, Reply, SessionClosed,
    SendAllBuffers, SenderTerminates

LEMMA ModeTypeStep == TypeInv /\ Next => ModeType'
<1> SUFFICES ASSUME TypeInv, Next PROVE ModeType'
  OBVIOUS
<1> USE SessionIds, MessagesOK, TypeParts DEF TypeInv, ModeType, modeVars
<1>1. CASE UNCHANGED <<latest_PXI_MC5_val, pendingArm9Commands>>
  BY <1>1 DEF poolVars, modeVars
<1>2. CASE Send
  BY <1>2, ChosenSessions DEF Send, notSender, Readable, ToSend, Replies
<1>3. CASE Arm9Reply
  BY <1>3, ChosenSessions DEF Arm9Reply, Panic, notSender, ReplyCounted, Readable, ToSend, Replies
<1>4. CASE CommandReceived
  BY <1>4 DEF CommandReceived, Panic, notSender, ModeAsked
<1> QED
  BY <1>1, <1>2, <1>3, <1>4 DEF Next, Pxi, Sender, SenderLoop, Receiver, Handler,
    MainRuns, Arm9, Clients, Done, vars, poolVars, modeVars, clientVars, ends, Connect,
    ClientSteps, Ask, Leave, Arm9Answers, Arm9Sends, Arm9Asks, ReceiverStarts,
    notReceiver, ReceiverWakes, ReceiverDrained, Receive, Panic, Notify, ReceiverAwaits,
    HandlerStarts, notHandler, HandlerWakes, Handle, HandlerAcquires, Acquire,
    HandlerTransfers, Transferred, HandlerReplied, Replied, Accept, notMain, Accepted,
    MainLast, MainAcquires, MainTransfers, LastFrom, MainJoins, ShouldTerminate,
    SenderAcquires, notSender, SenderTransfers, SendEnds, Reply, ReceiveEvent,
    SessionClosed, SendAllBuffers, SenderTerminates

LEMMA FlagTypeStep == TypeInv /\ Next => FlagType'
<1> SUFFICES ASSUME TypeInv, Next PROVE FlagType'
  OBVIOUS
<1> USE SessionIds, MessagesOK, TypeParts DEF TypeInv, FlagType, modeVars, ends
<1>1. CASE UNCHANGED <<sendingDisabled, shouldTerminate, panicked, use>>
  BY <1>1 DEF poolVars, modeVars
<1>2. CASE Receive
  BY <1>2 DEF Receive, Panic, notReceiver
<1>3. CASE ReceiverAwaits
  BY <1>3 DEF ReceiverAwaits, Panic, notReceiver
<1>4. CASE Handle
  BY <1>4 DEF Handle, Panic, notHandler
<1>5. CASE HandlerAcquires
  BY <1>5 DEF HandlerAcquires, Acquire, Panic, notHandler
<1>6. CASE Accepted
  BY <1>6 DEF Accepted, Panic, notMain
<1>7. CASE ShouldTerminate
  BY <1>7 DEF ShouldTerminate, notMain
<1>8. CASE Arm9Reply
  BY <1>8, ChosenSessions DEF Arm9Reply, Panic, notSender, ReplyCounted, Readable, ToSend, Replies
<1>9. CASE CommandReceived
  BY <1>9 DEF CommandReceived, Panic, notSender, ModeAsked
<1> QED
  BY <1>1, <1>2, <1>3, <1>4, <1>5, <1>6, <1>7, <1>8, <1>9 DEF Next, Pxi, Sender,
    SenderLoop, Receiver, Handler, MainRuns, Arm9, Clients, Done, vars, poolVars,
    modeVars, clientVars, ends, Connect, ClientSteps, Ask, Leave, Arm9Answers, Arm9Sends,
    Arm9Asks, ReceiverStarts, notReceiver, ReceiverWakes, ReceiverDrained, Notify,
    HandlerStarts, notHandler, HandlerWakes, HandlerTransfers, Transferred,
    HandlerReplied, Replied, Accept, notMain, MainLast, MainAcquires, Acquire,
    MainTransfers, LastFrom, MainJoins, Send, notSender, SenderAcquires, SenderTransfers,
    SendEnds, Reply, ReceiveEvent, SessionClosed, SendAllBuffers, SenderTerminates

LEMMA EventTypeStep == TypeInv /\ Next => EventType'
<1> SUFFICES ASSUME TypeInv, Next PROVE EventType'
  OBVIOUS
<1> USE SessionIds, MessagesOK, TypeParts DEF TypeInv, EventType
<1>1. CASE UNCHANGED <<ev, mutex>>
  BY <1>1 DEF poolVars, modeVars
<1>2. ASSUME NEW s \in Sessions, Arm9Answers(s) PROVE EventType'
  BY <1>2 DEF Arm9Answers, Arm9Sends
<1>3. CASE Arm9Asks
  BY <1>3 DEF Arm9Asks, Arm9Sends
<1>4. CASE ReceiverStarts
  BY <1>4 DEF ReceiverStarts, notReceiver
<1>5. CASE ReceiverWakes
  BY <1>5 DEF ReceiverWakes, notReceiver
<1>6. CASE Notify
  <2>1. \/ ev' = [ev EXCEPT !.terminate = TRUE] \/ ev' = [ev EXCEPT !.reply = ev.reply + 1]
        \/ ev' = [ev EXCEPT !.command = TRUE]
    BY <1>6 DEF Notify
  <2>2. ev.reply + 1 \in Nat
    OBVIOUS
  <2>3. UNCHANGED mutex
    BY <1>6 DEF Notify, notReceiver
  <2> QED BY <2>1, <2>2, <2>3
<1>7. CASE ReceiverAwaits
  BY <1>7 DEF ReceiverAwaits, Panic, notReceiver
<1>8. CASE HandlerStarts
  BY <1>8 DEF HandlerStarts, notHandler
<1>9. CASE HandlerWakes
  BY <1>9 DEF HandlerWakes, notHandler
<1>10. CASE HandlerAcquires
  BY <1>10 DEF HandlerAcquires, Acquire, Panic, notHandler
<1>11. CASE HandlerTransfers
  BY <1>11 DEF HandlerTransfers, Transferred, notHandler
<1>12. CASE HandlerReplied
  BY <1>12 DEF HandlerReplied, Replied, notHandler
<1>13. CASE Accepted
  BY <1>13 DEF Accepted, Panic, notMain
<1>14. CASE MainAcquires
  BY <1>14 DEF MainAcquires, Acquire, notMain
<1>15. CASE MainTransfers
  BY <1>15 DEF MainTransfers, Transferred, LastFrom, notMain
<1>16. CASE SenderAcquires
  BY <1>16 DEF SenderAcquires, Acquire, notSender
<1>17. CASE SenderTransfers
  BY <1>17 DEF SenderTransfers, Transferred, notSender
<1>18. CASE ReceiveEvent
  <2>1. \/ ev' = ev \/ ev' = [ev EXCEPT !.sendAll = FALSE]
        \/ ev.reply > 0 /\ ev' = [ev EXCEPT !.reply = ev.reply - 1]
    BY <1>18 DEF ReceiveEvent
  <2>2. ev.reply > 0 => ev.reply - 1 \in Nat
    OBVIOUS
  <2>3. UNCHANGED mutex
    BY <1>18 DEF ReceiveEvent
  <2> QED BY <2>1, <2>2, <2>3
<1> QED
  BY <1>1, <1>2, <1>3, <1>4, <1>5, <1>6, <1>7, <1>8, <1>9, <1>10, <1>11, <1>12, <1>13,
    <1>14, <1>15, <1>16, <1>17, <1>18 DEF Next, Pxi, Sender, SenderLoop, Receiver,
    Handler, MainRuns, Arm9, Clients, Done, vars, poolVars, modeVars, clientVars, ends,
    Connect, ClientSteps, Ask, Leave, ReceiverDrained, notReceiver, Receive, Panic,
    Handle, notHandler, Accept, notMain, MainLast, MainJoins, ShouldTerminate, Send,
    notSender, SendEnds, Reply, SessionClosed, SendAllBuffers, Arm9Reply, CommandReceived,
    SenderTerminates

LEMMA MainTypeStep == TypeInv /\ Next => MainType'
<1> SUFFICES ASSUME TypeInv, Next PROVE MainType'
  OBVIOUS
<1> USE SessionIds, MessagesOK, TypeParts DEF TypeInv, MainType
<1>1. CASE UNCHANGED <<main>>
  BY <1>1 DEF poolVars, modeVars
<1>2. ASSUME NEW s \in Sessions, Accept(s) PROVE MainType'
  BY <1>2 DEF Accept, notMain
<1>3. CASE Accepted
  BY <1>3 DEF Accepted, Panic, notMain
<1>4. CASE MainLast
  BY <1>4 DEF MainLast, notMain
<1>5. CASE MainAcquires
  BY <1>5 DEF MainAcquires, Acquire, notMain
<1>6. CASE MainTransfers
  BY <1>6 DEF MainTransfers, Transferred, LastFrom, notMain
<1>7. CASE MainJoins
  BY <1>7 DEF MainJoins, notMain
<1>8. CASE ShouldTerminate
  BY <1>8 DEF ShouldTerminate, notMain
<1> QED
  BY <1>1, <1>2, <1>3, <1>4, <1>5, <1>6, <1>7, <1>8 DEF Next, Pxi, Sender, SenderLoop,
    Receiver, Handler, MainRuns, Arm9, Clients, Done, vars, poolVars, modeVars,
    clientVars, ends, Connect, ClientSteps, Ask, Leave, Arm9Answers, Arm9Sends, Arm9Asks,
    ReceiverStarts, notReceiver, ReceiverWakes, ReceiverDrained, Receive, Panic, Notify,
    ReceiverAwaits, HandlerStarts, notHandler, HandlerWakes, Handle, HandlerAcquires,
    Acquire, HandlerTransfers, Transferred, HandlerReplied, Replied, Send, notSender,
    SenderAcquires, SenderTransfers, SendEnds, Reply, ReceiveEvent, SessionClosed,
    SendAllBuffers, Arm9Reply, CommandReceived, SenderTerminates

LEMMA SenderTypeStep == TypeInv /\ Next => SenderType'
<1> SUFFICES ASSUME TypeInv, Next PROVE SenderType'
  OBVIOUS
<1> USE SessionIds, MessagesOK, TypeParts DEF TypeInv, SenderType
<1>1. CASE UNCHANGED <<sender>>
  BY <1>1 DEF poolVars, modeVars
<1>2. CASE Send
  BY <1>2, ChosenSessions DEF Send, notSender, Readable, ToSend, Replies
<1>3. CASE SenderAcquires
  BY <1>3 DEF SenderAcquires, Acquire, notSender
<1>4. CASE SenderTransfers
  <2>1. sender.next + 1 \in Nat
    OBVIOUS
  <2> QED BY <1>4, <2>1 DEF SenderTransfers
<1>5. CASE SendEnds
  BY <1>5 DEF SendEnds, notSender
<1>6. CASE Reply
  BY <1>6, ZenonT(30) DEF Reply, Happens, NoClient, notSender
<1>7. CASE ReceiveEvent
  <2>1. \/ \E e \in {"terminate", "sendAll", "reply"} : sender' = Happens(e, None)
        \/ \E s \in Sessions : sender' = Happens("closed", s)
        \/ \E s \in Sessions : sender' = [Happens("command", s) EXCEPT !.cmdbuf = client[s].cmd]
    BY <1>7, ChosenSessions DEF ReceiveEvent, Readable
  <2>2. \A s \in Sessions : client[s].cmd \in Messages
    BY DEF ClientType
  <2> QED BY <2>1, <2>2, ZenonT(30) DEF Happens
<1>8. CASE SessionClosed
  BY <1>8 DEF SessionClosed, Continue, NoClient, notSender
<1>9. CASE SendAllBuffers
  BY <1>9 DEF SendAllBuffers, Continue, notSender
<1>10. CASE Arm9Reply
  <2>1. CASE UNCHANGED sender
    BY <2>1
  <2>2. CASE Replies # {}
    <3>1. Answered \in Sessions /\ buffer[Answered] \in Messages
      BY <2>2, ChosenSessions DEF Replies, SessionType
    <3> DEFINE Got(t) == [sender EXCEPT !.pc = "send", !.target = t, !.event = "none",
                                        !.cmdbuf = buffer[Answered]]
    <3>2. sender' \in {sender, Got(Answered), Got(None)}
      BY <1>10, <2>2 DEF Arm9Reply, Panic
    <3> QED BY <3>1, <3>2
  <2> QED BY <1>10, <2>1, <2>2 DEF Arm9Reply, Panic
<1>11. CASE CommandReceived
  <2>1. \/ UNCHANGED sender
        \/ sender' = [sender EXCEPT !.pc = "send", !.target = None, !.event = "none", !.who = None,
                                    !.cmdbuf = Empty]
    BY <1>11 DEF CommandReceived, Panic
  <2> QED BY <2>1
<1>12. CASE SenderTerminates
  BY <1>12 DEF SenderTerminates, NoClient, notSender
<1> QED
  BY <1>1, <1>2, <1>3, <1>4, <1>5, <1>6, <1>7, <1>8, <1>9, <1>10, <1>11, <1>12 DEF Next,
    Pxi, Sender, SenderLoop, Receiver, Handler, MainRuns, Arm9, Clients, Done, vars,
    poolVars, modeVars, clientVars, ends, Connect, ClientSteps, Ask, Leave, Arm9Answers,
    Arm9Sends, Arm9Asks, ReceiverStarts, notReceiver, ReceiverWakes, ReceiverDrained,
    Receive, Panic, Notify, ReceiverAwaits, HandlerStarts, notHandler, HandlerWakes,
    Handle, HandlerAcquires, Acquire, HandlerTransfers, Transferred, HandlerReplied,
    Replied, Accept, notMain, Accepted, MainLast, MainAcquires, MainTransfers, LastFrom,
    MainJoins, ShouldTerminate

LEMMA OtherTypeStep == TypeInv /\ Next => OtherType'
<1> SUFFICES ASSUME TypeInv, Next PROVE OtherType'
  OBVIOUS
<1> USE SessionIds, MessagesOK, TypeParts DEF TypeInv, OtherType
<1>1. CASE UNCHANGED <<receiver, handler>>
  BY <1>1 DEF poolVars, modeVars
<1>2. CASE ReceiverStarts
  BY <1>2 DEF ReceiverStarts, notReceiver
<1>3. CASE ReceiverWakes
  BY <1>3 DEF ReceiverWakes, notReceiver
<1>4. CASE ReceiverDrained
  BY <1>4 DEF ReceiverDrained, notReceiver
<1>5. CASE Receive
  BY <1>5, KnownIds DEF Receive, Panic, notReceiver
<1>6. CASE Notify
  BY <1>6 DEF Notify, notReceiver
<1>7. CASE ReceiverAwaits
  BY <1>7 DEF ReceiverAwaits, Panic, notReceiver
<1>8. CASE HandlerStarts
  BY <1>8 DEF HandlerStarts, notHandler
<1>9. CASE HandlerWakes
  BY <1>9 DEF HandlerWakes, notHandler
<1>10. CASE Handle
  BY <1>10 DEF Handle, Panic, notHandler
<1>11. CASE HandlerAcquires
  BY <1>11 DEF HandlerAcquires, Acquire, Panic, notHandler
<1>12. CASE HandlerTransfers
  BY <1>12 DEF HandlerTransfers, Transferred, notHandler
<1>13. CASE HandlerReplied
  BY <1>13 DEF HandlerReplied, Replied, notHandler
<1> QED
  BY <1>1, <1>2, <1>3, <1>4, <1>5, <1>6, <1>7, <1>8, <1>9, <1>10, <1>11, <1>12, <1>13 DEF
    Next, Pxi, Sender, SenderLoop, Receiver, Handler, MainRuns, Arm9, Clients, Done, vars,
    poolVars, modeVars, clientVars, ends, Connect, ClientSteps, Ask, Leave, Arm9Answers,
    Arm9Sends, Arm9Asks, Accept, notMain, Accepted, Panic, MainLast, MainAcquires,
    Acquire, MainTransfers, Transferred, LastFrom, MainJoins, ShouldTerminate, Send,
    notSender, SenderAcquires, SenderTransfers, SendEnds, Reply, ReceiveEvent,
    SessionClosed, SendAllBuffers, Arm9Reply, CommandReceived, SenderTerminates

LEMMA SentType ==
  ASSUME Arm9Type, NEW m \in [id : Ids, msg : Messages], Arm9Sends(m)
  PROVE  Arm9Type'
<1>1. Append(arm9.fifo, m) \in Seq([id : Ids, msg : Messages])
  BY DEF Arm9Type
<1>2. arm9.working \ {m} \in SUBSET [id : Sessions, msg : Messages]
  BY DEF Arm9Type
<1> QED BY <1>1, <1>2 DEF Arm9Sends, Arm9Type

LEMMA Arm9TypeStep == TypeInv /\ Next => Arm9Type'
<1> SUFFICES ASSUME TypeInv, Next PROVE Arm9Type'
  OBVIOUS
<1> USE SessionIds, MessagesOK, TypeParts DEF TypeInv, Arm9Type
<1>1. CASE UNCHANGED <<arm9>>
  BY <1>1 DEF poolVars, modeVars
<1>2. ASSUME NEW s \in Sessions, Arm9Answers(s) PROVE Arm9Type'
  <2>1. PICK m \in arm9.working : Arm9Sends(m)
    BY <1>2 DEF Arm9Answers
  <2>2. m \in [id : Ids, msg : Messages]
    OBVIOUS
  <2> QED BY <2>1, <2>2, SentType
<1>3. CASE Arm9Asks
  <2>1. PICK m \in Requests9 : Arm9Sends([id |-> Srv11, msg |-> m])
    BY <1>3 DEF Arm9Asks
  <2>2. [id |-> Srv11, msg |-> m] \in [id : Ids, msg : Messages]
    OBVIOUS
  <2> QED BY <2>1, <2>2, SentType
<1>4. CASE Receive
  <2>1. arm9.fifo # <<>> => Tail(arm9.fifo) \in Seq([id : Ids, msg : Messages])
    OBVIOUS
  <2> QED BY <1>4, <2>1 DEF Receive, Panic, notReceiver
<1>5. CASE HandlerTransfers
  BY <1>5 DEF HandlerTransfers, Transferred, notHandler
<1>6. CASE MainTransfers
  BY <1>6 DEF MainTransfers, Transferred, LastFrom, notMain
<1>7. CASE SenderTransfers
  <2>1. buffer[sender.next] \in Messages /\ sender.next \in Sessions
    BY <1>7 DEF SenderTransfers, Located, SessionType
  <2> QED BY <1>7, <2>1 DEF SenderTransfers, Transferred
<1> QED
  BY <1>1, <1>2, <1>3, <1>4, <1>5, <1>6, <1>7 DEF Next, Pxi, Sender, SenderLoop, Receiver,
    Handler, MainRuns, Arm9, Clients, Done, vars, poolVars, modeVars, clientVars, ends,
    Connect, ClientSteps, Ask, Leave, ReceiverStarts, notReceiver, ReceiverWakes,
    ReceiverDrained, Notify, ReceiverAwaits, Panic, HandlerStarts, notHandler,
    HandlerWakes, Handle, HandlerAcquires, Acquire, HandlerReplied, Replied, Accept,
    notMain, Accepted, MainLast, MainAcquires, MainJoins, ShouldTerminate, Send,
    notSender, SenderAcquires, SendEnds, Reply, ReceiveEvent, SessionClosed,
    SendAllBuffers, Arm9Reply, CommandReceived, SenderTerminates

LEMMA ClientTypeStep == TypeInv /\ Next => ClientType'
<1> SUFFICES ASSUME TypeInv, Next PROVE ClientType'
  OBVIOUS
<1> USE SessionIds, MessagesOK, TypeParts DEF TypeInv, ClientType, clientVars
<1>1. CASE UNCHANGED <<client>>
  BY <1>1 DEF poolVars, modeVars
<1>2. ASSUME NEW s \in Sessions, Connect(s) PROVE ClientType'
  BY <1>2 DEF Connect, ClientSteps
<1>3. ASSUME NEW s \in Sessions, Ask(s) PROVE ClientType'
  BY <1>3 DEF Ask, ClientSteps
<1>4. ASSUME NEW s \in Sessions, Leave(s) PROVE ClientType'
  BY <1>4 DEF Leave, ClientSteps, NoClient
<1>5. CASE Reply
  BY <1>5 DEF Reply, Happens, NoClient, notSender
<1>6. CASE ReceiveEvent
  <2>1. client' = client \/ \E s \in Sessions : client' = [client EXCEPT ![s].st = "waiting"]
    BY <1>6, ChosenSessions DEF ReceiveEvent, Readable, SenderType
  <2> QED BY <2>1
<1>7. CASE SessionClosed
  BY <1>7 DEF SessionClosed, Continue, NoClient, notSender
<1>8. CASE SenderTerminates
  BY <1>8 DEF SenderTerminates, NoClient, notSender
<1> QED
  BY <1>1, <1>2, <1>3, <1>4, <1>5, <1>6, <1>7, <1>8 DEF Next, Pxi, Sender, SenderLoop,
    Receiver, Handler, MainRuns, Arm9, Clients, Done, vars, poolVars, modeVars,
    clientVars, ends, Arm9Answers, Arm9Sends, Arm9Asks, ReceiverStarts, notReceiver,
    ReceiverWakes, ReceiverDrained, Receive, Panic, Notify, ReceiverAwaits, HandlerStarts,
    notHandler, HandlerWakes, Handle, HandlerAcquires, Acquire, HandlerTransfers,
    Transferred, HandlerReplied, Replied, Accept, notMain, Accepted, MainLast,
    MainAcquires, MainTransfers, LastFrom, MainJoins, ShouldTerminate, Send, notSender,
    SenderAcquires, SenderTransfers, SendEnds, SendAllBuffers, Arm9Reply, CommandReceived

LEMMA LocatedStep == TypeInv /\ Next => Located'
<1> SUFFICES ASSUME TypeInv, Next PROVE Located'
  OBVIOUS
<1> USE SessionIds, TypeParts DEF TypeInv, Located
<1>1. (main.pc = "accepted" => main.id \in Sessions)'
  <2>1. CASE UNCHANGED main
    BY <2>1
  <2>2. ASSUME NEW s \in Sessions, Accept(s) PROVE main'.id \in Sessions
    BY <2>2 DEF Accept
  <2>3. CASE Accepted \/ ShouldTerminate \/ MainLast \/ MainAcquires \/ MainTransfers \/ MainJoins
    BY <2>3 DEF Accepted, Panic, ShouldTerminate, MainLast, MainAcquires, MainTransfers, MainJoins,
                MainType
  <2> QED BY <2>1, <2>2, <2>3, StepsOfMain
<1>2. /\ (sender.pc \in {"acquire", "transfer"} => sender.next \in Sessions)'
      /\ (On("closed") \/ On("command") => sender.who \in Sessions)'
  <2> USE DEF On
  <2>1. CASE UNCHANGED sender
    BY <2>1
  <2>2. CASE Send
    BY <2>2, ChosenSessions DEF Send, ToSend, SenderType
  <2>3. CASE SenderAcquires \/ SenderTransfers \/ SendEnds \/ SenderTerminates
    BY <2>3 DEF SenderAcquires, SenderTransfers, SendEnds, SenderTerminates, SenderType
  <2>4. CASE Reply
    BY <2>4 DEF Reply, Happens, SenderType
  <2>5. CASE ReceiveEvent
    <3>1. \/ \E e \in {"terminate", "sendAll", "reply"} : sender' = Happens(e, None)
          \/ \E s \in Sessions : sender' = Happens("closed", s)
          \/ \E s \in Sessions : sender' = [Happens("command", s) EXCEPT !.cmdbuf = client[s].cmd]
      BY <2>5, ChosenSessions DEF ReceiveEvent, Readable, SenderType
    <3> QED BY <3>1, ZenonT(30) DEF Happens, SenderType
  <2>6. CASE SessionClosed \/ SendAllBuffers
    BY <2>6 DEF SessionClosed, SendAllBuffers, Continue, SenderType
  <2>7. CASE Arm9Reply \/ CommandReceived
    BY <2>7, ZenonT(30) DEF Arm9Reply, CommandReceived, Panic, SenderType
  <2> QED BY <2>1, <2>2, <2>3, <2>4, <2>5, <2>6, <2>7, StepsOfSender
<1>3. (receiver.pc = "notify" => receiver.id \in Ids)'
  <2>1. CASE UNCHANGED receiver
    BY <2>1
  <2>2. CASE Receive
    BY <2>2, KnownIds DEF Receive, Panic
  <2>3. CASE ReceiverStarts \/ ReceiverWakes \/ ReceiverDrained \/ Notify \/ ReceiverAwaits
    BY <2>3 DEF ReceiverStarts, ReceiverWakes, ReceiverDrained, Notify, ReceiverAwaits, Panic, OtherType
  <2> QED BY <2>1, <2>2, <2>3, StepsOfReceiver
<1> QED BY <1>1, <1>2, <1>3

LEMMA TypeStep == TypeInv /\ [Next]_vars => TypeInv'
<1>1. TypeInv /\ Next => TypeInv'
  BY SessionTypeStep, PoolTypeStep, ModeTypeStep, FlagTypeStep, EventTypeStep, MainTypeStep,
     SenderTypeStep, OtherTypeStep, Arm9TypeStep, ClientTypeStep, LocatedStep, TypePartsNext DEF TypeInv
<1>2. TypeInv /\ UNCHANGED vars => TypeInv'
  BY DEF TypeInv, TypeOK, Located, On, vars, poolVars, modeVars, clientVars, ends
<1> QED BY <1>1, <1>2

---------------------------------------------------------------------------
(* Who has a command under way                                              *)

Held == sender.pc \in {"send", "acquire", "transfer", "reply"}
Engaged(s) == \/ state[s] # "idle"
              \/ Held /\ sender.target = s
              \/ On("command") /\ sender.who = s
(* The client of a session with a command still waits, or has left a        *)
(* session that is not yet closed.                                          *)
Attended == \A s \in Sessions : Engaged(s) => client[s].st \in {"waiting", "closed"}
(* What the sender answers, waits for and closes has no command.             *)
Rested == /\ \A s \in Sessions : Held /\ sender.target = s => state[s] = "idle"
          /\ sender.pc \in {"reply", "receive"} => \A s \in sender.idle : state[s] = "idle"
          /\ On("closed") => state[sender.who] = "idle" /\ client[sender.who].st = "closed"
Alive == ~shouldTerminate /\ sender.pc # "ended" => Attended /\ Rested
(* Once pm has told pxi to end, there is only the last command.              *)
Quiet == shouldTerminate => /\ \A s \in Sessions : client[s].st = "none"
                            /\ Held => sender.target = None
                            /\ ~On("command")
                            /\ \A s \in Sessions \ {0} : state[s] = "idle"
Begins == main.pc = "last" => shouldTerminate /\ state[0] = "idle"

(* The actions by what they do to the state of the sessions                  *)
SameStates == \A s \in Sessions : state'[s] = state[s]
LEMMA StepsOfStates ==
  TypeInv /\ Next => SameStates \/ Send \/ Receive \/ Arm9Reply \/ CommandReceived \/ MainLast
<1> SUFFICES ASSUME TypeInv, Next
             PROVE  SameStates \/ Send \/ Receive \/ Arm9Reply \/ CommandReceived \/ MainLast
  OBVIOUS
<1>1. CASE UNCHANGED state
  BY <1>1 DEF SameStates
<1>2. CASE HandlerStarts \/ Handle \/ HandlerReplied
  BY <1>2, SessionIds, TypeParts DEF HandlerStarts, Handle, HandlerReplied, Replied, Panic, TypeInv,
     SessionType, SameStates
<1> QED BY <1>1, <1>2 DEF Next, Pxi, Sender, SenderLoop, Receiver, Handler, MainRuns, Arm9, Clients,
     Done, vars, Connect, Ask, Leave, ClientSteps, Arm9Answers, Arm9Asks, Arm9Sends, Panic,
     ReceiverStarts, ReceiverWakes, ReceiverDrained, Notify, ReceiverAwaits,
     HandlerWakes, HandlerAcquires, HandlerTransfers,
     Accept, Accepted, MainAcquires, MainTransfers, MainJoins, ShouldTerminate,
     SenderAcquires, SenderTransfers, SendEnds, Reply, ReceiveEvent, SessionClosed, SendAllBuffers,
     SenderTerminates

LEMMA StepsOfClients ==
  Next => \/ UNCHANGED client \/ Reply \/ ReceiveEvent \/ SessionClosed \/ SenderTerminates
          \/ \E s \in Sessions : Connect(s) \/ Ask(s) \/ Leave(s)
BY DEF Next, Pxi, Sender, SenderLoop, Receiver, Handler, MainRuns, Arm9, Clients, Done, vars,
   clientVars, Arm9Answers, Arm9Asks, Arm9Sends, Panic, notReceiver, notHandler, notMain,
   ReceiverStarts, ReceiverWakes, ReceiverDrained, Receive, Notify, ReceiverAwaits,
   HandlerStarts, HandlerWakes, Handle, HandlerAcquires, HandlerTransfers, HandlerReplied,
   Accept, Accepted, MainLast, MainAcquires, MainTransfers, MainJoins, ShouldTerminate,
   Send, SenderAcquires, SenderTransfers, SendEnds, SendAllBuffers, Arm9Reply, CommandReceived

LEMMA StepsOfEnd == Next => ShouldTerminate \/ UNCHANGED shouldTerminate
BY DEF Next, Pxi, Sender, SenderLoop, Receiver, Handler, MainRuns, Arm9, Clients, Done, vars, ends,
   ClientSteps, Connect, Ask, Leave, Arm9Answers, Arm9Asks, Arm9Sends, Panic, notReceiver,
   notHandler, notMain, notSender,
   ReceiverStarts, ReceiverWakes, ReceiverDrained, Receive, Notify, ReceiverAwaits,
   HandlerStarts, HandlerWakes, Handle, HandlerAcquires, HandlerTransfers, HandlerReplied,
   Accept, Accepted, MainLast, MainAcquires, MainTransfers, MainJoins,
   Send, SenderAcquires, SenderTransfers, SendEnds, Reply, ReceiveEvent, SessionClosed,
   SendAllBuffers, Arm9Reply, CommandReceived, SenderTerminates

LEMMA BeginsStep == TypeInv /\ Quiet /\ Alive /\ Begins /\ Next => Begins'
<1> SUFFICES ASSUME TypeInv, Quiet, Alive, Begins, Next PROVE Begins'
  OBVIOUS
<1>1. CASE ShouldTerminate
  BY <1>1, SessionIds, TypeParts DEF ShouldTerminate, UnderWay, Begins, TypeInv, MainType
<1>2. CASE MainLast \/ ~(main'.pc = "last")
  BY <1>2, TypeParts DEF MainLast, Begins, TypeInv, MainType
<1>3. CASE main.pc = "last" /\ UNCHANGED shouldTerminate /\ main'.pc = "last" /\ ~MainLast
  <2>1. shouldTerminate /\ state[0] = "idle" /\ ~On("command")
    BY <1>3 DEF Begins, Quiet
  <2>2. CASE Send
    BY <2>1, <2>2, <1>3, ChosenSessions, SessionIds, TypeParts
    DEF Send, ToSend, Begins, TypeInv, SessionType
  <2>3. CASE Receive
    BY <2>1, <2>3, <1>3, KnownIds, SessionIds, TypeParts
    DEF Receive, Panic, Begins, TypeInv, SessionType
  <2>4. CASE Arm9Reply
    BY <2>1, <2>4, <1>3, ChosenSessions, SessionIds, TypeParts
    DEF Arm9Reply, Replies, Panic, Begins, TypeInv, SessionType
  <2> QED BY <2>1, <2>2, <2>3, <2>4, <1>3, SessionIds, StepsOfStates
          DEF CommandReceived, SameStates, Begins
<1>4. main'.pc = "last" => ShouldTerminate \/ MainLast \/ main.pc = "last"
  BY StepsOfMain, TypeParts DEF Accept, Accepted, MainAcquires, MainTransfers, MainJoins, Panic, TypeInv,
     MainType
<1> QED BY <1>1, <1>2, <1>3, <1>4, StepsOfEnd

(* Every step of the sender, with what decides about the sessions            *)
LEMMA AliveStep == TypeInv /\ Alive /\ Quiet /\ Begins /\ Next => Alive'
<1> SUFFICES ASSUME TypeInv, Alive, Quiet, Begins, Next,
                    ~shouldTerminate', sender'.pc # "ended"
             PROVE  Attended' /\ Rested'
  BY DEF Alive
<1> USE SessionIds, TypeParts DEF TypeInv
<1>1. ~shouldTerminate /\ ~MainLast
  BY StepsOfEnd, TypeParts DEF ShouldTerminate, MainLast, Begins, FlagType
<1>2. sender.pc # "ended"
  BY StepsOfSender DEF Send, SenderAcquires, SenderTransfers, SendEnds, Reply, ReceiveEvent, On,
     SessionClosed, SendAllBuffers, Arm9Reply, CommandReceived, SenderTerminates
<1>3. Attended /\ Rested
  BY <1>1, <1>2 DEF Alive
<1> USE DEF Attended, Rested, Engaged, Held, On
<1>4. CASE UNCHANGED <<sender, client>> /\ SameStates
  BY <1>3, <1>4 DEF SameStates, SenderType, Located
<1>5. ASSUME NEW s \in Sessions, Connect(s) \/ Ask(s) \/ Leave(s) PROVE Attended' /\ Rested'
  BY <1>3, <1>5 DEF Connect, Ask, Leave, ClientSteps, ClientType, SenderType, Located, NoClient
<1>6. CASE Receive
  BY <1>3, <1>6, KnownIds DEF Receive, Panic, notReceiver, SessionType, clientVars, SenderType, Located
<1>7. CASE Send
  BY <1>3, <1>7, ChosenSessions DEF Send, ToSend, SessionType, SenderType
<1>8. CASE SenderAcquires \/ SenderTransfers \/ SendEnds
  <2>1. UNCHANGED <<state, client>> /\ sender'.target = sender.target
        /\ sender'.pc \in {"transfer", "terminate", "send", "reply"}
    BY <1>8 DEF SenderAcquires, SenderTransfers, SendEnds, SenderType
  <2>2. sender.pc \in {"acquire", "transfer", "send"}
    BY <1>8 DEF SenderAcquires, SenderTransfers, SendEnds
  <2>3. sender'.pc = "reply" => \A s \in sender'.idle : state[s] = "idle"
    <3>1. CASE SendEnds
      <4>1. sender'.idle = {s \in Sessions : handle[s] /\ state[s] = "idle"}
        BY <3>1 DEF SendEnds, SenderType
      <4> QED BY <4>1
    <3>2. CASE SenderAcquires \/ SenderTransfers
      BY <3>2 DEF SenderAcquires, SenderTransfers, SenderType
    <3> QED BY <1>8, <3>1, <3>2
  <2> QED BY <1>3, <2>1, <2>2, <2>3
<1>9. CASE Reply
  BY <1>3, <1>9, ZenonT(30) DEF Reply, Happens, SenderType, ClientType, NoClient
<1>10. CASE ReceiveEvent
  <2>1. UNCHANGED state /\ sender.pc = "receive" /\ sender'.pc = "event"
    BY <1>10 DEF ReceiveEvent, Happens, SenderType
  <2>2. CASE UNCHANGED client /\ sender'.event \in {"terminate", "sendAll", "reply"}
    BY <1>3, <2>1, <2>2
  <2>3. CASE \E s \in sender.idle : /\ client[s].st = "closed" /\ UNCHANGED client
                                    /\ sender'.event = "closed" /\ sender'.who = s
    BY <1>3, <2>1, <2>3
  <2>4. CASE \E s \in sender.idle : /\ client' = [client EXCEPT ![s].st = "waiting"]
                                    /\ sender'.event = "command" /\ sender'.who = s
    BY <1>3, <2>1, <2>4 DEF SenderType, ClientType
  <2> QED BY <1>10, <2>2, <2>3, <2>4, ChosenSessions, ZenonT(30) DEF ReceiveEvent, Readable, Happens, SenderType
<1>11. CASE SessionClosed \/ SendAllBuffers
  <2>1. UNCHANGED state /\ sender'.pc = "send" /\ sender'.target = None
    BY <1>11 DEF SessionClosed, SendAllBuffers, Continue, SenderType
  <2>2. CASE UNCHANGED client
    BY <1>3, <2>1, <2>2
  <2>3. CASE SessionClosed
    <3>1. /\ sender.who \in Sessions /\ state[sender.who] = "idle"
          /\ client' = [client EXCEPT ![sender.who] = NoClient]
      BY <1>3, <2>3 DEF SessionClosed, Located
    <3> QED BY <1>3, <2>1, <3>1 DEF ClientType
  <2> QED BY <1>11, <2>2, <2>3 DEF SendAllBuffers
<1>12. CASE Arm9Reply
  <2>1. CASE Panic
    BY <1>4, <2>1 DEF Panic, clientVars, SameStates
  <2>2. CASE ~Panic
    <3>1. Answered \in Sessions /\ state[Answered] = "fromArm9" /\ UNCHANGED client
      BY <1>12, <2>2, ChosenSessions DEF Arm9Reply, Replies
    <3>2. state' = [state EXCEPT ![Answered] = "idle"]
      BY <1>12, <2>2 DEF Arm9Reply
    <3>3. sender'.pc = "send" /\ sender'.target \in {Answered, None}
      BY <1>12, <2>2 DEF Arm9Reply, SenderType
    <3> QED BY <1>3, <3>1, <3>2, <3>3 DEF SessionType
  <2> QED BY <2>1, <2>2
<1>13. CASE CommandReceived
  BY <1>3, <1>13, KnownIds DEF CommandReceived, Panic, SenderType, SessionType, clientVars
<1>14. CASE SenderTerminates
  BY <1>14 DEF SenderTerminates, SenderType
<1> QED BY <1>1, <1>4, <1>5, <1>6, <1>7, <1>8, <1>9, <1>10, <1>11, <1>12, <1>13, <1>14,
           StepsOfStates, StepsOfSender, StepsOfClients

---------------------------------------------------------------------------
(* The count of the replies                                                 *)

Telling == IF receiver.pc = "notify" /\ IsReply(receiver.id) /\ ~IsLast(receiver.id) THEN 1 ELSE 0
Looking == IF On("reply") THEN 1 ELSE 0
Ending  == IF state[0] = "fromArm9" /\ shouldTerminate THEN 1 ELSE 0

LEMMA CountParts ==
  /\ RepliesAreCounted <=> Cardinality(Replies) = ev.reply + Telling + Looking + Ending
  /\ RepliesAreCounted' <=> Cardinality(Replies') = ev'.reply + Telling' + Looking' + Ending'
BY DEF RepliesAreCounted, Telling, Looking, Ending

(* The count stays right if both of its sides change by the same.            *)
LEMMA CountChanges ==
  ASSUME RepliesAreCounted, NEW d \in {0, 1}, NEW k \in Nat,
         ev.reply + Telling + Looking + Ending = k,
         Cardinality(Replies') = Cardinality(Replies) + d,
         ev'.reply + Telling' + Looking' + Ending' = k + d
  PROVE  RepliesAreCounted'
<1>1. Cardinality(Replies) = k
  BY CountParts
<1>2. Cardinality(Replies') = k + d
  BY <1>1
<1> QED BY <1>2, CountParts

LEMMA RepliesFinite == IsFiniteSet(Replies) /\ Cardinality(Replies) \in Nat
                       /\ (Cardinality(Replies) = 0 <=> Replies = {})
<1>1. Replies \in SUBSET Sessions
  BY DEF Replies
<1> QED BY <1>1, SessionIds, FS_Subset, FS_CardinalityType, FS_EmptySet

(* While there is only the last command, the sender has nothing to look for. *)
LEMMA NothingToLookFor ==
  ASSUME TypeInv, Quiet, RepliesAreCounted, shouldTerminate, On("reply")
  PROVE  Replies = {}
<1>1. Replies \subseteq {0}
  BY DEF Quiet, Replies
<1>2. CASE Replies = {0}
  <2>1. Cardinality(Replies) = 1
    BY <1>2, FS_Singleton
  <2>2. Ending = 1 /\ Looking = 1 /\ Telling \in Nat /\ ev.reply \in Nat
    BY <1>2, TypeParts DEF Replies, Ending, Looking, Telling, TypeInv, EventType
  <2> QED BY <2>1, <2>2, CountParts
<1> QED BY <1>1, <1>2

LEMMA QuietStep == TypeInv /\ Alive /\ Quiet /\ Begins /\ RepliesAreCounted /\ Next => Quiet'
<1> SUFFICES ASSUME TypeInv, Alive, Quiet, Begins, RepliesAreCounted, Next, shouldTerminate'
             PROVE  Quiet'
  BY DEF Quiet
<1> USE SessionIds, TypeParts DEF TypeInv
<1>1. CASE ShouldTerminate
  <2>1. \A s \in Sessions : client[s].st = "none" /\ state[s] = "idle"
                            /\ ~(sender.event = "command" /\ sender.who = s)
    BY <1>1 DEF ShouldTerminate, UnderWay
  <2>2. Held => sender.target = None
    <3>1. CASE shouldTerminate
      BY <3>1 DEF Quiet
    <3>2. CASE ~shouldTerminate /\ Held
      <4>1. Attended
        BY <3>2 DEF Alive, Held
      <4>2. \A s \in Sessions : ~Engaged(s)
        BY <2>1, <4>1 DEF Attended
      <4> QED BY <3>2, <4>2 DEF Engaged, SenderType
    <3> QED BY <3>1, <3>2
  <2>3. ~On("command")
    BY <2>1 DEF On, Located
  <2> QED BY <1>1, <2>1, <2>2, <2>3 DEF ShouldTerminate, notMain, Quiet, Held, On
<1>2. CASE shouldTerminate
  <2>1. /\ \A s \in Sessions : client[s].st = "none"
        /\ Held => sender.target = None
        /\ ~On("command")
        /\ \A s \in Sessions \ {0} : state[s] = "idle"
    BY <1>2 DEF Quiet
  <2>2. ~\E s \in Sessions : Connect(s) \/ Ask(s) \/ Leave(s)
    BY <1>2, <2>1 DEF Connect, Ask, Leave
  <2>3. (\A s \in Sessions : client[s].st = "none")'
    <3>1. CASE Reply
      BY <2>1, <3>1 DEF Reply, Held
    <3>2. CASE ReceiveEvent
      <4>1. Readable = {}
        BY <2>1 DEF Readable, SenderType
      <4> QED BY <2>1, <3>2, <4>1 DEF ReceiveEvent
    <3>3. CASE SessionClosed
      BY <2>1, <3>3 DEF SessionClosed, NoClient, ClientType
    <3>4. CASE SenderTerminates
      BY <2>1, <3>4 DEF SenderTerminates, NoClient
    <3> QED BY <2>1, <2>2, <3>1, <3>2, <3>3, <3>4, StepsOfClients
  <2>4. (Held => sender.target = None)' /\ ~On("command")'
    <3> USE DEF Held, On
    <3>1. CASE UNCHANGED sender
      BY <2>1, <3>1
    <3>2. CASE Send \/ SenderAcquires \/ SenderTransfers \/ SendEnds \/ SenderTerminates
      BY <2>1, <3>2 DEF Send, SenderAcquires, SenderTransfers, SendEnds, SenderTerminates, SenderType
    <3>3. CASE Reply
      BY <2>1, <3>3 DEF Reply, SenderType
    <3>4. CASE ReceiveEvent
      <4>1. Readable = {}
        BY <2>1 DEF Readable, SenderType
      <4> QED BY <3>4, <4>1 DEF ReceiveEvent, Happens, SenderType
    <3>5. CASE SessionClosed \/ SendAllBuffers
      BY <3>5 DEF SessionClosed, SendAllBuffers, Continue, SenderType
    <3>6. CASE Arm9Reply
      <4>1. Replies = {}
        BY <1>2, <3>6, NothingToLookFor DEF Arm9Reply
      <4> QED BY <2>1, <3>6, <4>1 DEF Arm9Reply, Panic
    <3>7. ~CommandReceived
      BY <2>1 DEF CommandReceived
    <3> QED BY <3>1, <3>2, <3>3, <3>4, <3>5, <3>6, <3>7, StepsOfSender
  <2>5. (\A s \in Sessions \ {0} : state[s] = "idle")'
    <3>1. CASE Send
      BY <2>1, <3>1, ChosenSessions DEF Send, ToSend, SessionType
    <3>2. CASE Receive
      BY <2>1, <3>2, KnownIds DEF Receive, Panic, SessionType
    <3>3. CASE Arm9Reply
      BY <2>1, <3>3, ChosenSessions DEF Arm9Reply, Replies, Panic, SessionType
    <3>4. ~CommandReceived
      BY <2>1 DEF CommandReceived
    <3>5. CASE MainLast
      BY <2>1, <3>5 DEF MainLast, SessionType
    <3> QED BY <2>1, <3>1, <3>2, <3>3, <3>4, <3>5, StepsOfStates DEF SameStates
  <2> QED BY <2>3, <2>4, <2>5 DEF Quiet
<1> QED BY <1>1, <1>2, StepsOfEnd

(* Which steps leave the count alone                                        *)
LEMMA SameCount ==
  ASSUME RepliesAreCounted, Replies' = Replies, ev'.reply = ev.reply, Telling' = Telling,
         Looking' = Looking, Ending' = Ending
  PROVE  RepliesAreCounted'
BY CountParts

LEMMA StepsOfCount ==
  TypeInv /\ Next => ev'.reply = ev.reply \/ Notify \/ ReceiveEvent
<1> SUFFICES ASSUME TypeInv, Next PROVE ev'.reply = ev.reply \/ Notify \/ ReceiveEvent
  OBVIOUS
<1> USE TypeParts DEF TypeInv, EventType
<1>1. CASE UNCHANGED ev
  BY <1>1
<1>2. CASE Arm9Asks \/ \E s \in Sessions : Arm9Answers(s)
  BY <1>2 DEF Arm9Asks, Arm9Answers, Arm9Sends
<1>3. CASE ReceiverStarts \/ ReceiverWakes \/ ReceiverAwaits
  BY <1>3 DEF ReceiverStarts, ReceiverWakes, ReceiverAwaits, Panic
<1>4. CASE HandlerStarts \/ HandlerWakes \/ HandlerReplied \/ Accepted
  BY <1>4 DEF HandlerStarts, HandlerWakes, HandlerReplied, Accepted, Panic
<1> QED BY <1>1, <1>2, <1>3, <1>4 DEF Next, Pxi, Sender, SenderLoop, Receiver, Handler, MainRuns, Arm9,
     Clients, Done, vars, ClientSteps, Connect, Ask, Leave, Panic,
     ReceiverDrained, Receive, Handle, HandlerAcquires, HandlerTransfers,
     Accept, MainLast, MainAcquires, MainTransfers, MainJoins, ShouldTerminate,
     Send, SenderAcquires, SenderTransfers, SendEnds, Reply, SessionClosed, SendAllBuffers,
     Arm9Reply, CommandReceived, SenderTerminates

LEMMA SameTelling ==
  ASSUME TypeInv, Next, ~Receive, ~Notify, ~ShouldTerminate
  PROVE  Telling' = Telling
<1>1. UNCHANGED shouldTerminate
  BY StepsOfEnd
<1>2. UNCHANGED receiver \/ (receiver.pc # "notify" /\ receiver'.pc # "notify")
  BY StepsOfReceiver, TypeParts DEF ReceiverStarts, ReceiverWakes, ReceiverDrained, ReceiverAwaits, Panic,
     TypeInv, OtherType
<1> QED BY <1>1, <1>2 DEF Telling, IsReply, IsLast

LEMMA SameLooking ==
  ASSUME TypeInv, Next, ~ReceiveEvent, ~Arm9Reply
  PROVE  Looking' = Looking
BY StepsOfSender, TypeParts
DEF Looking, On, Send, SenderAcquires, SenderTransfers, SendEnds, Reply, Happens, SessionClosed,
    SendAllBuffers, Continue, CommandReceived, Panic, SenderTerminates, TypeInv, SenderType

(* A step that neither brings nor takes a reply                              *)
LEMMA SameReplies ==
  ASSUME TypeInv, Begins, Next, ~Receive, ~Arm9Reply
  PROVE  Replies' = Replies /\ (state'[0] = "fromArm9" <=> state[0] = "fromArm9")
<1>1. \A s \in Sessions : state'[s] = "fromArm9" <=> state[s] = "fromArm9"
  <2> USE TypeParts, SessionIds DEF TypeInv, SessionType
  <2>1. CASE SameStates
    BY <2>1 DEF SameStates
  <2>2. CASE Send
    BY <2>2, ChosenSessions DEF Send, ToSend
  <2>3. CASE CommandReceived
    BY <2>3, KnownIds DEF CommandReceived, Panic
  <2>4. CASE MainLast
    BY <2>4 DEF MainLast, Begins
  <2> QED BY <2>1, <2>2, <2>3, <2>4, StepsOfStates
<1> QED BY <1>1, SessionIds DEF Replies

LEMMA CountStep == TypeInv /\ Alive /\ Quiet /\ Begins /\ RepliesAreCounted /\ Next => RepliesAreCounted'
<1> SUFFICES ASSUME TypeInv, Alive, Quiet, Begins, RepliesAreCounted, Next PROVE RepliesAreCounted'
  OBVIOUS
<1> USE SessionIds, TypeParts DEF TypeInv
<1>0. ev.reply \in Nat /\ Telling \in {0, 1} /\ Looking \in {0, 1} /\ Ending \in {0, 1}
  BY DEF EventType, Telling, Looking, Ending
<1>1. CASE Receive
  <2>1. Looking' = Looking /\ ev'.reply = ev.reply /\ UNCHANGED shouldTerminate
    BY <1>1, SameLooking, StepsOfCount, StepsOfEnd
    DEF Receive, Notify, ReceiveEvent, Arm9Reply, ShouldTerminate, Panic, notReceiver, ends, On, Looking
  <2> DEFINE id == Head(arm9.fifo).id
  <2>2. CASE Panic
    BY <2>1, <2>2, SameCount DEF Panic, Telling, Ending, Replies, IsReply, IsLast
  <2>3. CASE ~Panic
    <3>1. /\ id \in Ids /\ state[id] = "sentToArm9" /\ state' = [state EXCEPT ![id] = "fromArm9"]
          /\ receiver' = [pc |-> "notify", id |-> id] /\ Telling = 0
      BY <1>1, <2>3, KnownIds DEF Receive, Telling
    <3>2. CASE id = Srv11
      <4>1. Replies' = Replies /\ state'[0] = state[0]
        BY <3>1, <3>2 DEF Replies, SessionType
      <4>2. Telling' = 0
        BY <3>1, <3>2 DEF Telling, IsReply
      <4> QED BY <2>1, <3>1, <4>1, <4>2, SameCount DEF Ending
    <3>3. CASE id \in Sessions
      <4>1. Replies' = Replies \cup {id} /\ id \notin Replies
        BY <3>1, <3>3 DEF Replies, SessionType
      <4>2. Cardinality(Replies') = Cardinality(Replies) + 1
        BY <4>1, RepliesFinite, FS_AddElement
      <4>3. \/ Telling' = 1 /\ Ending' = Ending
            \/ Telling' = 0 /\ Ending' = 1 /\ Ending = 0
        <5>1. CASE id = 0 /\ shouldTerminate
          BY <2>1, <3>1, <5>1 DEF Telling, Ending, IsLast, SessionType
        <5>2. CASE id # 0
          BY <2>1, <3>1, <3>3, <5>2 DEF Telling, Ending, IsLast, IsReply, SessionType
        <5>3. CASE ~shouldTerminate
          BY <2>1, <3>1, <3>3, <5>3 DEF Telling, Ending, IsLast, IsReply, SessionType
        <5> QED BY <5>1, <5>2, <5>3
      <4> DEFINE k == ev.reply + Looking + Ending
      <4>5. k \in Nat /\ ev.reply + Telling + Looking + Ending = k
        BY <1>0, <3>1
      <4>6. ev'.reply + Telling' + Looking' + Ending' = k + 1
        <5>1. ev'.reply = ev.reply /\ Looking' = Looking
          BY <2>1
        <5>2. CASE Telling' = 1 /\ Ending' = Ending
          BY <1>0, <5>1, <5>2
        <5>3. CASE Telling' = 0 /\ Ending' = 1 /\ Ending = 0
          BY <1>0, <5>1, <5>3
        <5> QED BY <4>3, <5>2, <5>3
      <4> HIDE DEF k
      <4> QED BY <4>2, <4>5, <4>6, CountChanges
    <3> QED BY <3>1, <3>2, <3>3 DEF Ids, Sessions, Srv11, PxiAssumption
  <2> QED BY <2>2, <2>3
<1>2. CASE Notify
  <2>1. UNCHANGED <<state, sender, shouldTerminate>> /\ receiver.pc = "notify"
        /\ receiver'.pc # "notify"
    BY <1>2 DEF Notify, notReceiver, ends, OtherType
  <2>2. Replies' = Replies /\ Looking' = Looking /\ Ending' = Ending /\ Telling' = 0
    BY <2>1 DEF Replies, Looking, On, Ending, Telling
  <2>3. ev'.reply = ev.reply + Telling
    BY <1>0, <1>2, <2>1 DEF Notify, Telling, EventType
  <2> DEFINE k == ev.reply + Telling + Looking + Ending
  <2>4. k \in Nat
    BY <1>0
  <2>5. ev'.reply + Telling' + Looking' + Ending' = k + 0
    BY <1>0, <2>2, <2>3
  <2>6. Cardinality(Replies') = Cardinality(Replies) + 0
    BY <2>2, RepliesFinite
  <2> HIDE DEF k
  <2>7. ev.reply + Telling + Looking + Ending = k
    BY DEF k
  <2> QED BY <2>4, <2>5, <2>6, <2>7, CountChanges
<1>3. CASE ShouldTerminate
  <2>1. \A s \in Sessions : state[s] = "idle"
    BY <1>3 DEF ShouldTerminate, UnderWay
  <2>2. Replies = {} /\ Replies' = {} /\ Ending' = 0
    BY <1>3, <2>1 DEF ShouldTerminate, Replies, Ending
  <2>3. ev.reply = 0 /\ Telling = 0 /\ Looking = 0
    <3>1. Cardinality(Replies) = 0
      BY <2>2, FS_EmptySet
    <3>2. ev.reply + Telling + Looking + Ending = 0
      BY <3>1, CountParts
    <3>3. /\ ev.reply \in Nat /\ Telling \in Nat /\ Looking \in Nat /\ Ending \in Nat
          /\ \A a, b, c, d \in Nat : a + b + c + d = 0 => a = 0 /\ b = 0 /\ c = 0
      BY <1>0
    <3> QED BY <3>2, <3>3
  <2>4. ev'.reply = 0 /\ Looking' = 0
    BY <1>3, <2>3 DEF ShouldTerminate, notMain, Looking, On
  <2>5. Telling' = 0
    BY <1>3, <2>3 DEF ShouldTerminate, notMain, Telling, IsReply, IsLast
  <2>6. Cardinality(Replies') = 0
    BY <2>2, FS_EmptySet
  <2>7. ev'.reply + Telling' + Looking' + Ending' = 0
    BY <2>2, <2>4, <2>5
  <2> QED BY <2>6, <2>7, CountParts
<1>4. CASE ReceiveEvent
  <2>1. /\ Replies' = Replies /\ (state'[0] = "fromArm9" <=> state[0] = "fromArm9")
        /\ UNCHANGED <<receiver, shouldTerminate>> /\ Looking = 0
    BY <1>4 DEF ReceiveEvent, Replies, notSender, ends, Looking, On
  <2>2. Telling' = Telling /\ Ending' = Ending
    BY <2>1 DEF Telling, Ending, IsReply, IsLast
  <2>3. ev'.reply = ev.reply - Looking'
    <3>1. CASE ev' = [ev EXCEPT !.reply = ev.reply - 1] /\ sender' = Happens("reply", None)
      BY <3>1 DEF EventType, Happens, SenderType, Looking, On
    <3>2. CASE ev'.reply = ev.reply /\ sender'.event # "reply"
      BY <1>0, <3>2 DEF Looking, On
    <3> QED BY <1>4, <3>1, <3>2, ZenonT(30) DEF ReceiveEvent, EventType, Happens, SenderType
  <2>4. Looking' \in {0, 1}
    BY DEF Looking
  <2> DEFINE k == ev.reply + Telling + Ending
  <2>5. k \in Nat /\ ev.reply + Telling + Looking + Ending = k
    BY <1>0, <2>1
  <2>6. ev'.reply + Telling' + Looking' + Ending' = k
    <3>1. CASE Looking' = 0
      BY <1>0, <2>2, <2>3, <3>1
    <3>2. CASE Looking' = 1
      BY <1>0, <2>2, <2>3, <3>2
    <3> QED BY <2>4, <3>1, <3>2
  <2> HIDE DEF k
  <2>7. Cardinality(Replies) = k
    BY <2>5, CountParts
  <2>8. Cardinality(Replies') = k
    BY <2>1, <2>7
  <2> QED BY <2>6, <2>8, CountParts
<1>5. CASE Arm9Reply
  <2>1. UNCHANGED <<receiver, shouldTerminate, ev>>
    BY <1>5 DEF Arm9Reply, Panic, notSender, ends
  <2>2. Telling' = Telling
    BY <2>1 DEF Telling, IsReply, IsLast
  <2>3. CASE Panic
    BY <2>1, <2>2, <2>3, SameCount DEF Panic, Looking, On, Replies, Ending
  <2>4. CASE ~Panic
    <3>1. Replies # {} /\ state' = [state EXCEPT ![Answered] = "idle"] /\ Looking = 1 /\ Looking' = 0
      BY <1>5, <2>4 DEF Arm9Reply, Looking, On, SenderType
    <3>2. Answered \in Replies
      BY <3>1, ChosenSessions
    <3>3. Replies' = Replies \ {Answered}
      BY <3>1, <3>2 DEF Replies, SessionType
    <3>4. Cardinality(Replies') = Cardinality(Replies) - 1
      BY <3>2, <3>3, RepliesFinite, FS_RemoveElement
    <3>5. ~shouldTerminate
      BY <1>5, <3>1, NothingToLookFor DEF Arm9Reply
    <3>6. Ending = 0 /\ Ending' = 0
      BY <2>1, <3>5 DEF Ending
    <3> DEFINE k == ev.reply + Telling
    <3>7. k \in Nat /\ ev.reply + Telling + Looking + Ending = k + 1
      BY <1>0, <3>1, <3>6
    <3>8. ev'.reply + Telling' + Looking' + Ending' = k
      BY <1>0, <2>1, <2>2, <3>1, <3>6
    <3> HIDE DEF k
    <3>9. Cardinality(Replies) = k + 1
      BY <3>7, CountParts
    <3>10. Cardinality(Replies') = k
      BY <3>4, <3>7, <3>9
    <3> QED BY <3>8, <3>10, CountParts
  <2> QED BY <2>3, <2>4
<1>6. CASE ~Receive /\ ~Notify /\ ~ShouldTerminate /\ ~ReceiveEvent /\ ~Arm9Reply
  <2>1. Replies' = Replies /\ (state'[0] = "fromArm9" <=> state[0] = "fromArm9")
    BY <1>6, SameReplies
  <2>2. Telling' = Telling /\ Looking' = Looking /\ ev'.reply = ev.reply
    BY <1>6, SameTelling, SameLooking, StepsOfCount
  <2>3. Ending' = Ending
    BY <1>6, <2>1, StepsOfEnd DEF Ending
  <2> QED BY <2>1, <2>2, <2>3, SameCount
<1> QED BY <1>1, <1>2, <1>3, <1>4, <1>5, <1>6

---------------------------------------------------------------------------
(* The pool of static buffers                                               *)

IdleHasNone == \A s \in Sessions : state[s] = "idle" => usedStaticBuffers[s] = {}
PoolInv     == BuffersPartitioned /\ IdleHasNone

LEMMA StepsOfPool ==
  Next => UNCHANGED <<usedStaticBuffers, freeStaticBuffers, currentlyProvidedStaticBuffers>>
          \/ (Arm9Reply /\ ~Panic) \/ (CommandReceived /\ ~Panic)
BY DEF Next, Pxi, Sender, SenderLoop, Receiver, Handler, MainRuns, Arm9, Clients, Done, vars, poolVars,
   ClientSteps, Connect, Ask, Leave, Arm9Answers, Arm9Asks, Arm9Sends, Panic, notReceiver,
   notHandler, notMain,
   ReceiverStarts, ReceiverWakes, ReceiverDrained, Receive, Notify, ReceiverAwaits,
   HandlerStarts, HandlerWakes, Handle, HandlerAcquires, HandlerTransfers, HandlerReplied,
   Accept, Accepted, MainLast, MainAcquires, MainTransfers, MainJoins, ShouldTerminate,
   Send, SenderAcquires, SenderTransfers, SendEnds, Reply, ReceiveEvent, SessionClosed,
   SendAllBuffers, SenderTerminates

LEMMA PoolStep == TypeInv /\ PoolInv /\ Next => PoolInv'
<1> SUFFICES ASSUME TypeInv, PoolInv, Next PROVE PoolInv'
  OBVIOUS
<1> USE SessionIds, TypeParts DEF TypeInv, PoolInv, IdleHasNone
<1>1. CASE UNCHANGED <<usedStaticBuffers, freeStaticBuffers, currentlyProvidedStaticBuffers>>
  <2>1. BuffersPartitioned'
    BY <1>1 DEF BuffersPartitioned
  <2>2. IdleHasNone'
    <3>1. CASE SameStates
      BY <1>1, <3>1 DEF SameStates
    <3>2. CASE Send
      BY <1>1, <3>2, ChosenSessions DEF Send, ToSend, SessionType
    <3>3. CASE Receive
      BY <1>1, <3>3, KnownIds DEF Receive, Panic, SessionType
    <3>4. CASE Arm9Reply
      <4>1. CASE Panic
        BY <1>1, <4>1 DEF Panic
      <4>2. CASE ~Panic
        BY <1>1, <3>4, <4>2, ChosenSessions DEF Arm9Reply, Released, Replies, PoolType, SessionType
      <4> QED BY <4>1, <4>2
    <3>5. CASE CommandReceived
      BY <1>1, <3>5, KnownIds DEF CommandReceived, Panic, SessionType
    <3>6. CASE MainLast
      BY <1>1, <3>6 DEF MainLast, SessionType
    <3> QED BY <3>1, <3>2, <3>3, <3>4, <3>5, <3>6, StepsOfStates
  <2> QED BY <2>1, <2>2
<1>2. CASE Arm9Reply /\ ~Panic
  <2>1. Answered \in Sessions /\ Released(Answered) /\ state' = [state EXCEPT ![Answered] = "idle"]
        /\ UNCHANGED currentlyProvidedStaticBuffers
    BY <1>2, ChosenSessions DEF Arm9Reply, Replies
  <2>2. BuffersPartitioned'
    BY <2>1 DEF BuffersPartitioned, Released, PoolType
  <2>3. IdleHasNone'
    BY <2>1 DEF Released, PoolType, SessionType
  <2> QED BY <2>2, <2>3
<1>3. CASE CommandReceived /\ ~Panic
  <2> DEFINE s == sender.who
             keep == clearMSBs(currentlyProvidedStaticBuffers, 4 - nbStaticBuffersByService[s])
             free1 == freeStaticBuffers \cup (currentlyProvidedStaticBuffers \ keep)
             free2 == clearMSBs(free1, 4)
  <2>1. s \in Sessions /\ state[s] = "idle" /\ state' = [state EXCEPT ![s] = "fromArm11"]
    BY <1>3, KnownIds DEF CommandReceived
  <2>2. /\ usedStaticBuffers' = [usedStaticBuffers EXCEPT ![s] = keep]
        /\ freeStaticBuffers' = free2 /\ currentlyProvidedStaticBuffers' = free1 \ free2
    BY <1>3 DEF CommandReceived, Provided
  <2>3. keep \subseteq currentlyProvidedStaticBuffers /\ free2 \subseteq free1
    BY DEF clearMSBs
  <2>4. usedStaticBuffers[s] = {}
    BY <2>1
  <2> HIDE DEF keep, free2, s
  <2>5. BuffersPartitioned'
    <3>1. s \in Sessions /\ usedStaticBuffers \in [Sessions -> SUBSET Buffers]
      BY <2>1 DEF PoolType
    <3>2. freeStaticBuffers' \cup currentlyProvidedStaticBuffers'
            = freeStaticBuffers \cup (currentlyProvidedStaticBuffers \ keep)
          /\ freeStaticBuffers' \cap currentlyProvidedStaticBuffers' = {}
      BY <2>2, <2>3
    <3>3. /\ usedStaticBuffers'[s] = keep
          /\ \A r \in Sessions \ {s} : usedStaticBuffers'[r] = usedStaticBuffers[r]
      BY <2>2, <3>1
    <3>4. UNION {usedStaticBuffers'[r] : r \in Sessions}
            = keep \cup UNION {usedStaticBuffers[r] : r \in Sessions}
      BY <2>4, <3>1, <3>3
    <3>5. /\ freeStaticBuffers' \cup currentlyProvidedStaticBuffers'
               \cup UNION {usedStaticBuffers'[r] : r \in Sessions} = Buffers
      BY <2>3, <3>2, <3>4 DEF BuffersPartitioned
    <3>6. ASSUME NEW r \in Sessions
          PROVE  /\ usedStaticBuffers'[r]
                      \cap (freeStaticBuffers' \cup currentlyProvidedStaticBuffers') = {}
                 /\ \A q \in Sessions \ {r} : usedStaticBuffers'[r] \cap usedStaticBuffers'[q] = {}
      <4>1. CASE r = s
        BY <2>3, <3>1, <3>2, <3>3, <4>1 DEF BuffersPartitioned
      <4>2. CASE r # s
        BY <2>3, <3>1, <3>2, <3>3, <4>2 DEF BuffersPartitioned
      <4> QED BY <4>1, <4>2
    <3> QED BY <3>2, <3>5, <3>6 DEF BuffersPartitioned
  <2>6. IdleHasNone'
    BY <2>1, <2>2 DEF PoolType, SessionType
  <2> QED BY <2>5, <2>6
<1> QED BY <1>1, <1>2, <1>3, StepsOfPool

---------------------------------------------------------------------------
(* The invariant and what follows from it                                   *)

IInv == TypeInv /\ Alive /\ Quiet /\ Begins /\ RepliesAreCounted /\ PoolInv

LEMMA InitInv == Init => IInv
<1> SUFFICES ASSUME Init PROVE IInv
  OBVIOUS
<1>1. TypeInv
  BY InitType
<1>2. Alive /\ Quiet /\ Begins
  BY SessionIds DEF Init, Alive, Quiet, Begins, Attended, Rested, Engaged, Held, On
<1>3. RepliesAreCounted
  <2>1. Replies = {}
    BY SessionIds DEF Init, Replies
  <2>2. ev.reply = 0 /\ Telling = 0 /\ Looking = 0 /\ Ending = 0
    BY SessionIds DEF Init, Telling, Looking, Ending, On
  <2> QED BY <2>1, <2>2, CountParts, FS_EmptySet
<1>4. PoolInv
  BY DEF Init, PoolInv, BuffersPartitioned, IdleHasNone, clearMSBs
<1> QED BY <1>1, <1>2, <1>3, <1>4 DEF IInv

LEMMA IInvStep == IInv /\ [Next]_vars => IInv'
<1>1. IInv /\ Next => IInv'
  BY TypeStep, AliveStep, QuietStep, BeginsStep, CountStep, PoolStep DEF IInv
<1>2. IInv /\ UNCHANGED vars => IInv'
  <2> SUFFICES ASSUME IInv, UNCHANGED vars PROVE IInv'
    OBVIOUS
  <2> USE DEF IInv, vars, poolVars, modeVars, clientVars, ends, On
  <2>1. TypeInv'
    BY TypeStep
  <2>2. Alive' /\ Quiet' /\ Begins'
    BY DEF Alive, Quiet, Begins, Attended, Rested, Engaged, Held
  <2>3. RepliesAreCounted'
    BY DEF RepliesAreCounted, Replies, IsReply, IsLast
  <2>4. PoolInv'
    BY DEF PoolInv, BuffersPartitioned, IdleHasNone
  <2> QED BY <2>1, <2>2, <2>3, <2>4
<1> QED BY <1>1, <1>2

(* The sessions, the threads, the semaphore and the pool together: none of   *)
(* these is inductive alone.                                                *)
THEOREM Inductive == Spec => []IInv
BY InitInv, IInvStep, PTL DEF Spec

(* Every variable of pxi and of its threads keeps its type, wherever the     *)
(* threads are: no panic and no step leaves a session out of its states.     *)
THEOREM TypeCorrect == Spec => []TypeOK
<1>1. IInv => TypeOK
  BY DEF IInv, TypeInv
<1> QED BY <1>1, Inductive, PTL

(* The semaphore of sender.c:177 counts the sessions that have a reply, for  *)
(* any number of sessions, clients that leave and the end of pxi.            *)
THEOREM SemaphoreCountsReplies == Spec => []RepliesAreCounted
<1>1. IInv => RepliesAreCounted
  BY DEF IInv
<1> QED BY <1>1, Inductive, PTL

(* So the sender that has taken a count always finds a reply: the panic of   *)
(* sender.c:180 is out of reach.                                            *)
THEOREM SenderFindsAReply == Spec => [](On("reply") => Replies # {})
<1>1. IInv => (On("reply") => Replies # {})
  <2> SUFFICES ASSUME IInv, On("reply"), Replies = {} PROVE FALSE
    OBVIOUS
  <2>1. ev.reply \in Nat /\ Telling \in Nat /\ Ending \in Nat /\ Looking = 1
    BY TypeParts DEF IInv, TypeInv, EventType, Telling, Ending, Looking
  <2>2. 0 = ev.reply + Telling + Looking + Ending
    BY CountParts, FS_EmptySet DEF IInv
  <2> QED BY <2>1, <2>2
<1> QED BY <1>1, Inductive, PTL

(* The static buffers are shared out without overlap and none is lost,       *)
(* whatever each session needs and however many there are.                   *)
THEOREM PoolStaysPartitioned == Spec => []BuffersPartitioned
<1>1. IInv => BuffersPartitioned
  BY DEF IInv, PoolInv
<1> QED BY <1>1, Inductive, PTL

---------------------------------------------------------------------------
(* The data of the commands.  The kernel fills the lowest buffers on offer,  *)
(* the sender gives back the highest: it keeps the right ones if four are on *)
(* offer.  That is so if four are left whatever the sessions hold, which the *)
(* 21 buffers of the code do not guarantee when nearly all sessions have a   *)
(* command under way.                                                       *)

EnoughBuffers ==
  \A u \in [Sessions -> SUBSET Buffers] :
    (\A s \in Sessions : Cardinality(u[s]) <= nbStaticBuffersByService[s])
      => Cardinality(Buffers \ UNION {u[s] : s \in Sessions}) >= 4

LEMMA BuffersFinite ==
  /\ Buffers \subseteq Nat /\ IsFiniteSet(Buffers)
  /\ \A S \in SUBSET Buffers : /\ IsFiniteSet(S) /\ Cardinality(S) \in Nat
                               /\ (Cardinality(S) = 0 <=> S = {})
<1>1. Buffers \subseteq Nat /\ IsFiniteSet(Buffers)
  BY PxiAssumption, FS_Interval DEF Buffers
<1> QED BY <1>1, FS_Subset, FS_CardinalityType, FS_EmptySet

(* A set of buffers has a highest one.                                      *)
LEMMA HighestExists ==
  ASSUME NEW S \in SUBSET Buffers, S # {}
  PROVE  \E h \in S : \A x \in S \ {h} : x < h
<1> DEFINE R == {ss \in Nat \X Nat : ss[1] < ss[2]}
           Mirror(x) == NB_STATIC_BUFFERS - 1 - x
           T == {Mirror(x) : x \in S}
<1>1. IsWellFoundedOn(R, Nat)
  BY NatLessThanWellFounded DEF OpToRel
<1>2. T \subseteq Nat /\ T # {}
  BY PxiAssumption DEF Buffers
<1>3. \E t \in T : \A y \in T : ~(<<y, t>> \in R)
  <2> HIDE DEF R, T
  <2> QED BY <1>1, <1>2, WFMin
<1>4. PICK h \in S : \A y \in T : ~(<<y, Mirror(h)>> \in R)
  BY <1>3
<1>5. ASSUME NEW x \in S \ {h} PROVE x < h
  <2>1. x \in Nat /\ h \in Nat /\ Mirror(x) \in Nat /\ Mirror(h) \in Nat /\ Mirror(x) \in T
    BY <1>2, BuffersFinite
  <2>2. ~(Mirror(x) < Mirror(h))
    BY <1>4, <2>1
  <2> QED BY <2>1, <2>2, PxiAssumption
<1> QED BY <1>5

LEMMA HighestRemoved ==
  ASSUME NEW S \in SUBSET Buffers, Cardinality(S) > 0
  PROVE  \E h \in S, T \in SUBSET Buffers :
           T = S \ {h} /\ Cardinality(T) = Cardinality(S) - 1 /\ \A x \in T : x < h
<1>1. S # {} /\ IsFiniteSet(S)
  BY BuffersFinite
<1>2. PICK h \in S : \A x \in S \ {h} : x < h
  BY <1>1, HighestExists
<1>3. Cardinality(S \ {h}) = Cardinality(S) - 1
  BY <1>1, FS_RemoveElement
<1> QED BY <1>2, <1>3

Top(S, a, b, c, d) == /\ a \in S /\ b \in S /\ c \in S /\ d \in S
                      /\ a > b /\ b > c /\ c > d
                      /\ \A x \in S \ {a, b, c, d} : x < d
LEMMA FourHighest ==
  ASSUME NEW S \in SUBSET Buffers, Cardinality(S) >= 4
  PROVE  \E a, b, c, d : Top(S, a, b, c, d) /\ Cardinality(S \ {a, b, c, d}) = Cardinality(S) - 4
<1>0. Cardinality(S) \in Nat /\ S \subseteq Nat
  BY BuffersFinite
<1>1. PICK a \in S, T1 \in SUBSET Buffers :
        T1 = S \ {a} /\ Cardinality(T1) = Cardinality(S) - 1 /\ \A x \in T1 : x < a
  BY <1>0, HighestRemoved
<1>2. PICK b \in T1, T2 \in SUBSET Buffers :
        T2 = T1 \ {b} /\ Cardinality(T2) = Cardinality(T1) - 1 /\ \A x \in T2 : x < b
  BY <1>0, <1>1, HighestRemoved
<1>3. PICK c \in T2, T3 \in SUBSET Buffers :
        T3 = T2 \ {c} /\ Cardinality(T3) = Cardinality(T2) - 1 /\ \A x \in T3 : x < c
  BY <1>0, <1>1, <1>2, HighestRemoved
<1>4. PICK d \in T3, T4 \in SUBSET Buffers :
        T4 = T3 \ {d} /\ Cardinality(T4) = Cardinality(T3) - 1 /\ \A x \in T4 : x < d
  BY <1>0, <1>1, <1>2, <1>3, HighestRemoved
<1>5. a \in S /\ b \in S /\ c \in S /\ d \in S /\ T4 = S \ {a, b, c, d}
  BY <1>1, <1>2, <1>3, <1>4
<1>6. Cardinality(T4) = Cardinality(S) - 4
  BY <1>0, <1>1, <1>2, <1>3, <1>4
<1>7. a > b /\ b > c /\ c > d
  BY <1>0, <1>1, <1>2, <1>3, <1>4, <1>5
<1>8. Top(S, a, b, c, d) /\ Cardinality(S \ {a, b, c, d}) = Cardinality(S) - 4
  BY <1>4, <1>5, <1>6, <1>7 DEF Top
<1> QED BY <1>8

LEMMA OneMore ==
  ASSUME NEW S, IsFiniteSet(S), NEW x, x \notin S, NEW T, T = S \cup {x}
  PROVE  IsFiniteSet(T) /\ Cardinality(T) = Cardinality(S) + 1
BY FS_AddElement

(* Where each of the four highest stands in the set                         *)
Stands(S, a, b, c, d) ==
  /\ Cardinality(Above(S, a)) = 0 /\ Cardinality(Above(S, b)) = 1
  /\ Cardinality(Above(S, c)) = 2 /\ Cardinality(Above(S, d)) = 3
  /\ \A x \in S \ {a, b, c, d} : Cardinality(Above(S, x)) \in Nat /\ Cardinality(Above(S, x)) >= 4
  /\ Cardinality({}) = 0 /\ Cardinality({d}) = 1 /\ Cardinality({d, c}) = 2
  /\ Cardinality({d, c, b}) = 3 /\ Cardinality({d, c, b, a}) = 4
LEMMA Standing ==
  ASSUME NEW S \in SUBSET Buffers, NEW a, NEW b, NEW c, NEW d, Top(S, a, b, c, d)
  PROVE  Stands(S, a, b, c, d)
<1>1. S \subseteq Nat /\ a \in S /\ b \in S /\ c \in S /\ d \in S
      /\ a > b /\ b > c /\ c > d /\ \A x \in S \ {a, b, c, d} : x < d
  BY BuffersFinite DEF Top
<1>2. a # b /\ a # c /\ a # d /\ b # c /\ b # d /\ c # d
  BY <1>1
<1>3. Above(S, a) = {} /\ Above(S, b) = {a} /\ Above(S, c) = {a, b} /\ Above(S, d) = {a, b, c}
  <2>1. \A x \in S : x \in Nat /\ (x = a \/ x = b \/ x = c \/ x = d \/ x < d)
    BY <1>1
  <2>2. \A x \in S : /\ ~(x > a) /\ (x > b <=> x = a) /\ (x > c <=> x = a \/ x = b)
                     /\ (x > d <=> x = a \/ x = b \/ x = c)
    BY <1>1, <2>1
  <2>3. Above(S, a) = {}
    BY <2>2 DEF Above
  <2>4. Above(S, b) = {a}
    BY <1>1, <2>2 DEF Above
  <2>5. Above(S, c) = {a, b}
    BY <1>1, <2>2 DEF Above
  <2>6. Above(S, d) = {a, b, c}
    BY <1>1, <2>2 DEF Above
  <2> QED BY <2>3, <2>4, <2>5, <2>6
<1>4. /\ Cardinality({}) = 0 /\ Cardinality({a}) = 1 /\ Cardinality({a, b}) = 2
      /\ Cardinality({a, b, c}) = 3 /\ Cardinality({a, b, c, d}) = 4
  <2>1. IsFiniteSet({a}) /\ Cardinality({a}) = 1 /\ Cardinality({}) = 0
    BY FS_Singleton, FS_EmptySet
  <2>2. IsFiniteSet({a, b}) /\ Cardinality({a, b}) = Cardinality({a}) + 1
    BY <1>2, <2>1, OneMore
  <2>3. IsFiniteSet({a, b, c}) /\ Cardinality({a, b, c}) = Cardinality({a, b}) + 1
    BY <1>2, <2>2, OneMore
  <2>4. Cardinality({a, b, c, d}) = Cardinality({a, b, c}) + 1
    BY <1>2, <2>3, OneMore
  <2> QED BY <2>1, <2>2, <2>3, <2>4
<1>5. /\ Cardinality({d}) = 1 /\ Cardinality({d, c}) = 2
      /\ Cardinality({d, c, b}) = 3 /\ Cardinality({d, c, b, a}) = 4
  <2>1. IsFiniteSet({d}) /\ Cardinality({d}) = 1
    BY FS_Singleton
  <2>2. IsFiniteSet({d, c}) /\ Cardinality({d, c}) = Cardinality({d}) + 1
    BY <1>2, <2>1, OneMore
  <2>3. IsFiniteSet({d, c, b}) /\ Cardinality({d, c, b}) = Cardinality({d, c}) + 1
    BY <1>2, <2>2, OneMore
  <2>4. Cardinality({d, c, b, a}) = Cardinality({d, c, b}) + 1
    BY <1>2, <2>3, OneMore
  <2> QED BY <2>1, <2>2, <2>3, <2>4
<1>6. ASSUME NEW x \in S \ {a, b, c, d}
      PROVE  Cardinality(Above(S, x)) \in Nat /\ Cardinality(Above(S, x)) >= 4
  <2>1. {a, b, c, d} \subseteq Above(S, x)
    BY <1>1 DEF Above
  <2>2. IsFiniteSet(Above(S, x)) /\ Cardinality(Above(S, x)) \in Nat
    BY BuffersFinite DEF Above
  <2> QED BY <1>4, <2>1, <2>2, FS_Subset
<1> QED BY <1>3, <1>4, <1>5, <1>6 DEF Stands

(* What acquireStaticBuffers takes                                          *)
LEMMA FourAcquired ==
  ASSUME NEW S \in SUBSET Buffers, Cardinality(S) >= 4
  PROVE  Cardinality(S \ clearMSBs(S, 4)) = 4
<1>1. PICK a, b, c, d : Top(S, a, b, c, d)
  BY FourHighest, Zenon
<1>2. Stands(S, a, b, c, d)
  BY <1>1, Standing
<1>3. S \ clearMSBs(S, 4) = {d, c, b, a}
  BY <1>1, <1>2 DEF clearMSBs, Top, Stands
<1> QED BY <1>2, <1>3 DEF Stands

(* Of four buffers, giving back the 4 - n highest keeps the n lowest.       *)
LEMMA LowestKept ==
  ASSUME NEW S \in SUBSET Buffers, Cardinality(S) = 4, NEW n \in 0..4
  PROVE  clearMSBs(S, 4 - n) = Lowest(S, n) /\ Cardinality(Lowest(S, n)) = n
<1>0. S \subseteq Nat
  BY BuffersFinite
<1>1. Cardinality(S) >= 4
  OBVIOUS
<1>10. PICK a, b, c, d : Top(S, a, b, c, d) /\ Cardinality(S \ {a, b, c, d}) = Cardinality(S) - 4
  BY <1>1, FourHighest, Zenon
<1>2. S = {a, b, c, d} /\ a > b /\ b > c /\ c > d
  <2>1. S \ {a, b, c, d} \in SUBSET Buffers
    OBVIOUS
  <2>2. Cardinality(S \ {a, b, c, d}) = 0
    BY <1>10
  <2>3. S \ {a, b, c, d} = {}
    BY <2>1, <2>2, BuffersFinite, Zenon
  <2> QED BY <1>10, <2>3 DEF Top
<1>11. Stands(S, a, b, c, d)
  BY <1>10, Standing
<1>3. /\ Cardinality(Above(S, a)) = 0 /\ Cardinality(Above(S, b)) = 1
      /\ Cardinality(Above(S, c)) = 2 /\ Cardinality(Above(S, d)) = 3
      /\ Cardinality({}) = 0 /\ Cardinality({d}) = 1 /\ Cardinality({d, c}) = 2
      /\ Cardinality({d, c, b}) = 3 /\ Cardinality({d, c, b, a}) = 4
  BY <1>11 DEF Stands
<1>4. Below(S, d) = {} /\ Below(S, c) = {d} /\ Below(S, b) = {d, c} /\ Below(S, a) = {d, c, b}
  BY <1>0, <1>2 DEF Below
<1>5. \A x \in S : Cardinality(Above(S, x)) >= 4 - n <=> Cardinality(Below(S, x)) < n
  BY <1>2, <1>3, <1>4
<1>6. clearMSBs(S, 4 - n) = Lowest(S, n)
  BY <1>5 DEF clearMSBs, Lowest
<1>7. /\ n = 0 => Lowest(S, n) = {}
      /\ n = 1 => Lowest(S, n) = {d}
      /\ n = 2 => Lowest(S, n) = {d, c}
      /\ n = 3 => Lowest(S, n) = {d, c, b}
      /\ n = 4 => Lowest(S, n) = {d, c, b, a}
  BY <1>2, <1>3, <1>4 DEF Lowest
<1> QED BY <1>3, <1>6, <1>7

ReservedInv ==
  /\ Cardinality(currentlyProvidedStaticBuffers) = 4
  /\ \A s \in Sessions : Cardinality(usedStaticBuffers[s]) <= nbStaticBuffersByService[s]
  /\ On("command") => filled[sender.who] = Lowest(currentlyProvidedStaticBuffers,
                                                  nbStaticBuffersByService[sender.who])
  /\ \A s \in Sessions : state[s] = "idle" /\ ~(On("command") /\ sender.who = s) => filled[s] = {}
  /\ DataIsReserved

LEMMA InitReserved == ASSUME EnoughBuffers, Init PROVE ReservedInv
<1>1. Cardinality(Buffers) >= 4
  <2> DEFINE u == [s \in Sessions |-> {}]
  <2>1. u \in [Sessions -> SUBSET Buffers] /\ \A s \in Sessions : Cardinality(u[s]) = 0
    BY FS_EmptySet
  <2>2. Buffers \ UNION {u[s] : s \in Sessions} = Buffers
    OBVIOUS
  <2>3. \A s \in Sessions : Cardinality(u[s]) <= nbStaticBuffersByService[s]
    BY <2>1, PxiAssumption
  <2> HIDE DEF u
  <2> QED BY <2>1, <2>2, <2>3 DEF EnoughBuffers
<1>2. Cardinality(currentlyProvidedStaticBuffers) = 4
  BY <1>1, FourAcquired DEF Init
<1>3. \A s \in Sessions : Cardinality(usedStaticBuffers[s]) <= nbStaticBuffersByService[s]
  BY FS_EmptySet, PxiAssumption DEF Init
<1> QED BY <1>2, <1>3, SessionIds DEF ReservedInv, Init, On, DataIsReserved
LEMMA StepsOfFilled ==
  Next => UNCHANGED filled \/ ReceiveEvent \/ (Arm9Reply /\ ~Panic)
BY DEF Next, Pxi, Sender, SenderLoop, Receiver, Handler, MainRuns, Arm9, Clients, Done, vars, poolVars,
   ClientSteps, Connect, Ask, Leave, Arm9Answers, Arm9Asks, Arm9Sends, Panic, notReceiver,
   notHandler, notMain,
   ReceiverStarts, ReceiverWakes, ReceiverDrained, Receive, Notify, ReceiverAwaits,
   HandlerStarts, HandlerWakes, Handle, HandlerAcquires, HandlerTransfers, HandlerReplied,
   Accept, Accepted, MainLast, MainAcquires, MainTransfers, MainJoins, ShouldTerminate,
   Send, SenderAcquires, SenderTransfers, SendEnds, Reply, SessionClosed, CommandReceived,
   SendAllBuffers, SenderTerminates

LEMMA ReservedStep ==
  ASSUME EnoughBuffers, IInv, ReservedInv, Next
  PROVE  ReservedInv'
<1> USE SessionIds, TypeParts DEF IInv, TypeInv
<1> DEFINE nb(s) == nbStaticBuffersByService[s]
<1>1. CASE CommandReceived /\ ~Panic
  <2> DEFINE s == sender.who
             prov == currentlyProvidedStaticBuffers
             free1 == freeStaticBuffers \cup (prov \ clearMSBs(prov, 4 - nb(s)))
  <2>1. s \in Sessions /\ state[s] = "idle" /\ state' = [state EXCEPT ![s] = "fromArm11"]
        /\ ~On("command")' /\ UNCHANGED filled
    BY <1>1, KnownIds DEF CommandReceived, On, SenderType
  <2>2. /\ usedStaticBuffers' = [usedStaticBuffers EXCEPT ![s] = clearMSBs(prov, 4 - nb(s))]
        /\ currentlyProvidedStaticBuffers' = free1 \ clearMSBs(free1, 4)
        /\ freeStaticBuffers' = clearMSBs(free1, 4)
    BY <1>1 DEF CommandReceived, Provided
  <2>3. prov \in SUBSET Buffers /\ nb(s) \in 0..4 /\ Cardinality(prov) = 4
    BY <2>1, PxiAssumption DEF PoolType, ReservedInv
  <2>4. clearMSBs(prov, 4 - nb(s)) = Lowest(prov, nb(s)) /\ Cardinality(Lowest(prov, nb(s))) = nb(s)
    BY <2>3, LowestKept
  <2>5. filled[s] = Lowest(prov, nb(s))
    BY <1>1 DEF ReservedInv, CommandReceived
  <2>6. \A r \in Sessions : Cardinality(usedStaticBuffers'[r]) <= nb(r)
    BY <2>1, <2>2, <2>3, <2>4 DEF ReservedInv, PoolType
  <2>7. Cardinality(currentlyProvidedStaticBuffers') = 4
    <3>1. PoolInv' /\ usedStaticBuffers' \in [Sessions -> SUBSET Buffers]
      BY PoolStep, PoolTypeStep DEF PoolType
    <3>2. free1 = Buffers \ UNION {usedStaticBuffers'[r] : r \in Sessions}
      <4>1. free1 = freeStaticBuffers' \cup currentlyProvidedStaticBuffers'
        BY <2>2 DEF clearMSBs
      <4> QED BY <3>1, <4>1 DEF PoolInv, BuffersPartitioned
    <3>3. Cardinality(free1) >= 4
      BY <2>6, <3>1, <3>2 DEF EnoughBuffers
    <3>4. free1 \in SUBSET Buffers
      BY <3>2
    <3> QED BY <2>2, <3>3, <3>4, FourAcquired
  <2>8. \A r \in Sessions : r # s => usedStaticBuffers'[r] = usedStaticBuffers[r] /\ state'[r] = state[r]
    BY <2>1, <2>2 DEF PoolType, SessionType
  <2>9. state'[s] = "fromArm11" /\ usedStaticBuffers'[s] = filled[s]
    BY <2>1, <2>2, <2>4, <2>5 DEF PoolType, SessionType
  <2> QED BY <2>1, <2>6, <2>7, <2>8, <2>9 DEF ReservedInv, DataIsReserved, On
<1>2. CASE Arm9Reply /\ ~Panic
  <2>1. Answered \in Sessions /\ Released(Answered) /\ state' = [state EXCEPT ![Answered] = "idle"]
        /\ UNCHANGED currentlyProvidedStaticBuffers /\ ~On("command") /\ ~On("command")'
    BY <1>2, ChosenSessions DEF Arm9Reply, Replies, On, SenderType
  <2>2. /\ state'[Answered] = "idle" /\ filled'[Answered] = {} /\ usedStaticBuffers'[Answered] = {}
        /\ \A r \in Sessions : r # Answered =>
             /\ state'[r] = state[r] /\ filled'[r] = filled[r]
             /\ usedStaticBuffers'[r] = usedStaticBuffers[r]
    BY <2>1 DEF Released, PoolType, SessionType
  <2>3. \A r \in Sessions : Cardinality(usedStaticBuffers'[r]) <= nb(r)
    <3>1. Cardinality(usedStaticBuffers'[Answered]) = 0 /\ nb(Answered) \in 0..4
      BY <2>1, <2>2, FS_EmptySet, PxiAssumption
    <3> QED BY <2>2, <3>1 DEF ReservedInv
  <2> QED BY <2>1, <2>2, <2>3 DEF ReservedInv, DataIsReserved
<1>3. CASE ReceiveEvent
  <2>1. UNCHANGED <<state, usedStaticBuffers, currentlyProvidedStaticBuffers>> /\ ~On("command")
    BY <1>3 DEF ReceiveEvent, On
  <2>2. CASE UNCHANGED filled /\ ~On("command")'
    BY <2>1, <2>2 DEF ReservedInv, DataIsReserved
  <2>3. ASSUME NEW s \in sender.idle, client[s].st = "asking", On("command")', sender'.who = s,
               filled' = [filled EXCEPT ![s] = Lowest(currentlyProvidedStaticBuffers, nb(s))]
        PROVE  ReservedInv'
    <3>1. s \in Sessions
      BY DEF SenderType
    <3>2. state[s] = "idle"
      BY <1>3, <2>3, <3>1 DEF Alive, Quiet, Rested, ReceiveEvent
    <3> QED BY <2>1, <2>3, <3>1, <3>2 DEF ReservedInv, DataIsReserved, PoolType
  <2> QED BY <1>3, <2>2, <2>3, ChosenSessions DEF ReceiveEvent, Readable, Happens, SenderType, On
<1>4. CASE ~(CommandReceived /\ ~Panic) /\ ~(Arm9Reply /\ ~Panic) /\ ~ReceiveEvent
  <2>1. UNCHANGED <<usedStaticBuffers, freeStaticBuffers, currentlyProvidedStaticBuffers>>
    BY <1>4, StepsOfPool
  <2>2. UNCHANGED filled
    BY <1>4, StepsOfFilled
  <2>3. (On("command")' <=> On("command")) /\ (On("command") => sender'.who = sender.who)
    BY <1>4, StepsOfSender DEF Send, SenderAcquires, SenderTransfers, SendEnds, Reply, Happens, On,
       SessionClosed, SendAllBuffers, Continue, Arm9Reply, CommandReceived, Panic, SenderTerminates,
       SenderType
  <2>4. \A s \in Sessions : (state'[s] = "idle" <=> state[s] = "idle")
                          \/ (state[s] = "idle" /\ filled[s] = {} /\ ~On("command"))
    <3>1. CASE SameStates
      BY <3>1 DEF SameStates
    <3>2. CASE Send
      BY <3>2, ChosenSessions DEF Send, ToSend, SessionType
    <3>3. CASE Receive
      BY <3>3, KnownIds DEF Receive, Panic, SessionType
    <3>4. CASE Arm9Reply \/ CommandReceived
      BY <1>4, <3>4 DEF Panic
    <3>5. CASE MainLast
      <4>1. state[0] = "idle" /\ ~On("command")
        BY <3>5 DEF MainLast, Begins, Quiet
      <4>2. filled[0] = {} /\ state' = [state EXCEPT ![0] = "sentToArm9"]
        BY <3>5, <4>1 DEF MainLast, ReservedInv
      <4> QED BY <4>1, <4>2 DEF SessionType
    <3> QED BY <3>1, <3>2, <3>3, <3>4, <3>5, StepsOfStates
  <2> QED BY <2>1, <2>2, <2>3, <2>4 DEF ReservedInv, DataIsReserved
<1> QED BY <1>1, <1>2, <1>3, <1>4

(* A command keeps the buffers its data is in until its reply, and no two    *)
(* sessions share one, if there are buffers for every need and four more.    *)
THEOREM DataStaysReserved == ASSUME EnoughBuffers PROVE Spec => []StaticBuffersSound
<1>1. Init => IInv /\ ReservedInv
  BY InitInv, InitReserved
<1>2. IInv /\ ReservedInv /\ IInv' /\ [Next]_vars => (IInv /\ ReservedInv)'
  <2>1. ASSUME IInv, ReservedInv, UNCHANGED vars PROVE ReservedInv'
    BY <2>1 DEF ReservedInv, DataIsReserved, On, vars, poolVars
  <2> QED BY <2>1, ReservedStep
<1>3. IInv /\ ReservedInv => StaticBuffersSound
  BY DEF IInv, PoolInv, ReservedInv, StaticBuffersSound
<1> QED BY <1>1, <1>2, <1>3, Inductive, PTL DEF Spec
=============================================================================
