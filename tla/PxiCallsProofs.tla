-------------------------- MODULE PxiCallsProofs ---------------------------
(***************************************************************************)
(* The calls of pxi, for any number of sessions: pxi:mc 5 counts what is in *)
(* flight, and every reply goes to the client whose request it answers.     *)
(***************************************************************************)
EXTENDS PxiProofs

---------------------------------------------------------------------------
(* The end of the sender                                                    *)

(* Nothing stops the sender, and main sends no command, before pm has told   *)
(* pxi to end.                                                              *)
EndsOK ==
  /\ ev.terminate \/ On("terminate") \/ sender.pc \in {"terminate", "ended"} => shouldTerminate
  /\ main.pc \in {"last", "acquire", "transfer", "join", "ended"} => shouldTerminate

LEMMA StepsOfTermination == TypeInv /\ Next => ev'.terminate = ev.terminate \/ Notify
<1> SUFFICES ASSUME TypeInv, Next PROVE ev'.terminate = ev.terminate \/ Notify
  OBVIOUS
<1> USE TypeParts DEF TypeInv, EventType
<1>1. CASE UNCHANGED ev
  BY <1>1
<1>2. CASE Arm9Asks \/ \E s \in Sessions : Arm9Answers(s)
  BY <1>2 DEF Arm9Asks, Arm9Answers, Arm9Sends
<1>3. CASE ReceiverStarts \/ ReceiverWakes \/ ReceiverAwaits
  BY <1>3 DEF ReceiverStarts, ReceiverWakes, ReceiverAwaits, Panic
<1>4. CASE HandlerStarts \/ HandlerWakes \/ HandlerReplied \/ Accepted
  BY <1>4 DEF HandlerStarts, HandlerWakes, HandlerReplied, Accepted, Panic
<1>5. CASE ReceiveEvent
  BY <1>5 DEF ReceiveEvent
<1> QED BY <1>1, <1>2, <1>3, <1>4, <1>5 DEF Next, Pxi, Sender, SenderLoop, Receiver, Handler, MainRuns,
     Arm9, Clients, Done, vars, ClientSteps, Connect, Ask, Leave, Panic,
     ReceiverDrained, Receive, Handle, HandlerAcquires, HandlerTransfers,
     Accept, MainLast, MainAcquires, MainTransfers, MainJoins, ShouldTerminate,
     Send, SenderAcquires, SenderTransfers, SendEnds, Reply, SessionClosed, SendAllBuffers,
     Arm9Reply, CommandReceived, SenderTerminates

LEMMA EndsStep == TypeInv /\ EndsOK /\ Next => EndsOK'
<1> SUFFICES ASSUME TypeInv, EndsOK, Next PROVE EndsOK'
  OBVIOUS
<1> USE TypeParts DEF TypeInv, EndsOK
<1>1. shouldTerminate => shouldTerminate'
  BY StepsOfEnd DEF ShouldTerminate
<1>2. ev'.terminate => shouldTerminate'
  <2>1. CASE Notify
    BY <1>1, <2>1 DEF Notify, IsLast, EventType
  <2> QED BY <1>1, <2>1, StepsOfTermination
<1>3. sender'.pc \in {"terminate", "ended"} \/ On("terminate")' => shouldTerminate
  <2> USE DEF On, SenderType
  <2>1. CASE UNCHANGED sender
    BY <2>1
  <2>2. CASE Send \/ SenderTransfers \/ SendEnds \/ SessionClosed \/ SendAllBuffers
    BY <2>2 DEF Send, SenderTransfers, SendEnds, SessionClosed, SendAllBuffers, Continue
  <2>3. CASE SenderAcquires
    BY <2>3 DEF SenderAcquires
  <2>4. CASE Reply
    BY <2>4 DEF Reply, Happens
  <2>5. CASE ReceiveEvent
    BY <2>5 DEF ReceiveEvent, Happens
  <2>6. CASE Arm9Reply \/ CommandReceived
    BY <2>6 DEF Arm9Reply, CommandReceived, Panic
  <2>7. CASE SenderTerminates
    BY <2>7 DEF SenderTerminates
  <2> QED BY <2>1, <2>2, <2>3, <2>4, <2>5, <2>6, <2>7, StepsOfSender
<1>4. main'.pc \in {"last", "acquire", "transfer", "join", "ended"} => shouldTerminate'
  BY <1>1, StepsOfMain DEF Accept, Accepted, Panic, ShouldTerminate, MainLast, MainAcquires, MainTransfers,
     MainJoins, MainType
<1> QED BY <1>1, <1>2, <1>3, <1>4

---------------------------------------------------------------------------
(* Where the command of a session is: with the sender, with the ARM9, or on  *)
(* its way back.                                                            *)

Lost(s)     == s = 0 /\ shouldTerminate        \* its session is main's
Carrying(s) == sender.pc \in {"acquire", "transfer"} /\ sender.next = s
Working(s)  == \E m \in arm9.working : m.id = s
Queued(s)   == \E i \in DOMAIN arm9.fifo : arm9.fifo[i].id = s

(* It is in one of them, with the words of the session's buffer.            *)
PlaceOK(s) ==
  /\ Carrying(s) \/ Working(s) \/ Queued(s) => state[s] = "sentToArm9"
  /\ Carrying(s) => ~Working(s) /\ ~Queued(s)
  /\ Working(s) => ~Queued(s)
  /\ \A m \in arm9.working : m.id = s => m.msg = buffer[s]
  /\ \A i \in DOMAIN arm9.fifo : arm9.fifo[i].id = s =>
       /\ arm9.fifo[i].msg = buffer[s]
       /\ \A j \in DOMAIN arm9.fifo : arm9.fifo[j].id = s => i = j
PlacesOK == \A s \in Sessions : ~Lost(s) => PlaceOK(s)

LEMMA StepsOfArm9 ==
  Next => \/ UNCHANGED <<arm9.working, arm9.fifo>> \/ Receive \/ SenderTransfers \/ MainTransfers
          \/ Arm9Asks \/ \E s \in Sessions : Arm9Answers(s)
<1>1. Transferred(Srv11, buffer[Srv11]) => UNCHANGED <<arm9.working, arm9.fifo>>
  BY DEF Transferred
<1> QED BY <1>1 DEF Next, Pxi, Sender, SenderLoop, Receiver, Handler, MainRuns, Arm9, Clients, Done, vars,
   ClientSteps, Connect, Ask, Leave, Panic,
   ReceiverStarts, ReceiverWakes, ReceiverDrained, Notify, ReceiverAwaits,
   HandlerStarts, HandlerWakes, Handle, HandlerAcquires, HandlerTransfers, HandlerReplied,
   Accept, Accepted, MainLast, MainAcquires, MainJoins, ShouldTerminate,
   Send, SenderAcquires, SendEnds, Reply, ReceiveEvent, SessionClosed,
   SendAllBuffers, Arm9Reply, CommandReceived, SenderTerminates

SameBuffers == \A s \in Sessions : buffer'[s] = buffer[s]
LEMMA StepsOfBuffers ==
  TypeInv /\ Next => SameBuffers \/ Receive \/ Arm9Reply \/ CommandReceived
<1> SUFFICES ASSUME TypeInv, Next PROVE SameBuffers \/ Receive \/ Arm9Reply \/ CommandReceived
  OBVIOUS
<1>1. CASE UNCHANGED buffer
  BY <1>1 DEF SameBuffers
<1>2. CASE HandlerReplied
  BY <1>2, SessionIds, TypeParts DEF HandlerReplied, TypeInv, SessionType, SameBuffers
<1> QED BY <1>1, <1>2 DEF Next, Pxi, Sender, SenderLoop, Receiver, Handler, MainRuns, Arm9, Clients,
     Done, vars, Connect, Ask, Leave, ClientSteps, Arm9Answers, Arm9Asks, Arm9Sends, Panic, notMain,
     ReceiverStarts, ReceiverWakes, ReceiverDrained, Notify, ReceiverAwaits,
     HandlerStarts, HandlerWakes, Handle, HandlerAcquires, HandlerTransfers,
     Accept, Accepted, MainLast, MainAcquires, MainTransfers, MainJoins, ShouldTerminate,
     Send, SenderAcquires, SenderTransfers, SendEnds, Reply, ReceiveEvent, SessionClosed, SendAllBuffers,
     SenderTerminates

LEMMA StepsOfCarrying ==
  TypeInv /\ Next => \A s \in Sessions : Carrying(s)' => Carrying(s) \/ (Send /\ s = Least(ToSend))
<1> USE TypeParts DEF TypeInv, SenderType, Carrying
<1>1. CASE UNCHANGED sender
  BY <1>1
<1>2. CASE Send
  BY <1>2 DEF Send
<1>3. CASE SenderAcquires \/ SenderTransfers \/ SendEnds
  BY <1>3 DEF SenderAcquires, SenderTransfers, SendEnds
<1>4. CASE Reply \/ ReceiveEvent
  BY <1>4 DEF Reply, ReceiveEvent, Happens
<1>5. CASE SessionClosed \/ SendAllBuffers
  BY <1>5 DEF SessionClosed, SendAllBuffers, Continue
<1>6. CASE Arm9Reply \/ CommandReceived \/ SenderTerminates
  BY <1>6 DEF Arm9Reply, CommandReceived, Panic, SenderTerminates
<1> QED BY <1>1, <1>2, <1>3, <1>4, <1>5, <1>6, StepsOfSender
LEMMA PlacesStep == TypeInv /\ EndsOK /\ PlacesOK /\ Next => PlacesOK'
<1> SUFFICES ASSUME TypeInv, EndsOK, PlacesOK, Next, NEW s \in Sessions, ~Lost(s)' PROVE PlaceOK(s)'
  BY DEF PlacesOK
<1> USE SessionIds, TypeParts DEF TypeInv
<1>1. PlaceOK(s)
  BY StepsOfEnd DEF PlacesOK, Lost, ShouldTerminate
<1>2. /\ arm9.fifo \in Seq([id : Ids, msg : Messages]) /\ arm9.working \subseteq [id : Sessions, msg : Messages]
      /\ DOMAIN arm9.fifo = 1..Len(arm9.fifo) /\ Len(arm9.fifo) \in Nat
  BY DEF Arm9Type
(* The steps that leave the ARM9 alone                                      *)
<1>3. CASE /\ UNCHANGED <<arm9.working, arm9.fifo>> /\ state'[s] = state[s] /\ buffer'[s] = buffer[s]
           /\ Carrying(s)' => Carrying(s)
  BY <1>1, <1>3 DEF PlaceOK, Working, Queued
<1>4. CASE Send
  <2>1. /\ Least(ToSend) \in Sessions /\ state[Least(ToSend)] = "fromArm11"
        /\ state' = [state EXCEPT ![Least(ToSend)] = "sentToArm9"] /\ UNCHANGED <<arm9, buffer>>
    BY <1>4, ChosenSessions DEF Send, ToSend
  <2>2. CASE s = Least(ToSend)
    <3>1. ~Working(s) /\ ~Queued(s) /\ state'[s] = "sentToArm9"
      BY <1>1, <2>1, <2>2 DEF PlaceOK, SessionType
    <3> QED BY <2>1, <3>1 DEF PlaceOK, Working, Queued
  <2>3. CASE s # Least(ToSend)
    <3>1. state'[s] = state[s]
      BY <2>1, <2>3 DEF SessionType
    <3> QED BY <1>3, <2>1, <2>3, <3>1, StepsOfCarrying
  <2> QED BY <2>2, <2>3
<1>5. CASE Arm9Reply \/ CommandReceived
  <2>1. UNCHANGED arm9 /\ ~Carrying(s)'
    BY <1>5 DEF Arm9Reply, CommandReceived, Panic, On, Carrying, SenderType
  <2>2. CASE state'[s] = state[s] /\ buffer'[s] = buffer[s]
    BY <1>3, <2>1, <2>2
  <2>3. CASE state[s] # "sentToArm9"
    BY <1>1, <2>1, <2>3 DEF PlaceOK, Working, Queued
  <2>4. CASE Panic
    BY <2>2, <2>4 DEF Panic
  <2>5. CASE Arm9Reply /\ ~Panic /\ state[s] = "sentToArm9"
    <3>1. Answered # s /\ Answered \in Sessions
      BY <2>5, ChosenSessions DEF Arm9Reply, Replies
    <3> QED BY <2>2, <2>5, <3>1 DEF Arm9Reply, SessionType
  <2>6. CASE CommandReceived /\ ~Panic /\ state[s] = "sentToArm9"
    BY <2>2, <2>6, KnownIds DEF CommandReceived, SessionType
  <2> QED BY <1>5, <2>3, <2>4, <2>5, <2>6
<1>6. CASE Receive
  <2>1. CASE Panic
    BY <1>3, <2>1 DEF Panic, Carrying
  <2>2. CASE ~Panic
    <3> DEFINE m == Head(arm9.fifo)
    <3>1. /\ arm9.fifo # <<>> /\ state[m.id] = "sentToArm9" /\ arm9'.fifo = Tail(arm9.fifo)
          /\ arm9'.working = arm9.working /\ UNCHANGED sender
          /\ buffer' = [buffer EXCEPT ![m.id] = m.msg] /\ state' = [state EXCEPT ![m.id] = "fromArm9"]
      BY <1>6, <2>2 DEF Receive, notReceiver, Arm9Type
    <3>2. /\ m.id \in Ids /\ m = arm9.fifo[1] /\ 1 \in DOMAIN arm9.fifo
          /\ arm9'.fifo \in Seq([id : Ids, msg : Messages])
          /\ DOMAIN arm9'.fifo = 1..Len(arm9.fifo)-1
          /\ \A i \in 1..Len(arm9.fifo)-1 : arm9'.fifo[i] = arm9.fifo[i+1]
      BY <1>2, <3>1, KnownIds
    <3> HIDE DEF m
    <3>3. \A i \in DOMAIN arm9'.fifo : i + 1 \in DOMAIN arm9.fifo /\ arm9'.fifo[i] = arm9.fifo[i+1] /\ i \in Int
      <4> DEFINE n == Len(arm9.fifo)
      <4>1. n \in Nat /\ DOMAIN arm9.fifo = 1..n /\ DOMAIN arm9'.fifo = 1..n-1
        BY <1>2, <3>2
      <4>2. \A i \in 1..n-1 : arm9'.fifo[i] = arm9.fifo[i+1]
        BY <3>2
      <4> HIDE DEF n
      <4>3. \A i \in 1..n-1 : i + 1 \in 1..n /\ i \in Int
        BY <4>1
      <4> QED BY <4>1, <4>2, <4>3
    <3>4. CASE m.id = s
      <4>1. Queued(s)
        BY <3>2, <3>4 DEF Queued
      <4>2. ~Carrying(s) /\ ~Working(s)
        BY <1>1, <4>1 DEF PlaceOK
      <4>3. ASSUME NEW i \in DOMAIN arm9'.fifo PROVE arm9'.fifo[i].id # s
        <5>1. arm9'.fifo[i].id = s => i + 1 = 1
          BY <1>1, <3>2, <3>3, <3>4 DEF PlaceOK
        <5>2. i \in 1..Len(arm9.fifo)-1
          BY <3>2
        <5> QED BY <5>1, <5>2, <1>2
      <4> QED BY <3>1, <4>2, <4>3 DEF PlaceOK, Working, Queued, Carrying
    <3>5. CASE m.id # s
      <4>1. state'[s] = state[s] /\ buffer'[s] = buffer[s]
        BY <3>1, <3>5 DEF SessionType
      <4>2. Queued(s)' => Queued(s)
        BY <3>3 DEF Queued
      <4>3. ASSUME NEW i \in DOMAIN arm9'.fifo, arm9'.fifo[i].id = s
            PROVE  /\ arm9'.fifo[i].msg = buffer[s]
                   /\ \A j \in DOMAIN arm9'.fifo : arm9'.fifo[j].id = s => i = j
        <5>1. arm9'.fifo[i].msg = buffer[s]
          BY <1>1, <3>3, <4>3 DEF PlaceOK
        <5>2. ASSUME NEW j \in DOMAIN arm9'.fifo, arm9'.fifo[j].id = s PROVE i = j
          <6>1. i + 1 = j + 1
            BY <1>1, <3>3, <4>3, <5>2 DEF PlaceOK
          <6> QED BY <3>3, <6>1
        <5> QED BY <5>1, <5>2
      <4> QED BY <1>1, <3>1, <4>1, <4>2, <4>3 DEF PlaceOK, Working, Carrying
    <3> QED BY <3>4, <3>5
  <2> QED BY <2>1, <2>2
<1>7. CASE SenderTransfers
  <2>1. /\ UNCHANGED <<state, buffer>> /\ arm9'.fifo = arm9.fifo /\ ~Carrying(s)'
        /\ sender.next \in Sessions /\ Carrying(sender.next)
        /\ arm9'.working = arm9.working \cup {[id |-> sender.next, msg |-> buffer[sender.next]]}
    BY <1>7 DEF SenderTransfers, Transferred, Located, Carrying, SenderType, Arm9Type, Srv11
  <2>2. CASE s = sender.next
    <3>1. ~Working(s) /\ ~Queued(s) /\ state[s] = "sentToArm9"
      BY <1>1, <2>1, <2>2 DEF PlaceOK
    <3> QED BY <2>1, <2>2, <3>1 DEF PlaceOK, Working, Queued
  <2>3. CASE s # sender.next
    <3>1. \A m \in arm9'.working : m.id = s => m \in arm9.working
      BY <2>1, <2>3
    <3> QED BY <1>1, <2>1, <2>3, <3>1 DEF PlaceOK, Working, Queued
  <2> QED BY <2>2, <2>3
<1>8. CASE MainTransfers
  <2>1. /\ UNCHANGED <<state, buffer, sender>> /\ arm9'.fifo = arm9.fifo /\ s # 0
        /\ arm9'.working = arm9.working \cup {[id |-> 0, msg |-> Last]}
    BY <1>8, StepsOfEnd DEF MainTransfers, Transferred, LastFrom, notMain, EndsOK, Lost, ShouldTerminate, Srv11,
       Arm9Type
  <2>2. \A m \in arm9'.working : m.id = s => m \in arm9.working
    BY <2>1
  <2> QED BY <1>1, <2>1, <2>2 DEF PlaceOK, Working, Queued, Carrying
<1>9. ASSUME NEW m \in [id : Ids, msg : Messages], Arm9Sends(m), m.id = s => m \in arm9.working
      PROVE  PlaceOK(s)'
  <2>1. /\ UNCHANGED <<state, buffer, sender>>
        /\ arm9'.fifo = Append(arm9.fifo, m) /\ arm9'.working = arm9.working \ {m}
    BY <1>9 DEF Arm9Sends, Arm9Type
  <2>2. /\ DOMAIN arm9'.fifo = 1..Len(arm9.fifo)+1
        /\ \A i \in DOMAIN arm9.fifo : i \in DOMAIN arm9'.fifo /\ arm9'.fifo[i] = arm9.fifo[i]
        /\ arm9'.fifo[Len(arm9.fifo)+1] = m
        /\ \A i \in DOMAIN arm9'.fifo : i \in DOMAIN arm9.fifo \/ i = Len(arm9.fifo)+1
    BY <1>2, <2>1
  <2>3. CASE m.id # s
    <3>1. \A i \in DOMAIN arm9'.fifo : arm9'.fifo[i].id = s =>
             i \in DOMAIN arm9.fifo /\ arm9'.fifo[i] = arm9.fifo[i]
      BY <2>2, <2>3
    <3> QED BY <1>1, <2>1, <3>1 DEF PlaceOK, Working, Queued, Carrying
  <2>4. CASE m.id = s
    <3>1. m \in arm9.working /\ m.msg = buffer[s] /\ ~Queued(s) /\ ~Carrying(s) /\ state[s] = "sentToArm9"
      BY <1>1, <1>9, <2>4 DEF PlaceOK, Working
    <3>2. \A i \in DOMAIN arm9'.fifo : arm9'.fifo[i].id = s => i = Len(arm9.fifo)+1 /\ arm9'.fifo[i] = m
      BY <2>2, <3>1 DEF Queued
    <3>3. ASSUME NEW k \in arm9'.working, k.id = s PROVE FALSE
      <4>1. k \in arm9.working /\ k # m /\ k.msg = buffer[s]
        BY <1>1, <2>1, <3>3 DEF PlaceOK
      <4>2. k \in [id : Sessions, msg : Messages] /\ m \in [id : Sessions, msg : Messages]
        BY <1>2, <3>1, <4>1
      <4> QED BY <2>4, <3>1, <3>3, <4>1, <4>2
    <3> QED BY <2>1, <3>1, <3>2, <3>3 DEF PlaceOK, Working, Queued, Carrying
  <2> QED BY <2>3, <2>4
<1>10. CASE Arm9Asks \/ \E r \in Sessions : Arm9Answers(r)
  <2>1. CASE Arm9Asks
    <3>1. PICK r \in Requests9 : Arm9Sends([id |-> Srv11, msg |-> r])
      BY <2>1 DEF Arm9Asks
    <3> QED BY <1>9, <3>1, MessagesOK
  <2>2. CASE \E r \in Sessions : Arm9Answers(r)
    <3>1. PICK m \in arm9.working : Arm9Sends(m)
      BY <2>2 DEF Arm9Answers
    <3> QED BY <1>2, <1>9, <3>1
  <2> QED BY <1>10, <2>1, <2>2
<1>11. CASE MainLast
  <2>1. s # 0 /\ UNCHANGED <<arm9, buffer, sender>> /\ state'[s] = state[s]
    BY <1>11, StepsOfEnd DEF MainLast, notMain, EndsOK, Lost, ShouldTerminate, SessionType
  <2> QED BY <1>3, <2>1 DEF Carrying
<1>12. CASE /\ ~Send /\ ~Arm9Reply /\ ~CommandReceived /\ ~Receive /\ ~SenderTransfers /\ ~MainTransfers
            /\ ~Arm9Asks /\ ~(\E r \in Sessions : Arm9Answers(r)) /\ ~MainLast
  <2>1. UNCHANGED <<arm9.working, arm9.fifo>>
    BY <1>12, StepsOfArm9
  <2>2. state'[s] = state[s]
    BY <1>12, StepsOfStates DEF SameStates
  <2>3. buffer'[s] = buffer[s]
    BY <1>12, StepsOfBuffers DEF SameBuffers
  <2>4. Carrying(s)' => Carrying(s)
    BY <1>12, StepsOfCarrying
  <2> QED BY <1>3, <2>1, <2>2, <2>3, <2>4
<1> QED BY <1>4, <1>5, <1>6, <1>7, <1>8, <1>10, <1>11, <1>12

---------------------------------------------------------------------------
(* What a client waits for                                                  *)

(* A client that waits has a session whose handle pxi keeps, and whatever    *)
(* pxi has of that session is its request.                                  *)
ClientKept(s) ==
  /\ client[s].st = "asking" => client[s].cmd \in Commands
  /\ client[s].st \in {"none", "open", "closed"} => client[s].cmd = Empty
  /\ client[s].st = "waiting" =>
       /\ handle[s] /\ client[s].cmd \in Commands
       /\ (state[s] # "idle" => buffer[s] = client[s].cmd)
       /\ (On("command") /\ sender.who = s => sender.cmdbuf = client[s].cmd)
       /\ (Held /\ sender.target = s => sender.cmdbuf = client[s].cmd)
TargetKept ==
  /\ Held /\ sender.target # None => sender.pc \in {"send", "reply"} /\ handle[sender.target]
  /\ sender.pc \in {"reply", "receive"} => \A s \in sender.idle : handle[s]
KeptOK == TargetKept /\ \A s \in Sessions : ClientKept(s)

LEMMA StepsOfHandles ==
  Next => \/ UNCHANGED handle \/ SessionClosed
          \/ main.id \in Sessions /\ handle' = [handle EXCEPT ![main.id] = TRUE] /\ UNCHANGED sender
          \/ main.id \notin Sessions /\ Accepted
BY DEF Next, Pxi, Sender, SenderLoop, Receiver, Handler, MainRuns, Arm9, Clients, Done, vars,
   ClientSteps, Connect, Ask, Leave, Arm9Answers, Arm9Asks, Arm9Sends, Panic, notReceiver, notHandler, notMain,
   ReceiverStarts, ReceiverWakes, ReceiverDrained, Receive, Notify, ReceiverAwaits,
   HandlerStarts, HandlerWakes, Handle, HandlerAcquires, HandlerTransfers, HandlerReplied,
   Accept, Accepted, MainLast, MainAcquires, MainTransfers, MainJoins, ShouldTerminate,
   Send, SenderAcquires, SenderTransfers, SendEnds, Reply, ReceiveEvent, SendAllBuffers,
   Arm9Reply, CommandReceived, SenderTerminates

LEMMA TargetStep == TypeInv /\ TargetKept /\ Next => TargetKept'
<1> SUFFICES ASSUME TypeInv, TargetKept, Next PROVE TargetKept'
  OBVIOUS
<1> USE SessionIds, TypeParts DEF TypeInv, SenderType, TargetKept, Held
<1>1. CASE UNCHANGED <<sender, handle>>
  BY <1>1
<1>2. CASE UNCHANGED sender /\ handle' = [handle EXCEPT ![main.id] = TRUE]
  BY <1>2 DEF SessionType
<1>3. CASE Send \/ SenderAcquires \/ SenderTransfers
  <2>1. /\ sender.pc \in {"send", "acquire", "transfer"} /\ UNCHANGED handle
        /\ sender'.target = sender.target
        /\ sender'.pc \in {"send", "acquire", "transfer", "terminate"}
        /\ Send => sender.target = None
    <3>1. CASE Send
      BY <3>1 DEF Send
    <3>2. CASE SenderAcquires
      BY <3>2 DEF SenderAcquires
    <3>3. CASE SenderTransfers
      BY <3>3 DEF SenderTransfers
    <3> QED BY <1>3, <3>1, <3>2, <3>3
  <2>2. sender.target # None => sender.pc = "send"
    BY <2>1
  <2>3. sender.target # None => ~SenderAcquires /\ ~SenderTransfers
    BY <2>2 DEF SenderAcquires, SenderTransfers
  <2> QED BY <1>3, <2>1, <2>3
<1>4. CASE SendEnds
  <2>1. /\ sender.pc = "send" /\ sender'.pc = "reply" /\ sender'.target = sender.target /\ UNCHANGED handle
        /\ sender'.idle = {s \in Sessions : handle[s] /\ state[s] = "idle"}
    BY <1>4 DEF SendEnds
  <2> QED BY <2>1
<1>5. CASE Reply \/ ReceiveEvent
  <2>1. CASE Reply
    <3>1. UNCHANGED handle /\ sender'.pc \in {"receive", "event"} /\ sender.pc = "reply" /\ sender'.idle \subseteq sender.idle
      BY <2>1 DEF Reply, Happens
    <3> QED BY <3>1
  <2>2. CASE ReceiveEvent
    <3>1. sender'.pc = "event"
      BY <2>2 DEF ReceiveEvent, Happens
    <3> QED BY <3>1
  <2> QED BY <1>5, <2>1, <2>2
<1>6. CASE SessionClosed \/ SendAllBuffers \/ SenderTerminates
  <2>1. sender'.pc = "ended" \/ (sender'.pc = "send" /\ sender'.target = None)
    BY <1>6 DEF SessionClosed, SendAllBuffers, Continue, SenderTerminates
  <2> QED BY <2>1
<1>7. CASE Arm9Reply \/ CommandReceived
  <2>1. CASE Panic
    BY <1>1, <2>1 DEF Panic
  <2>2. CASE ~Panic
    <3>1. /\ sender'.pc = "send" /\ UNCHANGED handle
          /\ sender'.target = None \/ handle[sender'.target]
      BY <1>7, <2>2 DEF Arm9Reply, CommandReceived
    <3> QED BY <3>1
  <2> QED BY <2>1, <2>2
<1>8. Accepted => main.id \in Sessions
  BY DEF Accepted, Located
<1>9. CASE UNCHANGED sender /\ ~SessionClosed
  BY <1>1, <1>2, <1>8, <1>9, StepsOfHandles
<1> QED BY <1>3, <1>4, <1>5, <1>6, <1>7, <1>9, StepsOfSender

LEMMA ClientKeptStep ==
  ASSUME IInv, EndsOK, PlacesOK, KeptOK, Next, NEW s \in Sessions
  PROVE  ClientKept(s)'
<1> USE SessionIds, TypeParts DEF IInv, TypeInv
<1>1. ClientKept(s) /\ TargetKept
  BY DEF KeptOK
<1>2. Empty \notin Commands
  BY DEF Empty, Commands
(* The steps that leave what pxi has of the session alone                    *)
<1>3. ASSUME handle[s] => handle'[s], state'[s] # "idle" => state[s] # "idle", buffer'[s] = buffer[s],
             UNCHANGED sender
      PROVE  client'[s] = client[s] => ClientKept(s)'
  BY <1>1, <1>3 DEF ClientKept, On, Held
<1>4. ASSUME NEW r \in Sessions, Connect(r) \/ Ask(r) \/ Leave(r) PROVE ClientKept(s)'
  <2>1. UNCHANGED <<handle, state, buffer, sender>>
    BY <1>4 DEF Connect, Ask, Leave, ClientSteps
  <2>2. \/ client'[s] = client[s]
        \/ client'[s].st = "open" /\ client[s].st = "none" /\ client'[s].cmd = client[s].cmd
        \/ client'[s].st = "asking" /\ client'[s].cmd \in Commands
        \/ client'[s].st = "closed" /\ client'[s].cmd = Empty
    BY <1>4 DEF Connect, Ask, Leave, NoClient, ClientType
  <2> QED BY <1>1, <1>3, <2>1, <2>2 DEF ClientKept
<1>5. CASE Send
  <2>1. /\ Least(ToSend) \in Sessions /\ state[Least(ToSend)] = "fromArm11" /\ sender.target = None
        /\ state' = [state EXCEPT ![Least(ToSend)] = "sentToArm9"] /\ UNCHANGED <<handle, buffer, client>>
        /\ sender'.pc = "acquire" /\ sender'.target = sender.target
    BY <1>5, ChosenSessions DEF Send, ToSend, SenderType
  <2>2. state'[s] # "idle" => state[s] # "idle"
    BY <2>1 DEF SessionType
  <2> QED BY <1>1, <2>1, <2>2 DEF ClientKept, On, Held
<1>6. CASE SenderAcquires \/ SenderTransfers \/ SendEnds
  <2>1. /\ sender'.pc \in {"terminate", "transfer", "send", "reply"} /\ sender'.target = sender.target
        /\ sender'.cmdbuf = sender.cmdbuf /\ UNCHANGED <<handle, buffer, client, state>> /\ Held
    BY <1>6 DEF SenderAcquires, SenderTransfers, SendEnds, SenderType, Held
  <2> QED BY <1>1, <2>1 DEF ClientKept, On, Held
<1>7. CASE Reply
  <2>1. UNCHANGED <<state, buffer, handle>> /\ sender'.pc \in {"receive", "event"} /\ ~On("command")'
    BY <1>7 DEF Reply, Happens, On, SenderType
  <2>2. client'[s] = client[s] \/ (client'[s].st = "open" /\ client'[s].cmd = Empty)
    BY <1>7 DEF Reply, NoClient, ClientType, SenderType
  <2> QED BY <1>1, <2>1, <2>2 DEF ClientKept, Held
<1>8. CASE ReceiveEvent
  <2>1. UNCHANGED <<state, buffer, handle>> /\ sender.pc = "receive" /\ sender'.pc = "event"
    BY <1>8 DEF ReceiveEvent, Happens, SenderType
  <2>2. CASE UNCHANGED client /\ ~On("command")'
    BY <1>1, <2>1, <2>2 DEF ClientKept, Held
  <2>3. CASE On("command")'
    <3>1. PICK r \in sender.idle : /\ client[r].st = "asking" /\ client' = [client EXCEPT ![r].st = "waiting"]
                                   /\ sender'.who = r /\ sender'.cmdbuf = client[r].cmd
      BY <1>8, <2>3, ChosenSessions, ZenonT(30) DEF ReceiveEvent, Happens, SenderType, Readable, On
    <3>2. r \in Sessions /\ handle[r] /\ client[r].cmd \in Commands
      BY <1>1, <2>1, <3>1 DEF TargetKept, KeptOK, ClientKept, SenderType
    <3>3. CASE r = s
      <4>1. client'[s].st = "waiting" /\ client'[s].cmd = client[s].cmd
        BY <3>1, <3>2, <3>3 DEF ClientType
      <4>2. state[s] = "idle"
        BY <2>1, <3>1, <3>3, StepsOfEnd, <3>2 DEF Alive, Rested, Quiet
      <4> QED BY <2>1, <3>1, <3>2, <3>3, <4>1, <4>2 DEF ClientKept, Held
    <3>4. CASE r # s
      <4>1. client'[s] = client[s]
        BY <3>1, <3>2, <3>4 DEF ClientType
      <4> QED BY <1>1, <2>1, <3>1, <3>4, <4>1 DEF ClientKept, Held
    <3> QED BY <3>3, <3>4
  <2> QED BY <1>8, <2>2, <2>3, ZenonT(30) DEF ReceiveEvent, Happens, On, SenderType
<1>9. CASE SessionClosed
  <2>1. /\ sender.who \in Sessions /\ handle' = [handle EXCEPT ![sender.who] = FALSE]
        /\ client' = [client EXCEPT ![sender.who] = NoClient] /\ UNCHANGED <<state, buffer>>
        /\ sender'.pc = "send" /\ sender'.target = None
    BY <1>9 DEF SessionClosed, Continue, SenderType, Located
  <2>2. CASE s = sender.who
    BY <2>1, <2>2 DEF ClientKept, ClientType, NoClient
  <2>3. CASE s # sender.who
    <3>1. handle'[s] = handle[s] /\ client'[s] = client[s]
      BY <2>1, <2>3 DEF SessionType, ClientType
    <3> QED BY <1>1, <2>1, <3>1 DEF ClientKept, On
  <2> QED BY <2>2, <2>3
<1>10. CASE SendAllBuffers
  BY <1>1, <1>10 DEF SendAllBuffers, Continue, ClientKept, On, Held, SenderType
<1>11. CASE Arm9Reply
  <2>1. CASE Panic
    BY <1>3, <2>1 DEF Panic, clientVars
  <2>2. CASE ~Panic
    <3>1. /\ Answered \in Sessions /\ state[Answered] = "fromArm9" /\ UNCHANGED <<client, handle>>
          /\ state' = [state EXCEPT ![Answered] = "idle"] /\ buffer' = [buffer EXCEPT ![Answered] = Empty]
          /\ sender'.pc = "send" /\ sender'.target \in {Answered, None} /\ sender'.cmdbuf = buffer[Answered]
      BY <1>11, <2>2, ChosenSessions DEF Arm9Reply, Replies, SenderType
    <3>2. CASE s = Answered
      <4>1. state'[s] = "idle"
        BY <3>1, <3>2 DEF SessionType
      <4> QED BY <1>1, <3>1, <3>2, <4>1 DEF ClientKept, On
    <3>3. CASE s # Answered
      <4>1. state'[s] = state[s] /\ buffer'[s] = buffer[s]
        BY <3>1, <3>3 DEF SessionType
      <4> QED BY <1>1, <3>1, <3>3, <4>1 DEF ClientKept, On
    <3> QED BY <3>2, <3>3
  <2> QED BY <2>1, <2>2
<1>12. CASE CommandReceived
  <2>1. CASE Panic
    BY <1>3, <2>1 DEF Panic, clientVars
  <2>2. CASE ~Panic
    <3>1. /\ sender.who \in Sessions /\ UNCHANGED <<client, handle>> /\ On("command")
          /\ state' = [state EXCEPT ![sender.who] = "fromArm11"]
          /\ buffer' = [buffer EXCEPT ![sender.who] = sender.cmdbuf]
          /\ sender'.pc = "send" /\ sender'.target = None
      BY <1>12, <2>2, KnownIds DEF CommandReceived, SenderType
    <3>2. CASE s = sender.who
      <4>1. buffer'[s] = sender.cmdbuf
        BY <3>1, <3>2 DEF SessionType
      <4> QED BY <1>1, <3>1, <3>2, <4>1 DEF ClientKept, On
    <3>3. CASE s # sender.who
      <4>1. state'[s] = state[s] /\ buffer'[s] = buffer[s]
        BY <3>1, <3>3 DEF SessionType
      <4> QED BY <1>1, <3>1, <4>1 DEF ClientKept, On
    <3> QED BY <3>2, <3>3
  <2> QED BY <2>1, <2>2
<1>13. CASE SenderTerminates
  <2>1. /\ client' = [r \in Sessions |-> IF handle[r] THEN NoClient ELSE client[r]]
        /\ UNCHANGED <<state, buffer, handle>> /\ sender'.pc = "ended"
    BY <1>13 DEF SenderTerminates, SenderType
  <2>2. (client'[s].st = "none" /\ client'[s].cmd = Empty) \/ (client'[s] = client[s] /\ ~handle[s])
    BY <2>1 DEF NoClient
  <2> QED BY <1>1, <2>1, <2>2 DEF ClientKept
<1>14. CASE Receive
  <2>1. CASE Panic
    BY <1>3, <2>1 DEF Panic, clientVars
  <2>2. CASE ~Panic
    <3> DEFINE m == Head(arm9.fifo)
    <3>1. /\ arm9.fifo # <<>> /\ state[m.id] = "sentToArm9" /\ UNCHANGED <<sender, handle, client>>
          /\ buffer' = [buffer EXCEPT ![m.id] = m.msg] /\ state' = [state EXCEPT ![m.id] = "fromArm9"]
      BY <1>14, <2>2 DEF Receive, notReceiver, clientVars
    <3>2. m = arm9.fifo[1] /\ 1 \in DOMAIN arm9.fifo /\ m.id \in Ids
      BY <3>1, KnownIds DEF Arm9Type
    <3> HIDE DEF m
    <3>3. CASE m.id # s
      <4>1. state'[s] = state[s] /\ buffer'[s] = buffer[s]
        BY <3>1, <3>3 DEF SessionType
      <4> QED BY <1>3, <3>1, <4>1
    <3>4. CASE m.id = s /\ ~Lost(s)
      <4>1. m.msg = buffer[s]
        BY <3>2, <3>4 DEF PlacesOK, PlaceOK
      <4>2. buffer'[s] = buffer[s] /\ state[s] # "idle"
        BY <3>1, <3>4, <4>1 DEF SessionType
      <4> QED BY <1>3, <3>1, <4>2
    <3>5. CASE Lost(s)
      <4>1. client[s].st = "none"
        BY <3>5 DEF Quiet, Lost
      <4> QED BY <1>1, <3>1, <4>1 DEF ClientKept
    <3> QED BY <3>3, <3>4, <3>5
  <2> QED BY <2>1, <2>2
<1>15. CASE MainLast
  <2>1. client[s].st = "none" /\ UNCHANGED client
    BY <1>15 DEF MainLast, notMain, EndsOK, Quiet
  <2> QED BY <1>1, <2>1 DEF ClientKept
<1>16. CASE UNCHANGED <<sender, client>> /\ SameStates /\ SameBuffers
  <2>1. Accepted => main.id \in Sessions
    BY DEF Accepted, Located
  <2>2. handle[s] => handle'[s]
    <3>1. CASE SessionClosed
      BY <3>1, <1>16 DEF SessionClosed, Continue, On, SenderType
    <3> QED BY <2>1, <3>1, StepsOfHandles DEF SessionType
  <2> QED BY <1>3, <1>16, <2>2 DEF SameStates, SameBuffers
<1> QED BY <1>4, <1>5, <1>6, <1>7, <1>8, <1>9, <1>10, <1>11, <1>12, <1>13, <1>14, <1>15, <1>16,
           StepsOfSender, StepsOfClients, StepsOfStates, StepsOfBuffers

LEMMA KeptStep == IInv /\ EndsOK /\ PlacesOK /\ KeptOK /\ Next => KeptOK'
BY ClientKeptStep, TargetStep DEF KeptOK, IInv

---------------------------------------------------------------------------
(* pxi:mc 5 and the commands in flight                                      *)

(* Session 0 has asked for pxi:mc 5 and has no reply yet.                    *)
ModeUnderWay == \/ client[0].st = "asking" /\ client[0].cmd.op # "other"
                \/ On("command") /\ sender.who = 0 /\ sender.cmdbuf.op # "other"
                \/ state[0] # "idle" /\ latest_PXI_MC5_val # 0
(* Commands are what the sender receives, and only pxi:mc sends pxi:mc 5.    *)
CommandsOK ==
  /\ sender.event = "command" => On("command") /\ sender.cmdbuf \in Commands
  /\ \A s \in Sessions \ {0} : /\ client[s].st = "asking" => client[s].cmd.op = "other"
                               /\ On("command") /\ sender.who = s => sender.cmdbuf.op = "other"
(* While pxi:mc 5 is under way or commands are held back, no other session   *)
(* has a command; and when they no longer are, none is left of it.          *)
ModeAlone == /\ ModeUnderWay \/ sendingDisabled => \A s \in Sessions \ {0} : ~UnderWay(s)
             /\ ModeUnderWay => client[0].cmd.op # "other"
ModeOver  == latest_PXI_MC5_val # 0 /\ ~sendingDisabled => \A s \in Sessions : state[s] = "idle"
ModeHeld  == sendingDisabled =>
  /\ latest_PXI_MC5_val # 0
  /\ client[0].st = "asking" => client[0].cmd.op # "other"
  /\ On("command") /\ sender.who = 0 => sender.cmdbuf.op # "other"
ModesOK == /\ shouldTerminate => state[0] # "fromArm11"
           /\ ~shouldTerminate => CommandsOK /\ ModeAlone /\ ModeOver /\ ModeHeld

LEMMA StepsOfModes ==
  Next => UNCHANGED modeVars \/ Send \/ (Arm9Reply /\ ~Panic) \/ (CommandReceived /\ ~Panic)
BY DEF Next, Pxi, Sender, SenderLoop, Receiver, Handler, MainRuns, Arm9, Clients, Done, vars, modeVars,
   ClientSteps, Connect, Ask, Leave, Arm9Answers, Arm9Asks, Arm9Sends, Panic, notReceiver, notHandler, notMain,
   ReceiverStarts, ReceiverWakes, ReceiverDrained, Receive, Notify, ReceiverAwaits,
   HandlerStarts, HandlerWakes, Handle, HandlerAcquires, HandlerTransfers, HandlerReplied,
   Accept, Accepted, MainLast, MainAcquires, MainTransfers, MainJoins, ShouldTerminate,
   SenderAcquires, SenderTransfers, SendEnds, Reply, ReceiveEvent, SessionClosed, SendAllBuffers,
   SenderTerminates

(* What the sender has received, and what it does to the session             *)
LEMMA CommandOfSender ==
  ASSUME TypeInv, CommandReceived, ~Panic
  PROVE  /\ sender.who \in Sessions /\ state[sender.who] = "idle"
         /\ state' = [state EXCEPT ![sender.who] = "fromArm11"]
         /\ latest_PXI_MC5_val' = ModeAsked(sender.cmdbuf.op)
         /\ sendingDisabled' = (sendingDisabled \/ latest_PXI_MC5_val' = 1)
         /\ latest_PXI_MC5_val' = 2 => sendingDisabled
         /\ UNCHANGED <<pendingArm9Commands, client, shouldTerminate>>
         /\ sender'.event = "none"
BY KnownIds, TypeParts DEF CommandReceived, notSender, ends, TypeInv, SenderType

LEMMA ReplyOfSender ==
  ASSUME TypeInv, Arm9Reply, ~Panic
  PROVE  /\ Answered \in Sessions /\ state[Answered] = "fromArm9" /\ Replies # {}
         /\ state' = [state EXCEPT ![Answered] = "idle"] /\ ReplyCounted
         /\ UNCHANGED <<latest_PXI_MC5_val, client, shouldTerminate>>
         /\ sender'.event = "none"
BY ChosenSessions, TypeParts DEF Arm9Reply, Replies, notSender, ends, TypeInv, SenderType

(* What the sender sends                                                    *)
LEMMA CommandSent ==
  ASSUME TypeInv, Send
  PROVE  /\ Least(ToSend) \in Sessions /\ state[Least(ToSend)] = "fromArm11"
         /\ state' = [state EXCEPT ![Least(ToSend)] = "sentToArm9"]
         /\ pendingArm9Commands' = IF sendingDisabled THEN pendingArm9Commands ELSE pendingArm9Commands + 1
         /\ UNCHANGED <<latest_PXI_MC5_val, sendingDisabled, client, shouldTerminate>>
         /\ sender'.event = sender.event /\ sender.pc = "send"
BY ChosenSessions, TypeParts DEF Send, ToSend, notSender, ends, TypeInv, SenderType

(* How the command on the sender's buffer comes there                        *)
LEMMA EventsOfSender ==
  ASSUME TypeInv, Next, sender'.event = "command"
  PROVE  \/ UNCHANGED sender
         \/ /\ sender.event = "command" /\ ~On("command") /\ sender'.pc # "event"
         \/ /\ ReceiveEvent /\ sender'.pc = "event" /\ sender'.who \in Sessions
            /\ client[sender'.who].st = "asking" /\ sender'.cmdbuf = client[sender'.who].cmd
            /\ sender'.who \in sender.idle
<1> USE TypeParts DEF TypeInv, SenderType
<1>1. CASE Send \/ SenderAcquires \/ SenderTransfers \/ SendEnds
  BY <1>1 DEF Send, SenderAcquires, SenderTransfers, SendEnds, On
<1>2. CASE Reply
  BY <1>2 DEF Reply, Happens, On
<1>3. CASE ReceiveEvent
  BY <1>3, ChosenSessions, ZenonT(30) DEF ReceiveEvent, Happens, Readable
<1>4. CASE SessionClosed \/ SendAllBuffers
  BY <1>4 DEF SessionClosed, SendAllBuffers, Continue
<1>5. CASE Arm9Reply \/ CommandReceived
  <2>1. CASE Panic
    BY <2>1 DEF Panic
  <2>2. CASE ~Panic
    BY <1>5, <2>2, ReplyOfSender, CommandOfSender
  <2> QED BY <2>1, <2>2
<1>6. CASE SenderTerminates
  BY <1>6 DEF SenderTerminates, On
<1> QED BY <1>1, <1>2, <1>3, <1>4, <1>5, <1>6, StepsOfSender

(* A command is received for a session that has none.                        *)
ReceivedOK == On("command") => state[sender.who] = "idle"

LEMMA ReceivedStep ==
  ASSUME IInv, EndsOK, ReceivedOK, Next
  PROVE  ReceivedOK'
<1> SUFFICES ASSUME On("command")' PROVE state'[sender'.who] = "idle"
  BY DEF ReceivedOK
<1> USE SessionIds, TypeParts DEF IInv, TypeInv
<1>1. ASSUME ReceiveEvent, sender'.who \in sender.idle PROVE state'[sender'.who] = "idle"
  <2>1. UNCHANGED state /\ sender.pc = "receive" /\ ~shouldTerminate'
    BY <1>1, QuietStep DEF ReceiveEvent, Quiet
  <2> QED BY <1>1, <2>1, StepsOfEnd DEF Alive, Rested, ShouldTerminate
<1>2. ASSUME UNCHANGED sender PROVE state'[sender'.who] = "idle"
  <2>1. On("command") /\ sender.who \in Sessions /\ state[sender.who] = "idle" /\ ~shouldTerminate
    BY <1>2 DEF On, Located, ReceivedOK, Quiet
  <2>2. CASE Send
    BY <1>2, <2>1, <2>2, CommandSent DEF On
  <2>3. CASE Receive
    BY <1>2, <2>1, <2>3, KnownIds DEF Receive, Panic, SessionType
  <2>4. CASE Arm9Reply \/ CommandReceived
    BY <1>2, <2>1, <2>4, ReplyOfSender, CommandOfSender DEF Panic, On
  <2>5. ~MainLast
    BY <2>1 DEF MainLast, EndsOK
  <2> QED BY <1>2, <2>1, <2>2, <2>3, <2>4, <2>5, StepsOfStates DEF SameStates
<1> QED BY <1>1, <1>2, EventsOfSender DEF On

(* A client's command is what it has asked for.                              *)
LEMMA ClientsAsk ==
  ASSUME TypeInv, Next, NEW s \in Sessions
  PROVE  \/ Ask(s) /\ client'[s].st = "asking"
         \/ (client'[s].st \in {"asking", "waiting"} => client[s].st \in {"asking", "waiting"})
            /\ (client'[s].st = "asking" => client[s].st = "asking")
            /\ client'[s].cmd \in {client[s].cmd, Empty}
            /\ (client'[s].st = "asking" => client'[s].cmd = client[s].cmd)
<1> USE TypeParts DEF TypeInv, ClientType
<1>1. ASSUME NEW r \in Sessions, Connect(r) \/ Ask(r) \/ Leave(r) PROVE s # r => client'[s] = client[s]
  BY <1>1 DEF Connect, Ask, Leave
<1>2. CASE Connect(s) \/ Leave(s)
  BY <1>2 DEF Connect, Leave, NoClient
<1>3. CASE Ask(s)
  <2>1. \E c \in Commands : client' = [client EXCEPT ![s] = [st |-> "asking", cmd |-> c]]
    BY <1>3, Zenon DEF Ask
  <2> QED BY <1>3, <2>1
<1>4. CASE Reply
  BY <1>4 DEF Reply, NoClient, SenderType
<1>5. CASE ReceiveEvent
  <2>1. UNCHANGED client \/ \E r \in sender.idle : client[r].st = "asking"
                                                   /\ client' = [client EXCEPT ![r].st = "waiting"]
    BY <1>5, ChosenSessions, ZenonT(30) DEF ReceiveEvent, Readable
  <2> QED BY <2>1 DEF SenderType
<1>6. CASE SessionClosed
  BY <1>6 DEF SessionClosed, NoClient, Located
<1>7. CASE SenderTerminates
  BY <1>7 DEF SenderTerminates, NoClient
<1> QED BY <1>1, <1>2, <1>3, <1>4, <1>5, <1>6, <1>7, StepsOfClients

LEMMA UnderWayStep ==
  ASSUME TypeInv, Next, NEW s \in Sessions, UnderWay(s)', sender.event = "command" => On("command")
  PROVE  UnderWay(s) \/ Ask(s) \/ MainLast
<1>1. CASE state'[s] # "idle" /\ state[s] = "idle"
  <2> USE SessionIds, TypeParts DEF TypeInv, SessionType
  <2>1. CASE Send
    BY <1>1, <2>1, CommandSent
  <2>2. CASE Receive
    BY <1>1, <2>2, KnownIds DEF Receive, Panic
  <2>3. CASE Arm9Reply
    BY <1>1, <2>3, ReplyOfSender DEF Panic
  <2>4. CASE CommandReceived
    <3>1. s = sender.who
      BY <1>1, <2>4, CommandOfSender DEF Panic
    <3> QED BY <2>4, <3>1 DEF CommandReceived, On, UnderWay
  <2> QED BY <1>1, <2>1, <2>2, <2>3, <2>4, StepsOfStates DEF SameStates
<1>2. CASE client'[s].st \in {"asking", "waiting"}
  BY <1>2, ClientsAsk DEF UnderWay
<1>3. CASE sender'.event = "command" /\ sender'.who = s
  BY <1>3, EventsOfSender DEF UnderWay
<1> QED BY <1>1, <1>2, <1>3 DEF UnderWay

(* Who may ask, when pxi:mc 5 is used alone                                  *)
LEMMA AskAlone ==
  ASSUME Exclusive, TypeInv, NEW s \in Sessions, Ask(s)
  PROVE  /\ client'[s].cmd \in Commands /\ client[s].st = "open"
         /\ \A r \in Sessions \ {s} : client'[r] = client[r]
         /\ client'[s].cmd.op = "other" => ~InMode
         /\ client'[s].cmd.op # "other" => s = 0 /\ \A r \in Sessions : ~UnderWay(r)
         /\ UNCHANGED <<state, latest_PXI_MC5_val, sendingDisabled, sender>>
<1>1. PICK c \in Commands : MayAsk(s, c.op) /\ client' = [client EXCEPT ![s] = [st |-> "asking", cmd |-> c]]
  BY Zenon DEF Ask
<1>2. client'[s].cmd = c /\ \A r \in Sessions \ {s} : client'[r] = client[r]
  BY <1>1, TypeParts DEF TypeInv, ClientType
<1>3. c.op = "other" => ~InMode
  BY <1>1 DEF MayAsk
<1>4. c.op # "other" => s = 0 /\ Busy = {}
  BY <1>1 DEF MayAsk
<1>5. Busy = {} => \A r \in Sessions : ~UnderWay(r)
  BY DEF Busy
<1> QED BY <1>2, <1>3, <1>4, <1>5 DEF Ask, ClientSteps, modeVars

LEMMA ModesStep ==
  ASSUME Exclusive, IInv, EndsOK, KeptOK, ModesOK, Next
  PROVE  ModesOK'
<1> USE SessionIds, TypeParts DEF IInv, TypeInv
<1>1. (shouldTerminate => state[0] # "fromArm11")' 
  <2> SUFFICES ASSUME shouldTerminate' PROVE state'[0] # "fromArm11"
    OBVIOUS
  <2>1. CASE ShouldTerminate
    BY <2>1 DEF ShouldTerminate, UnderWay
  <2>2. CASE shouldTerminate
    <3>1. state[0] # "fromArm11" /\ ~On("command")
      BY <2>2 DEF ModesOK, Quiet
    <3>2. CASE Send
      BY <3>1, <3>2, CommandSent DEF SessionType
    <3>3. CASE Receive
      BY <3>1, <3>3, KnownIds DEF Receive, Panic, SessionType
    <3>4. CASE Arm9Reply
      BY <3>1, <3>4, ReplyOfSender DEF Panic, SessionType
    <3>5. CASE MainLast
      BY <3>5 DEF MainLast, SessionType
    <3> QED BY <3>1, <3>2, <3>3, <3>4, <3>5, StepsOfStates DEF SameStates, CommandReceived
  <2> QED BY <2>1, <2>2, StepsOfEnd
<1> SUFFICES ASSUME ~shouldTerminate' PROVE CommandsOK' /\ ModeAlone' /\ ModeOver' /\ ModeHeld'
  BY <1>1 DEF ModesOK
<1>2. ~shouldTerminate /\ ~MainLast
  BY StepsOfEnd DEF ShouldTerminate, MainLast, EndsOK
<1>3. CommandsOK /\ ModeAlone /\ ModeOver /\ ModeHeld
  BY <1>2 DEF ModesOK
<1>4. sender.event = "command" => On("command") /\ sender.cmdbuf \in Commands
  BY <1>3 DEF CommandsOK
<1>5. \A s \in Sessions : client[s].st = "asking" => client[s].cmd \in Commands
  BY DEF KeptOK, ClientKept
<1>6. Attended
  <2>1. sender.pc # "ended"
    BY <1>2 DEF EndsOK
  <2> QED BY <1>2, <2>1 DEF Alive
<1>7. 0 \in Sessions /\ Empty.op = "none" /\ \A c \in Commands : c.op \in {"other", "disable", "enable"}
  BY DEF Empty, Commands
(* A command reaches the sender from a client that asks.                     *)
<1>8. ASSUME sender'.event = "command"
      PROVE  \/ UNCHANGED sender
             \/ /\ ReceiveEvent /\ sender'.pc = "event" /\ sender'.who \in Sessions
                /\ client[sender'.who].st = "asking" /\ sender'.cmdbuf = client[sender'.who].cmd
  BY <1>4, <1>8, EventsOfSender
<1>9. CommandsOK'
  <2>1. (sender.event = "command" => On("command") /\ sender.cmdbuf \in Commands)'
    BY <1>4, <1>5, <1>8 DEF On
  <2>2. ASSUME NEW s \in Sessions \ {0}, client'[s].st = "asking" PROVE client'[s].cmd.op = "other"
    <3>1. CASE Ask(s)
      BY <3>1, AskAlone
    <3>2. CASE ~Ask(s)
      BY <1>3, <2>2, <3>2, ClientsAsk DEF CommandsOK
    <3> QED BY <3>1, <3>2
  <2>3. ASSUME NEW s \in Sessions \ {0}, On("command")', sender'.who = s PROVE sender'.cmdbuf.op = "other"
    BY <1>3, <1>8, <2>3 DEF CommandsOK, On
  <2> QED BY <2>1, <2>2, <2>3 DEF CommandsOK
(* How pxi:mc 5 comes under way                                             *)
<1>10. ASSUME CommandReceived, ~Panic, latest_PXI_MC5_val' # 0
       PROVE  sender.who = 0 /\ ModeUnderWay /\ On("command")
  <2>1. sender.cmdbuf.op # "other" /\ On("command") /\ sender.who \in Sessions
    BY <1>10, CommandOfSender DEF ModeAsked, CommandReceived
  <2> QED BY <1>3, <2>1 DEF CommandsOK, ModeUnderWay
<1>11. ModeUnderWay' => ModeUnderWay \/ (Ask(0) /\ client'[0].cmd.op # "other")
  <2>1. CASE client'[0].st = "asking" /\ client'[0].cmd.op # "other"
    BY <1>7, <2>1, ClientsAsk DEF ModeUnderWay
  <2>2. CASE On("command")' /\ sender'.who = 0 /\ sender'.cmdbuf.op # "other"
    BY <1>8, <2>2 DEF ModeUnderWay, On
  <2>3. CASE state'[0] # "idle" /\ latest_PXI_MC5_val' # 0
    <3>1. CASE CommandReceived
      <4>1. CASE Panic
        BY <2>3, <4>1 DEF Panic, modeVars, ModeUnderWay
      <4> QED BY <1>10, <2>3, <3>1, <4>1
    <3>2. CASE ~CommandReceived
      <4>1. latest_PXI_MC5_val' = latest_PXI_MC5_val
        BY <3>2, StepsOfModes, CommandSent, ReplyOfSender DEF modeVars
      <4>2. state[0] # "idle"
        <5>1. CASE Send
          BY <5>1, <2>3, CommandSent DEF SessionType
        <5>2. CASE Receive
          BY <5>2, <2>3, KnownIds DEF Receive, Panic, SessionType
        <5>3. CASE Arm9Reply
          BY <5>3, <2>3, ReplyOfSender DEF Panic, SessionType
        <5> QED BY <1>2, <2>3, <3>2, <5>1, <5>2, <5>3, StepsOfStates DEF SameStates
      <4> QED BY <2>3, <4>1, <4>2 DEF ModeUnderWay
    <3> QED BY <3>1, <3>2
  <2> QED BY <2>1, <2>2, <2>3 DEF ModeUnderWay
<1>12. ModeUnderWay => UnderWay(0)
  BY DEF ModeUnderWay, UnderWay, On
<1>13. ModeUnderWay => InMode
  BY <1>3, <1>7, <1>12 DEF ModeAlone, InMode, Busy
<1>14. sendingDisabled' => sendingDisabled \/ ModeUnderWay
  <2>1. CASE Send
    BY <2>1, CommandSent
  <2>2. CASE Arm9Reply /\ ~Panic
    BY <2>2, ReplyOfSender DEF ReplyCounted
  <2>3. CASE CommandReceived /\ ~Panic
    BY <1>10, <2>3, CommandOfSender
  <2> QED BY <2>1, <2>2, <2>3, StepsOfModes DEF modeVars
<1>15. ModeAlone'
  <2>1. ASSUME ModeUnderWay' \/ sendingDisabled', NEW s \in Sessions \ {0} PROVE ~UnderWay(s)'
    <3>1. CASE ModeUnderWay \/ sendingDisabled
      <4>1. ~UnderWay(s)
        BY <1>3, <3>1 DEF ModeAlone
      <4>2. ~Ask(s)
        <5>1. InMode
          BY <1>13, <3>1 DEF InMode
        <5> QED BY <5>1, AskAlone
      <4> QED BY <1>2, <1>4, <4>1, <4>2, UnderWayStep
    <3>2. CASE Ask(0) /\ client'[0].cmd.op # "other"
      <4>1. ~UnderWay(s)
        BY <3>2, <1>7, AskAlone
      <4>2. client'[s] = client[s] /\ UNCHANGED <<state, sender>>
        BY <3>2, <1>7, AskAlone
      <4> QED BY <4>1, <4>2 DEF UnderWay
    <3> QED BY <1>11, <1>14, <2>1, <3>1, <3>2
  <2>2. ASSUME ModeUnderWay' PROVE client'[0].cmd.op # "other"
    <3>1. CASE ModeUnderWay
      <4>1. client[0].cmd.op # "other"
        BY <1>3, <3>1 DEF ModeAlone
      <4>2. Ask(0) => client'[0].cmd.op # "other"
        BY <1>7, <1>13, <3>1, AskAlone
      <4> QED BY <1>7, <4>1, <4>2, ClientsAsk
    <3> QED BY <1>11, <2>2, <3>1
  <2> QED BY <2>1, <2>2 DEF ModeAlone
<1>16. ModeOver'
  <2> SUFFICES ASSUME latest_PXI_MC5_val' # 0, ~sendingDisabled', NEW s \in Sessions PROVE state'[s] = "idle"
    BY DEF ModeOver
  <2>1. CASE Arm9Reply /\ ~Panic
    <3>1. CASE sendingDisabled
      <4>1. \A r \in Sessions \ {0} : state[r] = "idle"
        BY <1>3, <3>1 DEF ModeAlone, UnderWay
      <4>2. Answered = 0 /\ state' = [state EXCEPT ![0] = "idle"]
        BY <2>1, <4>1, ReplyOfSender
      <4> QED BY <4>1, <4>2 DEF SessionType
    <3>2. CASE ~sendingDisabled
      BY <1>3, <2>1, <3>2, ReplyOfSender DEF ModeOver
    <3> QED BY <3>1, <3>2
  <2>2. CASE CommandReceived /\ ~Panic
    <3>1. latest_PXI_MC5_val' \in {1, 2}
      BY <2>2, CommandOfSender DEF ModeAsked
    <3> QED BY <1>10, <2>2, <3>1, CommandOfSender
  <2>3. CASE ~(Arm9Reply /\ ~Panic) /\ ~(CommandReceived /\ ~Panic)
    <3>1. latest_PXI_MC5_val # 0 /\ ~sendingDisabled
      BY <2>3, StepsOfModes, CommandSent DEF modeVars
    <3>2. \A r \in Sessions : state[r] = "idle"
      BY <1>3, <3>1 DEF ModeOver
    <3>3. CASE Send
      BY <3>2, <3>3, CommandSent
    <3>4. CASE Receive
      BY <3>2, <3>4, KnownIds DEF Receive, Panic, SessionType
    <3>5. CASE Panic
      BY <3>2, <3>5 DEF Panic
    <3> QED BY <1>2, <2>3, <3>2, <3>3, <3>4, <3>5, StepsOfStates DEF SameStates
  <2> QED BY <2>1, <2>2, <2>3
<1>17. ModeHeld'
  <2> SUFFICES ASSUME sendingDisabled' PROVE ModeHeld'
    BY DEF ModeHeld
  <2>1. latest_PXI_MC5_val' # 0
    <3>1. CASE CommandReceived /\ ~Panic
      <4>1. CASE sendingDisabled
        <5>1. sender.who = 0 /\ sender.cmdbuf.op # "other" /\ On("command") /\ sender.cmdbuf \in Commands
          BY <1>3, <1>4, <3>1, <4>1, CommandOfSender DEF ModeAlone, ModeHeld, UnderWay, CommandReceived, On
        <5>2. sender.cmdbuf.op \in {"disable", "enable"}
          BY <1>7, <5>1
        <5> QED BY <3>1, <5>2, CommandOfSender DEF ModeAsked
      <4>2. CASE ~sendingDisabled
        BY <3>1, <4>2, CommandOfSender
      <4> QED BY <4>1, <4>2
    <3>2. CASE ~(CommandReceived /\ ~Panic)
      <4>1. latest_PXI_MC5_val' = latest_PXI_MC5_val
        BY <3>2, StepsOfModes, CommandSent, ReplyOfSender DEF modeVars
      <4>2. sendingDisabled
        BY <3>2, StepsOfModes, CommandSent, ReplyOfSender DEF modeVars, ReplyCounted
      <4> QED BY <1>3, <4>1, <4>2 DEF ModeHeld
    <3> QED BY <3>1, <3>2
  <2>2. ASSUME client'[0].st = "asking" PROVE client'[0].cmd.op # "other"
    <3>1. CASE Ask(0)
      <4>1. sendingDisabled
        BY <3>1, <1>7, AskAlone
      <4> QED BY <3>1, <4>1, <1>7, AskAlone DEF InMode
    <3>2. CASE ~Ask(0)
      <4>1. client[0].st = "asking" /\ client'[0].cmd = client[0].cmd
        BY <1>7, <2>2, <3>2, ClientsAsk
      <4>2. sendingDisabled \/ (CommandReceived /\ ~Panic)
        BY StepsOfModes, CommandSent, ReplyOfSender DEF modeVars, ReplyCounted
      <4>3. CASE CommandReceived /\ ~Panic /\ ~sendingDisabled
        <5>1. sender.who = 0 /\ On("command")
          BY <1>10, <2>1, <4>3
        <5> QED BY <1>6, <1>7, <4>1, <5>1 DEF Attended, Engaged
      <4> QED BY <1>3, <4>1, <4>2, <4>3 DEF ModeHeld
    <3> QED BY <3>1, <3>2
  <2>3. ASSUME On("command")', sender'.who = 0 PROVE sender'.cmdbuf.op # "other"
    <3>1. ~(CommandReceived /\ ~Panic)
      BY <2>3, CommandOfSender DEF On
    <3>2. sendingDisabled
      BY <3>1, StepsOfModes, CommandSent, ReplyOfSender DEF modeVars, ReplyCounted
    <3> QED BY <1>3, <1>8, <2>3, <3>2 DEF ModeHeld, On
  <2> QED BY <2>1, <2>2, <2>3 DEF ModeHeld
<1> QED BY <1>9, <1>15, <1>16, <1>17

Counted == {s \in Sessions : InFlight(s) /\ ~(s = 0 /\ latest_PXI_MC5_val # 0)}
LEMMA CountedFinite == IsFiniteSet(Counted) /\ Cardinality(Counted) \in Nat
<1>1. Counted \in SUBSET Sessions
  BY DEF Counted
<1> QED BY <1>1, SessionIds, FS_Subset, FS_CardinalityType

LEMMA PendingStep ==
  ASSUME IInv, EndsOK, ModesOK, PendingIsInFlight, Next
  PROVE  PendingIsInFlight'
<1> USE SessionIds, TypeParts DEF IInv, TypeInv
<1>1. pendingArm9Commands = Cardinality(Counted)
  BY DEF PendingIsInFlight, Counted
<1>2. SUFFICES pendingArm9Commands' = Cardinality(Counted')
  BY DEF PendingIsInFlight, Counted
<1>3. CASE shouldTerminate'
  <2>1. CASE ShouldTerminate
    <3>1. \A s \in Sessions : state[s] = "idle" /\ state'[s] = "idle"
      BY <2>1 DEF ShouldTerminate, UnderWay, notMain
    <3>2. Counted = {} /\ Counted' = {}
      BY <3>1 DEF Counted, InFlight
    <3> QED BY <1>1, <2>1, <3>2 DEF ShouldTerminate, notMain, modeVars
  <2>2. CASE shouldTerminate
    <3>1. Counted = {}
      BY <2>2 DEF Counted, InFlight, Quiet
    <3>2. \A s \in Sessions \ {0} : state'[s] = "idle"
      BY <1>3, QuietStep DEF Quiet
    <3>3. Counted' = {}
      BY <1>3, <3>2 DEF Counted, InFlight
    <3>4. ~Send /\ ~(Arm9Reply /\ ~Panic) /\ ~CommandReceived
      BY <2>2, CommandSent, ReplyOfSender, NothingToLookFor DEF ModesOK, Quiet, Arm9Reply, CommandReceived
    <3>5. pendingArm9Commands' = pendingArm9Commands
      BY <3>4, StepsOfModes DEF modeVars
    <3> QED BY <1>1, <3>1, <3>3, <3>5
  <2> QED BY <1>3, <2>1, <2>2, StepsOfEnd
<1>4. CASE ~shouldTerminate'
  <2>1. ~shouldTerminate /\ ~MainLast
    BY <1>4, StepsOfEnd DEF ShouldTerminate, MainLast, EndsOK
  <2>2. CommandsOK /\ ModeAlone /\ ModeOver /\ ModeHeld
    BY <2>1 DEF ModesOK
  <2>3. Counted = {s \in Sessions : state[s] \in {"sentToArm9", "fromArm9"} /\ ~(s = 0 /\ latest_PXI_MC5_val # 0)}
        /\ Counted' = {s \in Sessions : state'[s] \in {"sentToArm9", "fromArm9"}
                                        /\ ~(s = 0 /\ latest_PXI_MC5_val' # 0)}
    BY <1>4, <2>1 DEF Counted, InFlight
  <2>4. CASE Send
    <3> DEFINE s == Least(ToSend)
    <3>1. /\ s \in Sessions /\ state[s] = "fromArm11" /\ state' = [state EXCEPT ![s] = "sentToArm9"]
          /\ pendingArm9Commands' = IF sendingDisabled THEN pendingArm9Commands ELSE pendingArm9Commands + 1
          /\ latest_PXI_MC5_val' = latest_PXI_MC5_val
      BY <2>4, CommandSent
    <3> HIDE DEF s
    <3>2. CASE sendingDisabled
      <4>1. s = 0 /\ latest_PXI_MC5_val # 0
        BY <2>2, <3>1, <3>2 DEF ModeAlone, ModeHeld, UnderWay
      <4>2. Counted' = Counted
        BY <2>3, <3>1, <4>1 DEF SessionType
      <4> QED BY <1>1, <3>1, <3>2, <4>2
    <3>3. CASE ~sendingDisabled
      <4>1. latest_PXI_MC5_val = 0
        BY <2>2, <3>1, <3>3 DEF ModeOver
      <4>2. Counted' = Counted \cup {s} /\ s \notin Counted
        BY <2>3, <3>1, <4>1 DEF SessionType
      <4>3. Cardinality(Counted') = Cardinality(Counted) + 1
        BY <4>2, CountedFinite, FS_AddElement
      <4> QED BY <1>1, <3>1, <3>3, <4>3
    <3> QED BY <3>2, <3>3
  <2>5. CASE Arm9Reply /\ ~Panic
    <3> DEFINE s == Answered
    <3>1. /\ s \in Sessions /\ state[s] = "fromArm9" /\ state' = [state EXCEPT ![s] = "idle"]
          /\ pendingArm9Commands' = IF latest_PXI_MC5_val = 0 THEN pendingArm9Commands - 1
                                    ELSE pendingArm9Commands
          /\ latest_PXI_MC5_val' = latest_PXI_MC5_val
      BY <2>5, ReplyOfSender DEF ReplyCounted
    <3> HIDE DEF s
    <3>2. CASE latest_PXI_MC5_val # 0
      <4>1. s = 0
        BY <2>2, <3>1, <3>2 DEF ModeAlone, ModeOver, UnderWay
      <4>2. Counted' = Counted
        BY <2>3, <3>1, <3>2, <4>1 DEF SessionType
      <4> QED BY <1>1, <3>1, <3>2, <4>2
    <3>3. CASE latest_PXI_MC5_val = 0
      <4>1. Counted' = Counted \ {s} /\ s \in Counted
        BY <2>3, <3>1, <3>3 DEF SessionType
      <4>2. Cardinality(Counted') = Cardinality(Counted) - 1
        BY <4>1, CountedFinite, FS_RemoveElement
      <4> QED BY <1>1, <3>1, <3>3, <4>2
    <3> QED BY <3>2, <3>3
  <2>6. CASE CommandReceived /\ ~Panic
    <3>1. /\ sender.who \in Sessions /\ state[sender.who] = "idle" /\ On("command")
          /\ state' = [state EXCEPT ![sender.who] = "fromArm11"]
          /\ pendingArm9Commands' = pendingArm9Commands
      BY <2>6, CommandOfSender DEF CommandReceived
    <3>2. CASE latest_PXI_MC5_val' # 0
      <4>1. sender.who = 0 /\ ModeUnderWay
        BY <2>2, <2>6, <3>1, <3>2, CommandOfSender DEF CommandsOK, ModeUnderWay, ModeAsked
      <4>2. \A s \in Sessions : state[s] = "idle"
        BY <2>2, <3>1, <4>1 DEF ModeAlone, UnderWay
      <4>3. Counted = {} /\ Counted' = {}
        BY <2>3, <3>1, <4>2 DEF SessionType
      <4> QED BY <1>1, <3>1, <4>3
    <3>3. CASE latest_PXI_MC5_val' = 0 /\ latest_PXI_MC5_val = 0
      <4>1. Counted' = Counted
        BY <2>3, <3>1, <3>3 DEF SessionType
      <4> QED BY <1>1, <3>1, <4>1
    <3>4. CASE latest_PXI_MC5_val' = 0 /\ latest_PXI_MC5_val # 0
      <4>1. ~sendingDisabled
        <5> SUFFICES ASSUME sendingDisabled PROVE FALSE
          OBVIOUS
        <5>1. sender.who = 0 /\ sender.cmdbuf.op # "other" /\ sender.cmdbuf \in Commands
          BY <2>2, <3>1 DEF ModeAlone, ModeHeld, UnderWay, CommandsOK, On
        <5>2. sender.cmdbuf.op \in {"disable", "enable"}
          BY <5>1 DEF Commands
        <5> QED BY <2>6, <3>4, <5>2, CommandOfSender DEF ModeAsked
      <4>2. \A s \in Sessions : state[s] = "idle"
        BY <2>2, <3>4, <4>1 DEF ModeOver
      <4>3. Counted = {} /\ Counted' = {}
        BY <2>3, <3>1, <4>2 DEF SessionType
      <4> QED BY <1>1, <3>1, <4>3
    <3> QED BY <3>2, <3>3, <3>4
  <2>7. CASE ~Send /\ ~(Arm9Reply /\ ~Panic) /\ ~(CommandReceived /\ ~Panic)
    <3>1. UNCHANGED <<latest_PXI_MC5_val, pendingArm9Commands>>
      BY <2>7, StepsOfModes DEF modeVars
    <3>2. \A s \in Sessions : state[s] \in {"sentToArm9", "fromArm9"} <=> state'[s] \in {"sentToArm9", "fromArm9"}
      <4>1. CASE Panic
        BY <4>1 DEF Panic
      <4>2. CASE Receive
        BY <4>2, KnownIds DEF Receive, Panic, SessionType
      <4> QED BY <2>1, <2>7, <4>1, <4>2, StepsOfStates DEF SameStates
    <3>3. Counted' = Counted
      BY <2>3, <3>1, <3>2
    <3> QED BY <1>1, <3>1, <3>3
  <2> QED BY <2>4, <2>5, <2>6, <2>7
<1> QED BY <1>3, <1>4

---------------------------------------------------------------------------
(* The invariants and what follows                                          *)

CallsInv == IInv /\ EndsOK /\ PlacesOK /\ KeptOK /\ ReceivedOK

LEMMA CallsInit == Init => CallsInv
<1> SUFFICES ASSUME Init PROVE CallsInv
  OBVIOUS
<1>1. IInv
  BY InitInv
<1>2. EndsOK /\ PlacesOK
  BY DEF Init, EndsOK, On, PlacesOK, PlaceOK, Carrying, Working, Queued
<1>3. KeptOK /\ ReceivedOK
  BY DEF Init, ReceivedOK, On, KeptOK, TargetKept, ClientKept, Held, NoClient
<1> QED BY <1>1, <1>2, <1>3 DEF CallsInv

LEMMA CallsStep == CallsInv /\ [Next]_vars => CallsInv'
<1>1. IInv /\ [Next]_vars => IInv'
  BY IInvStep
<1>2. CallsInv /\ Next => CallsInv'
  BY <1>1, EndsStep, PlacesStep, KeptStep, ReceivedStep DEF CallsInv, IInv
<1>3. CallsInv /\ UNCHANGED vars => CallsInv'
  BY <1>1 DEF CallsInv, ReceivedOK, EndsOK, PlacesOK, PlaceOK, Lost, Carrying, Working, Queued, KeptOK, TargetKept,
     ClientKept, On, Held, vars, poolVars, modeVars, clientVars, ends
<1> QED BY <1>2, <1>3

(* pxi:mc 5 is held back by a counter that is right: it counts the commands  *)
(* that are with the ARM9 or have a reply nobody has fetched, pxi:mc 5       *)
(* itself excepted, for any number of sessions, as long as clients send      *)
(* pxi:mc 5 while no other command is in progress.                          *)
THEOREM PendingCountsCommands ==
  ASSUME Exclusive
  PROVE  Spec => []PendingIsInFlight
<1> DEFINE Inv == CallsInv /\ ModesOK /\ PendingIsInFlight
<1>1. Init => Inv
  <2> SUFFICES ASSUME Init PROVE Inv
    OBVIOUS
  <2>1. CallsInv
    BY CallsInit
  <2>2. ModesOK
    BY SessionIds DEF Init, ModesOK, CommandsOK, ModeAlone, ModeOver, ModeHeld, ModeUnderWay, On, NoClient
  <2>3. Counted = {}
    BY SessionIds DEF Init, Counted, InFlight
  <2>4. PendingIsInFlight
    BY <2>3, FS_EmptySet DEF Init, PendingIsInFlight, Counted
  <2> QED BY <2>1, <2>2, <2>4
<1>2. Inv /\ [Next]_vars => Inv'
  <2>1. Inv /\ Next => Inv'
    BY CallsStep, ModesStep, PendingStep DEF CallsInv
  <2>2. Inv /\ UNCHANGED vars => Inv'
    BY CallsStep DEF ModesOK, CommandsOK, ModeAlone, ModeOver, ModeHeld, ModeUnderWay, UnderWay, On,
       PendingIsInFlight, InFlight, vars, poolVars, modeVars, clientVars, ends
  <2> QED BY <2>1, <2>2
<1>3. Inv => PendingIsInFlight
  OBVIOUS
<1> QED BY <1>1, <1>2, <1>3, PTL DEF Spec

---------------------------------------------------------------------------
(* pxi implements PxiCalls                                                  *)

Caller == [s \in Sessions |-> IF client[s].st = "waiting" THEN client[s].cmd ELSE Empty]
Call   == [s \in Sessions |->
             IF sender.pc = "ended" \/ (s = 0 /\ shouldTerminate) THEN [st |-> "none", cmd |-> Empty]
             ELSE IF Executed(s) THEN [st |-> "executed",
                    cmd |-> IF state[s] = "idle" THEN sender.cmdbuf ELSE
                            IF state[s] = "fromArm9" THEN buffer[s] ELSE
                            (CHOOSE m \in {arm9.fifo[i] : i \in DOMAIN arm9.fifo} : m.id = s).msg]
             ELSE IF On("command") /\ sender.who = s THEN [st |-> "asked", cmd |-> sender.cmdbuf]
             ELSE IF state[s] = "idle" THEN [st |-> "none", cmd |-> Empty]
             ELSE [st |-> "asked", cmd |-> buffer[s]]]

(* The call of a session, by what the invariant says of where its command is *)
Nothing == [st |-> "none", cmd |-> Empty]
Answering(s) == sender.target = s /\ sender.pc \in {"send", "reply"}
View(s) ==
  IF sender.pc = "ended" \/ Lost(s) THEN Nothing
  ELSE IF state[s] = "idle"
  THEN IF Answering(s) THEN [st |-> "executed", cmd |-> sender.cmdbuf]
       ELSE IF On("command") /\ sender.who = s THEN [st |-> "asked", cmd |-> sender.cmdbuf]
       ELSE Nothing
  ELSE [st |-> IF state[s] = "fromArm9" \/ Queued(s) THEN "executed" ELSE "asked", cmd |-> buffer[s]]

LEMMA CallIsView ==
  ASSUME CallsInv, NEW s \in Sessions
  PROVE  Call[s] = View(s)
<1> USE DEF CallsInv
<1>1. CASE sender.pc = "ended" \/ Lost(s)
  BY <1>1 DEF Call, View, Lost, Nothing
<1>2. CASE ~(sender.pc = "ended" \/ Lost(s))
  <2>1. PlaceOK(s)
    BY <1>2 DEF PlacesOK
  <2>2. Queued(s) => state[s] = "sentToArm9"
    BY <2>1 DEF PlaceOK
  <2>3. Executed(s) <=> state[s] = "fromArm9" \/ Queued(s) \/ (state[s] = "idle" /\ Answering(s))
    BY DEF Executed, Queued, Answering
  <2>4. On("command") /\ sender.who = s => state[s] = "idle"
    BY DEF ReceivedOK
  <2>5. Queued(s) => (CHOOSE m \in {arm9.fifo[i] : i \in DOMAIN arm9.fifo} : m.id = s).msg = buffer[s]
    <3> DEFINE M == {arm9.fifo[i] : i \in DOMAIN arm9.fifo}
               c == CHOOSE m \in M : m.id = s
    <3> SUFFICES ASSUME Queued(s) PROVE c.msg = buffer[s]
      OBVIOUS
    <3>1. \E m \in M : m.id = s
      BY DEF Queued
    <3>2. c \in M /\ c.id = s
      BY <3>1
    <3>3. \A m \in M : m.id = s => m.msg = buffer[s]
      BY <2>1 DEF PlaceOK
    <3> QED BY <3>2, <3>3
  <2> QED BY <1>2, <2>2, <2>3, <2>4, <2>5 DEF Call, View, Lost, Nothing
<1> QED BY <1>1, <1>2

(* What a step may do to a session's call                                    *)
CallerOf(s) == IF client[s].st = "waiting" THEN client[s].cmd ELSE Empty
Same(s)    == View(s)' = View(s) /\ CallerOf(s)' = CallerOf(s)
Asks(s)    == /\ CallerOf(s) = Empty /\ View(s) = Nothing
              /\ CallerOf(s)' \in Commands /\ View(s)' = [st |-> "asked", cmd |-> CallerOf(s)']
Executes(s) == /\ View(s).st = "asked" /\ View(s)' = [View(s) EXCEPT !.st = "executed"]
               /\ CallerOf(s)' = CallerOf(s)
Answers(s) == /\ View(s).st = "executed" /\ CallerOf(s) = View(s).cmd
              /\ CallerOf(s)' = Empty /\ View(s)' = Nothing
GivesUp(s) == CallerOf(s) # Empty /\ CallerOf(s)' = Empty /\ View(s)' = View(s)
Drops(s)   == /\ View(s).st = "executed" /\ CallerOf(s) = Empty
              /\ CallerOf(s)' = Empty /\ View(s)' = Nothing
Moves(s)   == Asks(s) \/ Executes(s) \/ Answers(s) \/ GivesUp(s) \/ Drops(s)

(* The steps that leave a session's call alone                               *)
LEMMA SameView ==
  ASSUME NEW s \in Sessions, UNCHANGED <<sender, shouldTerminate>>, state'[s] = state[s], buffer'[s] = buffer[s],
         Queued(s)' <=> Queued(s)
  PROVE  View(s)' = View(s)
BY DEF View, Lost, Answering, On

LEMMA SameQueue ==
  ASSUME UNCHANGED arm9.fifo, NEW s PROVE Queued(s)' <=> Queued(s)
BY DEF Queued

LEMMA ClientStep ==
  ASSUME CallsInv, NEW s \in Sessions, Connect(s) \/ Ask(s) \/ Leave(s)
  PROVE  /\ \A r \in Sessions \ {s} : Same(r)
         /\ Same(s) \/ GivesUp(s)
<1> USE TypeParts DEF CallsInv, IInv, TypeInv
<1>1. \A r \in Sessions : View(r)' = View(r)
  BY SameView, SameQueue DEF Connect, Ask, Leave, ClientSteps, ends
<1>2. \A r \in Sessions \ {s} : client'[r] = client[r]
  BY DEF Connect, Ask, Leave, ClientType
<1>3. \/ client[s].st # "waiting" /\ client'[s].st # "waiting"
      \/ client[s].st = "waiting" /\ client'[s].st = "closed"
  BY DEF Connect, Ask, Leave, NoClient, ClientType
<1>4. client[s].st = "waiting" => client[s].cmd # Empty
  BY DEF KeptOK, ClientKept, Commands, Empty
<1> QED BY <1>1, <1>2, <1>3, <1>4 DEF Same, GivesUp, CallerOf

LEMMA Arm9Step ==
  ASSUME CallsInv, NEW m \in [id : Ids, msg : Messages], Arm9Sends(m), m.id \in Sessions => m \in arm9.working
  PROVE  \A r \in Sessions : Same(r) \/ (r = m.id /\ Executes(r))
<1> USE TypeParts DEF CallsInv, IInv, TypeInv
<1>1. UNCHANGED <<state, buffer, sender, shouldTerminate, client>> /\ arm9'.fifo = Append(arm9.fifo, m)
  BY DEF Arm9Sends, Arm9Type, clientVars, ends
<1>2. /\ Queued(m.id)'
      /\ \A r \in Sessions \ {m.id} : Queued(r)' <=> Queued(r)
  <2>1. /\ DOMAIN arm9'.fifo = 1..Len(arm9.fifo)+1 /\ DOMAIN arm9.fifo = 1..Len(arm9.fifo)
        /\ \A i \in DOMAIN arm9.fifo : i \in DOMAIN arm9'.fifo /\ arm9'.fifo[i] = arm9.fifo[i]
        /\ arm9'.fifo[Len(arm9.fifo)+1] = m /\ Len(arm9.fifo)+1 \in DOMAIN arm9'.fifo
        /\ \A i \in DOMAIN arm9'.fifo : i \in DOMAIN arm9.fifo \/ i = Len(arm9.fifo)+1
    BY <1>1 DEF Arm9Type
  <2> QED BY <2>1 DEF Queued
<1>3. ASSUME NEW r \in Sessions, r # m.id PROVE Same(r)
  BY <1>1, <1>2, <1>3, SameView DEF Same, CallerOf
<1>4. ASSUME m.id \in Sessions PROVE Same(m.id) \/ Executes(m.id)
  <2> DEFINE s == m.id
  <2>1. CASE Lost(s) \/ sender.pc = "ended"
    BY <1>1, <2>1 DEF Same, View, Lost, CallerOf
  <2>2. CASE ~Lost(s) /\ sender.pc # "ended"
    <3>1. state[s] = "sentToArm9" /\ ~Queued(s)
      BY <1>4, <2>2 DEF PlacesOK, PlaceOK, Working
    <3>2. View(s) = [st |-> "asked", cmd |-> buffer[s]]
      BY <2>2, <3>1 DEF View
    <3>3. View(s)' = [st |-> "executed", cmd |-> buffer[s]]
      BY <1>1, <1>2, <2>2, <3>1 DEF View, Lost
    <3>4. CallerOf(s)' = CallerOf(s)
      BY <1>1 DEF CallerOf
    <3> QED BY <3>2, <3>3, <3>4 DEF Executes
  <2> QED BY <2>1, <2>2
<1> QED BY <1>3, <1>4

LEMMA ReceiveStep ==
  ASSUME CallsInv, Receive
  PROVE  \A r \in Sessions : Same(r)
<1> USE SessionIds, TypeParts DEF CallsInv, IInv, TypeInv
<1> SUFFICES ASSUME NEW s \in Sessions PROVE Same(s)
  OBVIOUS
<1>1. UNCHANGED <<sender, shouldTerminate, client>>
  BY DEF Receive, Panic, notReceiver, clientVars, ends
<1>2. CASE Panic
  BY <1>1, <1>2, SameView, SameQueue DEF Panic, Same, CallerOf
<1>3. CASE ~Panic
  <2> DEFINE m == Head(arm9.fifo)
  <2>1. /\ arm9.fifo # <<>> /\ state[m.id] = "sentToArm9" /\ arm9'.fifo = Tail(arm9.fifo)
        /\ buffer' = [buffer EXCEPT ![m.id] = m.msg] /\ state' = [state EXCEPT ![m.id] = "fromArm9"]
    BY <1>3 DEF Receive, Arm9Type
  <2>2. /\ m.id \in Ids /\ m = arm9.fifo[1] /\ 1 \in DOMAIN arm9.fifo
        /\ DOMAIN arm9'.fifo = 1..Len(arm9.fifo)-1 /\ DOMAIN arm9.fifo = 1..Len(arm9.fifo)
        /\ \A i \in 1..Len(arm9.fifo)-1 : arm9'.fifo[i] = arm9.fifo[i+1]
        /\ Len(arm9.fifo) \in Nat
    BY <2>1, KnownIds DEF Arm9Type
  <2> HIDE DEF m
  <2>3. CASE m.id = s
    <3>1. CASE Lost(s) \/ sender.pc = "ended"
      BY <1>1, <3>1 DEF Same, View, Lost, CallerOf
    <3>2. CASE ~Lost(s) /\ sender.pc # "ended"
      <4>1. Queued(s) /\ m.msg = buffer[s]
        BY <2>2, <2>3, <3>2 DEF Queued, PlacesOK, PlaceOK
      <4>2. state'[s] = "fromArm9" /\ buffer'[s] = buffer[s] /\ state[s] # "idle"
        BY <2>1, <2>3, <4>1 DEF SessionType
      <4> QED BY <1>1, <4>1, <4>2 DEF Same, View, Lost, CallerOf
    <3> QED BY <3>1, <3>2
  <2>4. CASE m.id # s
    <3>1. state'[s] = state[s] /\ buffer'[s] = buffer[s]
      BY <2>1, <2>4 DEF SessionType
    <3>5. \A i \in DOMAIN arm9'.fifo : i + 1 \in DOMAIN arm9.fifo /\ arm9'.fifo[i] = arm9.fifo[i+1]
      BY <2>2
    <3>2. Queued(s)' => Queued(s)
      BY <3>5 DEF Queued
    <3>3. ASSUME NEW i \in DOMAIN arm9.fifo, arm9.fifo[i].id = s PROVE Queued(s)'
      <4>1. i \in Int /\ i # 1 /\ i - 1 \in DOMAIN arm9'.fifo /\ arm9'.fifo[i-1] = arm9.fifo[i]
        BY <2>2, <2>4, <3>3
      <4> QED BY <3>3, <4>1 DEF Queued
    <3>4. Queued(s) => Queued(s)'
      BY <3>3 DEF Queued
    <3> QED BY <1>1, <3>1, <3>2, <3>4, SameView DEF Same, CallerOf
  <2> QED BY <2>3, <2>4
<1> QED BY <1>2, <1>3

(* The steps of the sender                                                   *)
LEMMA SenderView ==
  ASSUME NEW s \in Sessions, UNCHANGED <<shouldTerminate, state, buffer, arm9.fifo>>,
         sender.pc # "ended", sender'.pc # "ended", Answering(s)' <=> Answering(s),
         Answering(s) => sender'.cmdbuf = sender.cmdbuf,
         ~(On("command") /\ sender.who = s), ~(On("command") /\ sender.who = s)'
  PROVE  View(s)' = View(s)
<1>1. Queued(s)' <=> Queued(s)
  BY SameQueue
<1>2. CASE Answering(s)
  BY <1>1, <1>2 DEF View, Lost
<1>3. CASE ~Answering(s)
  BY <1>1, <1>3 DEF View, Lost
<1> QED BY <1>2, <1>3

LEMMA SendStep ==
  ASSUME CallsInv, Send
  PROVE  \A r \in Sessions : Same(r)
<1> USE SessionIds, TypeParts DEF CallsInv, IInv, TypeInv
<1> SUFFICES ASSUME NEW s \in Sessions PROVE Same(s)
  OBVIOUS
<1>1. /\ UNCHANGED <<buffer, arm9, client, shouldTerminate>> /\ sender.target = None /\ sender'.target = None
      /\ sender.pc = "send" /\ sender'.pc = "acquire"
  BY DEF Send, notSender, ends, SenderType
<1>2. Queued(s)' <=> Queued(s)
  BY <1>1, SameQueue
<1>3. ~Answering(s) /\ ~Answering(s)' /\ ~On("command") /\ ~On("command")'
  BY <1>1 DEF Answering, On
<1>4. CASE s # Least(ToSend)
  <2>1. state'[s] = state[s]
    BY <1>4, CommandSent DEF SessionType
  <2> QED BY <1>1, <1>2, <1>3, <2>1 DEF Same, View, CallerOf, Lost
<1>5. CASE s = Least(ToSend)
  <2>1. state[s] = "fromArm11" /\ state'[s] = "sentToArm9"
    BY <1>5, CommandSent DEF SessionType
  <2> QED BY <1>1, <1>2, <1>3, <2>1 DEF Same, View, CallerOf, Lost
<1> QED BY <1>4, <1>5

LEMMA SentStep ==
  ASSUME CallsInv, SenderAcquires \/ SenderTransfers \/ SendEnds
  PROVE  \A r \in Sessions : Same(r)
<1> USE SessionIds, TypeParts DEF CallsInv, IInv, TypeInv
<1> SUFFICES ASSUME NEW s \in Sessions PROVE Same(s)
  OBVIOUS
<1>1. UNCHANGED <<state, buffer, client, shouldTerminate>>
  BY DEF SenderAcquires, SenderTransfers, SendEnds, notSender, ends
<1>2. UNCHANGED arm9.fifo
  BY DEF SenderAcquires, SenderTransfers, SendEnds, Transferred, Arm9Type
<1>3. /\ sender'.target = sender.target /\ sender'.cmdbuf = sender.cmdbuf
      /\ \/ sender.pc \in {"acquire", "transfer"} /\ sender'.pc \in {"terminate", "transfer", "send"}
         \/ sender.pc = "send" /\ sender'.pc = "reply"
  <2>1. CASE SenderAcquires
    BY <2>1 DEF SenderAcquires, SenderType
  <2>2. CASE SenderTransfers
    BY <2>2 DEF SenderTransfers, SenderType
  <2>3. CASE SendEnds
    BY <2>3 DEF SendEnds, SenderType
  <2> QED BY <2>1, <2>2, <2>3
<1>4. sender.pc \in {"acquire", "transfer"} => sender.target = None
  BY DEF KeptOK, TargetKept, Held
<1>5. Answering(s)' <=> Answering(s)
  BY <1>3, <1>4 DEF Answering
<1>6. View(s)' = View(s)
  BY <1>1, <1>2, <1>3, <1>5, SenderView DEF On
<1> QED BY <1>1, <1>6 DEF Same, CallerOf

LEMMA ReplyStep ==
  ASSUME CallsInv, Reply
  PROVE  \A r \in Sessions : Same(r) \/ (r = sender.target /\ (Answers(r) \/ Drops(r)))
<1> USE SessionIds, TypeParts DEF CallsInv, IInv, TypeInv
<1> SUFFICES ASSUME NEW s \in Sessions
             PROVE  Same(s) \/ (s = sender.target /\ (Answers(s) \/ Drops(s)))
  OBVIOUS
<1>1. /\ UNCHANGED <<state, buffer, arm9, shouldTerminate>> /\ sender.pc = "reply"
      /\ sender'.pc \in {"receive", "event"} /\ ~On("command")'
  BY DEF Reply, notSender, ends, Happens, On, SenderType
<1>2. CASE s # sender.target
  <2>1. client'[s] = client[s]
    BY <1>2 DEF Reply, ClientType
  <2>2. View(s)' = View(s)
    BY <1>1, <1>2, SenderView DEF Answering, On
  <2> QED BY <2>1, <2>2 DEF Same, CallerOf
<1>3. CASE s = sender.target
  <2>1. Answering(s) /\ Held /\ ~shouldTerminate /\ ~Lost(s)
    BY <1>1, <1>3 DEF Answering, Held, Quiet, Lost
  <2>2. state[s] = "idle" /\ client[s].st \in {"waiting", "closed"}
    BY <1>1, <1>3, <2>1 DEF Alive, Attended, Rested, Engaged
  <2>3. View(s) = [st |-> "executed", cmd |-> sender.cmdbuf]
    BY <1>1, <2>1, <2>2 DEF View
  <2>4. View(s)' = Nothing
    BY <1>1, <2>1, <2>2 DEF View, Answering, Lost
  <2>5. CASE client[s].st = "closed"
    <3>1. UNCHANGED client
      BY <1>3, <2>5 DEF Reply
    <3> QED BY <1>3, <2>3, <2>4, <2>5, <3>1 DEF Drops, CallerOf
  <2>6. CASE client[s].st = "waiting"
    <3>1. client'[s].st = "open"
      BY <1>3, <2>6 DEF Reply, NoClient, ClientType
    <3>2. client[s].cmd = sender.cmdbuf
      BY <1>3, <2>1, <2>6 DEF KeptOK, ClientKept
    <3> QED BY <1>3, <2>3, <2>4, <2>6, <3>1, <3>2 DEF Answers, CallerOf
  <2> QED BY <2>2, <2>5, <2>6
<1> QED BY <1>2, <1>3

LEMMA ReceiveEventStep ==
  ASSUME CallsInv, ReceiveEvent, CallsInv'
  PROVE  \A r \in Sessions : Same(r) \/ (r = sender'.who /\ On("command")' /\ Asks(r))
<1> USE SessionIds, TypeParts DEF CallsInv, IInv, TypeInv
<1> SUFFICES ASSUME NEW s \in Sessions PROVE Same(s) \/ (s = sender'.who /\ On("command")' /\ Asks(s))
  OBVIOUS
<1>1. /\ UNCHANGED <<state, buffer, arm9, shouldTerminate>> /\ sender.pc = "receive" /\ sender'.pc = "event"
  BY DEF ReceiveEvent, Happens, notSender, ends, SenderType
<1>2. CASE UNCHANGED client /\ ~On("command")'
  BY <1>1, <1>2, SenderView DEF Answering, On, Same, CallerOf
<1>3. CASE On("command")'
  <2>1. PICK r \in sender.idle : /\ client[r].st = "asking" /\ client' = [client EXCEPT ![r].st = "waiting"]
                                 /\ sender'.who = r /\ sender'.cmdbuf = client[r].cmd
    BY <1>3, ChosenSessions, ZenonT(30) DEF ReceiveEvent, Happens, SenderType, Readable, On
  <2>2. CASE r # s
    <3>1. client'[s] = client[s]
      BY <2>1, <2>2 DEF ClientType
    <3>2. View(s)' = View(s)
      BY <1>1, <2>1, <2>2, SenderView DEF Answering, On
    <3> QED BY <3>1, <3>2 DEF Same, CallerOf
  <2>3. CASE r = s
    <3>1. client'[s].st = "waiting" /\ client'[s].cmd = client[s].cmd /\ client[s].cmd \in Commands
      BY <2>1, <2>3 DEF ClientType, KeptOK, ClientKept
    <3>2. ~shouldTerminate /\ state[s] = "idle"
      BY <1>1, <2>1, <2>3 DEF Quiet, Alive, Rested
    <3>3. View(s) = Nothing /\ CallerOf(s) = Empty
      BY <1>1, <2>1, <2>3, <3>2 DEF View, CallerOf, Answering, On
    <3>4. View(s)' = [st |-> "asked", cmd |-> client[s].cmd]
      BY <1>1, <1>3, <2>1, <2>3, <3>2 DEF View, Lost, Answering
    <3>5. CallerOf(s)' = client[s].cmd
      BY <3>1 DEF CallerOf
    <3> QED BY <1>3, <2>1, <2>3, <3>1, <3>3, <3>4, <3>5 DEF Asks
  <2> QED BY <2>2, <2>3
<1>4. CASE ~On("command")'
  <2>1. UNCHANGED client
    BY <1>4 DEF ReceiveEvent, Happens, On, SenderType
  <2> QED BY <1>2, <1>4, <2>1
<1> QED BY <1>3, <1>4

LEMMA ClosedStep ==
  ASSUME CallsInv, SessionClosed \/ SendAllBuffers
  PROVE  \A r \in Sessions : Same(r)
<1> USE SessionIds, TypeParts DEF CallsInv, IInv, TypeInv
<1> SUFFICES ASSUME NEW s \in Sessions PROVE Same(s)
  OBVIOUS
<1>1. /\ UNCHANGED <<state, buffer, arm9, shouldTerminate>> /\ sender.pc = "event" /\ ~On("command")
      /\ sender'.pc = "send" /\ sender'.target = None
  BY DEF SessionClosed, SendAllBuffers, Continue, On, notSender, ends, SenderType
<1>2. View(s)' = View(s)
  BY <1>1, SenderView DEF Answering, On
<1>3. client[s].st = "waiting" => client'[s] = client[s]
  <2>1. CASE SendAllBuffers
    BY <2>1 DEF SendAllBuffers
  <2>2. CASE SessionClosed
    <3>1. sender.who \in Sessions /\ client[sender.who].st # "waiting"
      BY <2>2 DEF SessionClosed, Located, Alive, Rested, Quiet, On
    <3> QED BY <2>2, <3>1 DEF SessionClosed, ClientType
  <2> QED BY <2>1, <2>2
<1>4. client'[s].st = "waiting" => client'[s] = client[s]
  BY DEF SessionClosed, SendAllBuffers, NoClient, ClientType
<1> QED BY <1>2, <1>3, <1>4 DEF Same, CallerOf

LEMMA Arm9ReplyStep ==
  ASSUME CallsInv, Arm9Reply
  PROVE  \A r \in Sessions : Same(r) \/ (r = Answered /\ Drops(r))
<1> USE SessionIds, TypeParts DEF CallsInv, IInv, TypeInv
<1> SUFFICES ASSUME NEW s \in Sessions PROVE Same(s) \/ (s = Answered /\ Drops(s))
  OBVIOUS
<1>1. CASE Panic
  <2>1. UNCHANGED <<state, buffer, arm9, shouldTerminate, client, sender>>
    BY <1>1 DEF Panic, clientVars
  <2> QED BY <2>1, SameView, SameQueue DEF Same, CallerOf
<1>2. CASE ~Panic
  <2>1. /\ UNCHANGED <<arm9, shouldTerminate, client>> /\ sender.pc = "event" /\ ~On("command") /\ ~On("command")'
        /\ sender'.pc = "send" /\ sender'.target = (IF handle[Answered] THEN Answered ELSE None)
        /\ sender'.cmdbuf = buffer[Answered] /\ buffer' = [buffer EXCEPT ![Answered] = Empty]
    BY <1>2 DEF Arm9Reply, On, notSender, ends, SenderType
  <2>2. Queued(s)' <=> Queued(s)
    BY <2>1, SameQueue
  <2>3. ~Answering(s)
    BY <2>1 DEF Answering
  <2>4. CASE s # Answered
    <3>1. state'[s] = state[s] /\ buffer'[s] = buffer[s]
      BY <1>2, <2>1, <2>4, ReplyOfSender DEF SessionType
    <3>2. ~Answering(s)'
      BY <2>1, <2>4 DEF Answering
    <3> QED BY <2>1, <2>2, <2>3, <3>1, <3>2 DEF Same, View, CallerOf, Lost
  <2>5. CASE s = Answered
    <3>1. state[s] = "fromArm9" /\ state'[s] = "idle" /\ Replies # {}
      BY <1>2, <2>5, ReplyOfSender DEF SessionType
    <3>2. ~shouldTerminate /\ ~Lost(s)
      BY <3>1, NothingToLookFor DEF Arm9Reply, Lost
    <3>3. View(s) = [st |-> "executed", cmd |-> buffer[s]]
      BY <2>1, <3>1, <3>2 DEF View
    <3>4. CASE handle[s]
      <4>1. Answering(s)'
        BY <2>1, <2>5, <3>4 DEF Answering
      <4>2. View(s)' = View(s)
        BY <2>1, <2>5, <3>1, <3>2, <3>3, <4>1 DEF View, Lost
      <4> QED BY <2>1, <4>2 DEF Same, CallerOf
    <3>5. CASE ~handle[s]
      <4>1. View(s)' = Nothing
        BY <2>1, <2>5, <3>1, <3>2, <3>5 DEF View, Lost, Answering
      <4>2. client[s].st # "waiting"
        BY <3>5 DEF KeptOK, ClientKept
      <4> QED BY <2>1, <2>5, <3>3, <4>1, <4>2 DEF Drops, CallerOf
    <3> QED BY <3>4, <3>5
  <2> QED BY <2>4, <2>5
<1> QED BY <1>1, <1>2

LEMMA CommandStep ==
  ASSUME CallsInv, CommandReceived
  PROVE  \A r \in Sessions : Same(r)
<1> USE SessionIds, TypeParts DEF CallsInv, IInv, TypeInv
<1> SUFFICES ASSUME NEW s \in Sessions PROVE Same(s)
  OBVIOUS
<1>1. CASE Panic
  <2>1. UNCHANGED <<state, buffer, arm9, shouldTerminate, client, sender>>
    BY <1>1 DEF Panic, clientVars
  <2> QED BY <2>1, SameView, SameQueue DEF Same, CallerOf
<1>2. CASE ~Panic
  <2>1. /\ UNCHANGED <<arm9, shouldTerminate, client>> /\ sender.pc = "event" /\ On("command") /\ ~On("command")'
        /\ sender'.pc = "send" /\ sender'.target = None /\ ~shouldTerminate
        /\ buffer' = [buffer EXCEPT ![sender.who] = sender.cmdbuf]
    BY <1>2 DEF CommandReceived, On, notSender, ends, SenderType, Quiet
  <2>2. Queued(s)' <=> Queued(s)
    BY <2>1, SameQueue
  <2>3. ~Answering(s) /\ ~Answering(s)'
    BY <2>1 DEF Answering
  <2>4. CASE s # sender.who
    <3>1. state'[s] = state[s] /\ buffer'[s] = buffer[s]
      BY <1>2, <2>1, <2>4, CommandOfSender DEF SessionType
    <3> QED BY <2>1, <2>2, <2>3, <2>4, <3>1 DEF Same, View, CallerOf, Lost
  <2>5. CASE s = sender.who
    <3>1. state[s] = "idle" /\ state'[s] = "fromArm11" /\ buffer'[s] = sender.cmdbuf
      BY <1>2, <2>1, <2>5, CommandOfSender DEF SessionType
    <3>2. ~Queued(s)
      BY <2>1, <3>1 DEF PlacesOK, PlaceOK, Lost
    <3>3. View(s) = [st |-> "asked", cmd |-> sender.cmdbuf]
      BY <2>1, <2>3, <2>5, <3>1 DEF View, Lost
    <3>4. View(s)' = [st |-> "asked", cmd |-> sender.cmdbuf]
      BY <2>1, <2>2, <3>1, <3>2 DEF View, Lost
    <3> QED BY <2>1, <3>3, <3>4 DEF Same, CallerOf
  <2> QED BY <2>4, <2>5
<1> QED BY <1>1, <1>2

(* The steps of main                                                        *)
LEMMA EndStep ==
  ASSUME CallsInv, ShouldTerminate
  PROVE  \A r \in Sessions : Same(r)
<1> USE SessionIds, TypeParts DEF CallsInv, IInv, TypeInv
<1> SUFFICES ASSUME NEW s \in Sessions PROVE Same(s)
  OBVIOUS
<1>1. /\ UNCHANGED <<state, buffer, arm9, client, sender>>
      /\ \A r \in Sessions : client[r].st = "none" /\ ~UnderWay(r)
  BY DEF ShouldTerminate, notMain
<1>2. Queued(s)' <=> Queued(s)
  BY <1>1, SameQueue
<1>3. CASE s # 0 \/ shouldTerminate \/ sender.pc = "ended"
  BY <1>1, <1>2, <1>3 DEF Same, View, CallerOf, Lost, Answering, On, ShouldTerminate
<1>4. CASE s = 0 /\ ~shouldTerminate /\ sender.pc # "ended"
  <2>1. state[s] = "idle" /\ ~(On("command") /\ sender.who = s)
    BY <1>1 DEF UnderWay, On
  <2>2. ~Answering(s)
    <3>1. Answering(s) => Engaged(s)
      BY DEF Answering, Engaged, Held
    <3> QED BY <1>1, <1>4, <3>1 DEF Alive, Attended
  <2>3. View(s) = Nothing /\ View(s)' = Nothing
    BY <1>1, <1>4, <2>1, <2>2 DEF View, Lost, ShouldTerminate
  <2> QED BY <1>1, <2>3 DEF Same, CallerOf
<1> QED BY <1>3, <1>4

LEMMA LastStep ==
  ASSUME CallsInv, MainLast
  PROVE  \A r \in Sessions : Same(r)
<1> USE SessionIds, TypeParts DEF CallsInv, IInv, TypeInv
<1> SUFFICES ASSUME NEW s \in Sessions PROVE Same(s)
  OBVIOUS
<1>1. UNCHANGED <<buffer, arm9, client, sender, shouldTerminate>> /\ shouldTerminate
  BY DEF MainLast, notMain, EndsOK
<1>2. Queued(s)' <=> Queued(s)
  BY <1>1, SameQueue
<1>3. CASE s = 0
  BY <1>1, <1>3 DEF Same, View, CallerOf, Lost
<1>4. CASE s # 0
  <2>1. state'[s] = state[s]
    BY <1>4 DEF MainLast, SessionType
  <2> QED BY <1>1, <1>2, <2>1, SameView DEF Same, CallerOf
<1> QED BY <1>3, <1>4

---------------------------------------------------------------------------
(* Every step is a step of one session, or of none, or the end               *)

LEMMA CallsOfSessions ==
  ASSUME CallsInv, Next, CallsInv'
  PROVE  \/ \A r \in Sessions : Same(r)
         \/ \E s \in Sessions : Moves(s) /\ \A r \in Sessions \ {s} : Same(r)
         \/ SenderTerminates
<1> USE SessionIds, TypeParts DEF CallsInv, IInv, TypeInv
<1>1. CASE \E s \in Sessions : Connect(s) \/ Ask(s) \/ Leave(s)
  <2>1. PICK s \in Sessions : Connect(s) \/ Ask(s) \/ Leave(s)
    BY <1>1
  <2>2. Same(s) \/ GivesUp(s)
    BY <2>1, ClientStep
  <2>3. \A r \in Sessions \ {s} : Same(r)
    BY <2>1, ClientStep
  <2> QED BY <2>2, <2>3 DEF Moves
<1>2. CASE \E s \in Sessions : Arm9Answers(s)
  <2>1. PICK m \in arm9.working : Arm9Sends(m)
    BY <1>2 DEF Arm9Answers
  <2>2. m \in [id : Ids, msg : Messages] /\ m.id \in Sessions
    BY <2>1 DEF Arm9Type
  <2>3. \A r \in Sessions : Same(r) \/ (r = m.id /\ Executes(r))
    BY <2>1, <2>2, Arm9Step
  <2> QED BY <2>2, <2>3 DEF Moves
<1>3. CASE Arm9Asks
  <2>1. PICK q \in Requests9 : Arm9Sends([id |-> Srv11, msg |-> q])
    BY <1>3 DEF Arm9Asks
  <2>2. [id |-> Srv11, msg |-> q] \in [id : Ids, msg : Messages]
    BY MessagesOK
  <2>3. \A r \in Sessions : Same(r) \/ (r = Srv11 /\ Executes(r))
    BY <2>1, <2>2, Arm9Step
  <2> QED BY <2>3
<1>4. CASE Receive \/ Send \/ SenderAcquires \/ SenderTransfers \/ SendEnds
  BY <1>4, ReceiveStep, SendStep, SentStep
<1>5. CASE Reply
  <2>1. \A r \in Sessions : Same(r) \/ (r = sender.target /\ (Answers(r) \/ Drops(r)))
    BY <1>5, ReplyStep
  <2> QED BY <2>1 DEF Moves
<1>6. CASE ReceiveEvent
  <2>1. \A r \in Sessions : Same(r) \/ (r = sender'.who /\ On("command")' /\ Asks(r))
    BY <1>6, ReceiveEventStep
  <2> QED BY <2>1 DEF Moves
<1>7. CASE Arm9Reply
  <2>1. \A r \in Sessions : Same(r) \/ (r = Answered /\ Drops(r))
    BY <1>7, Arm9ReplyStep
  <2> QED BY <2>1 DEF Moves
<1>8. CASE SessionClosed \/ SendAllBuffers \/ CommandReceived \/ ShouldTerminate \/ MainLast
  BY <1>8, ClosedStep, CommandStep, EndStep, LastStep
<1>9. CASE /\ ~(\E s \in Sessions : Connect(s) \/ Ask(s) \/ Leave(s))
           /\ ~(\E s \in Sessions : Arm9Answers(s)) /\ ~Arm9Asks
           /\ ~Receive /\ ~Send /\ ~SenderAcquires /\ ~SenderTransfers /\ ~SendEnds /\ ~Reply /\ ~ReceiveEvent
           /\ ~Arm9Reply /\ ~SessionClosed /\ ~SendAllBuffers /\ ~CommandReceived /\ ~ShouldTerminate
           /\ ~MainLast /\ ~SenderTerminates
  <2>1. UNCHANGED <<sender, client, shouldTerminate>>
    BY <1>9, StepsOfSender, StepsOfClients, StepsOfEnd
  <2>2. UNCHANGED arm9.fifo
    BY <1>9, StepsOfArm9 DEF MainTransfers, Transferred, Arm9Type
  <2>3. SameStates /\ SameBuffers
    BY <1>9, StepsOfStates, StepsOfBuffers
  <2>4. ASSUME NEW r \in Sessions PROVE View(r)' = View(r)
    BY <2>1, <2>2, <2>3, SameView, SameQueue DEF SameStates, SameBuffers
  <2> QED BY <2>1, <2>4 DEF Same, CallerOf
<1> QED BY <1>1, <1>2, <1>3, <1>4, <1>5, <1>6, <1>7, <1>8, <1>9

(* What the sessions do, as steps of PxiCalls                                *)
Viewed == \A s \in Sessions : Call[s] = View(s) /\ Caller[s] = CallerOf(s)
LEMMA CallsViewed == CallsInv => Viewed
BY CallIsView DEF Viewed, Caller, CallerOf

(* The actions of PxiCalls, of these functions                               *)
LEMMA ActionsOfCalls ==
  ASSUME NEW s
  PROVE  /\ Calls!Ask(s) <=> /\ Caller[s] = Empty /\ Call[s] = Nothing
                             /\ \E c \in Commands : /\ Caller' = [Caller EXCEPT ![s] = c]
                                                    /\ Call' = [Call EXCEPT ![s] = [st |-> "asked", cmd |-> c]]
         /\ Calls!Execute(s) <=> /\ Call[s].st = "asked"
                                 /\ Call' = [Call EXCEPT ![s].st = "executed"] /\ Caller' = Caller
         /\ Calls!Answer(s) <=> /\ Call[s].st = "executed" /\ Caller[s] = Call[s].cmd
                                /\ Caller' = [Caller EXCEPT ![s] = Empty] /\ Call' = [Call EXCEPT ![s] = Nothing]
         /\ Calls!GiveUp(s) <=> Caller[s] # Empty /\ Caller' = [Caller EXCEPT ![s] = Empty] /\ Call' = Call
         /\ Calls!Drop(s) <=> /\ Call[s].st = "executed" /\ Caller[s] = Empty
                              /\ Call' = [Call EXCEPT ![s] = Nothing] /\ Caller' = Caller
<1>1. Calls!Ask(s) <=> /\ Caller[s] = Empty /\ Call[s] = Nothing
                       /\ \E c \in Commands : /\ Caller' = [Caller EXCEPT ![s] = c]
                                              /\ Call' = [Call EXCEPT ![s] = [st |-> "asked", cmd |-> c]]
  BY Zenon DEF Calls!Ask, Calls!Waits, Calls!Nothing, Caller, Call, Nothing
<1>2. Calls!Execute(s) <=> /\ Call[s].st = "asked"
                           /\ Call' = [Call EXCEPT ![s].st = "executed"] /\ Caller' = Caller
  BY Zenon DEF Calls!Execute, Caller, Call
<1>3. Calls!Answer(s) <=> /\ Call[s].st = "executed" /\ Caller[s] = Call[s].cmd
                          /\ Caller' = [Caller EXCEPT ![s] = Empty] /\ Call' = [Call EXCEPT ![s] = Nothing]
  BY Zenon DEF Calls!Answer, Calls!Nothing, Caller, Call, Nothing
<1>4. Calls!GiveUp(s) <=> Caller[s] # Empty /\ Caller' = [Caller EXCEPT ![s] = Empty] /\ Call' = Call
  BY Zenon DEF Calls!GiveUp, Calls!Waits, Caller, Call
<1>5. Calls!Drop(s) <=> /\ Call[s].st = "executed" /\ Caller[s] = Empty
                        /\ Call' = [Call EXCEPT ![s] = Nothing] /\ Caller' = Caller
  BY Zenon DEF Calls!Drop, Calls!Waits, Calls!Nothing, Caller, Call, Nothing
<1> QED BY <1>1, <1>2, <1>3, <1>4, <1>5

LEMMA CallsMapped ==
  ASSUME CallsInv, CallsInv', [Next]_vars
  PROVE  [Calls!Next]_<<Caller, Call>>
<1>1. Viewed /\ Viewed'
  <2>1. (CallsInv => Viewed)'
    BY CallsViewed, PTL
  <2> QED BY <2>1, CallsViewed
<1>2. /\ Caller = [s \in Sessions |-> Caller[s]] /\ Call = [s \in Sessions |-> Call[s]]
      /\ Caller' = [s \in Sessions |-> Caller'[s]] /\ Call' = [s \in Sessions |-> Call'[s]]
  BY DEF Caller, Call
<1>3. CASE \A r \in Sessions : Same(r)
  <2>1. \A r \in Sessions : Caller'[r] = Caller[r] /\ Call'[r] = Call[r]
    BY <1>1, <1>3 DEF Viewed, Same
  <2> QED BY <1>2, <2>1
<1>4. ASSUME NEW s \in Sessions, Moves(s), \A r \in Sessions \ {s} : Same(r)
      PROVE  Calls!Next
  <2>1. /\ Call[s] = View(s) /\ Caller[s] = CallerOf(s)
        /\ Call'[s] = View(s)' /\ Caller'[s] = CallerOf(s)'
        /\ \A r \in Sessions \ {s} : Caller'[r] = Caller[r] /\ Call'[r] = Call[r]
    BY <1>1, <1>4 DEF Viewed, Same
  <2>2. Caller' = [Caller EXCEPT ![s] = Caller'[s]] /\ Call' = [Call EXCEPT ![s] = Call'[s]]
    BY <1>2, <2>1
  <2>3. Caller'[s] = Caller[s] => Caller' = Caller
    BY <1>2, <2>1
  <2>4. Call'[s] = Call[s] => Call' = Call
    BY <1>2, <2>1
  <2>5. CASE Asks(s)
    <3>1. Calls!Ask(s)
      BY <2>1, <2>2, <2>5, ActionsOfCalls DEF Asks
    <3> QED BY <3>1, Zenon DEF Calls!Next
  <2>6. CASE Executes(s)
    <3>1. Calls!Execute(s)
      BY <2>1, <2>2, <2>3, <2>6, ActionsOfCalls DEF Executes
    <3> QED BY <3>1, Zenon DEF Calls!Next
  <2>7. CASE Answers(s)
    <3>1. Calls!Answer(s)
      BY <2>1, <2>2, <2>7, ActionsOfCalls DEF Answers
    <3> QED BY <3>1, Zenon DEF Calls!Next
  <2>8. CASE GivesUp(s)
    <3>1. Calls!GiveUp(s)
      BY <2>1, <2>2, <2>4, <2>8, ActionsOfCalls DEF GivesUp
    <3> QED BY <3>1, Zenon DEF Calls!Next
  <2>9. CASE Drops(s)
    <3>1. Calls!Drop(s)
      BY <2>1, <2>2, <2>3, <2>9, ActionsOfCalls DEF Drops
    <3> QED BY <3>1, Zenon DEF Calls!Next
  <2> QED BY <1>4, <2>5, <2>6, <2>7, <2>8, <2>9 DEF Moves
<1>5. CASE Next /\ SenderTerminates
  <2>1. sender'.pc = "ended" /\ \A s \in Sessions : client'[s] = IF handle[s] THEN NoClient ELSE client[s]
    BY <1>5, TypeParts DEF SenderTerminates, CallsInv, IInv, TypeInv, SenderType
  <2>2. \A s \in Sessions : client[s].st = "none"
    BY <1>5 DEF SenderTerminates, CallsInv, EndsOK, IInv, Quiet, On
  <2>3. \A s \in Sessions : client'[s].st # "waiting"
    BY <2>1, <2>2 DEF NoClient
  <2>4. Caller' = [s \in Sessions |-> Empty] /\ Call' = [s \in Sessions |-> Nothing]
    BY <2>1, <2>3 DEF Caller, Call, Nothing
  <2>5. Calls!End
    BY <2>4, Zenon DEF Calls!End, Calls!Init, Calls!Nothing, Caller, Call, Nothing
  <2> QED BY <2>5, Zenon DEF Calls!Next
<1>6. CASE UNCHANGED vars
  <2>1. Caller' = Caller /\ Call' = Call
    BY <1>6 DEF Caller, Call, vars, clientVars, ends, On, Executed
  <2> QED BY <2>1
<1>7. CASE Next
  BY <1>3, <1>4, <1>5, <1>7, CallsOfSessions
<1> QED BY <1>6, <1>7

(* Every client gets the reply of the request it has made, once, whatever    *)
(* the other sessions do and in whatever order the ARM9 answers, and a       *)
(* request that nobody waits for any more is answered to nobody: pxi         *)
(* implements PxiCalls, for any number of sessions and any clients.         *)
THEOREM RepliesReachTheirCallers == Spec => IsCalls
<1>1. Init => Calls!Init
  <2> SUFFICES ASSUME Init PROVE Calls!Init
    OBVIOUS
  <2>1. Caller = [s \in Sessions |-> Empty]
    BY DEF Init, Caller, NoClient
  <2>2. Call = [s \in Sessions |-> Nothing]
    BY SessionIds DEF Init, Call, Nothing, Executed, On
  <2> QED BY <2>1, <2>2, Zenon DEF Calls!Init, Calls!Nothing, Caller, Call, Nothing
<1>2. CallsInv /\ CallsInv' /\ [Next]_vars => [Calls!Next]_<<Caller, Call>>
  BY CallsMapped
<1>3. Init => CallsInv
  BY CallsInit
<1>4. CallsInv /\ [Next]_vars => CallsInv'
  BY CallsStep
<1> QED BY <1>1, <1>2, <1>3, <1>4, PTL DEF Spec, IsCalls, Calls!Spec, Caller, Call
=============================================================================
