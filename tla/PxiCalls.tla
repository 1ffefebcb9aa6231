----------------------------- MODULE PxiCalls ------------------------------
(***************************************************************************)
(* What pxi promises: each session has at most one call under way, which is *)
(* executed at most once, and its result goes to the caller who asked for   *)
(* it.  A caller may give up; then nobody is told.                          *)
(***************************************************************************)
CONSTANTS Sessions, Requests, NoRequest
VARIABLES
  caller,      \* the request each session waits for
  call         \* what is under way

Nothing == [st |-> "none", cmd |-> NoRequest]

Init == /\ caller = [s \in Sessions |-> NoRequest]
        /\ call = [s \in Sessions |-> Nothing]

Waits(s) == caller[s] # NoRequest

Ask(s) ==
  /\ ~Waits(s) /\ call[s] = Nothing
  /\ \E c \in Requests : /\ caller' = [caller EXCEPT ![s] = c]
                         /\ call' = [call EXCEPT ![s] = [st |-> "asked", cmd |-> c]]

Execute(s) ==
  /\ call[s].st = "asked"
  /\ call' = [call EXCEPT ![s].st = "executed"]
  /\ UNCHANGED caller

Answer(s) ==
  /\ call[s].st = "executed" /\ caller[s] = call[s].cmd
  /\ caller' = [caller EXCEPT ![s] = NoRequest]
  /\ call' = [call EXCEPT ![s] = Nothing]

GiveUp(s) ==
  /\ Waits(s)
  /\ caller' = [caller EXCEPT ![s] = NoRequest]
  /\ UNCHANGED call

Drop(s) ==
  /\ call[s].st = "executed" /\ ~Waits(s)
  /\ call' = [call EXCEPT ![s] = Nothing]
  /\ UNCHANGED caller

(* All sessions are closed.                                                 *)
End == Init'

Next == End \/ \E s \in Sessions :
  Ask(s) \/ Execute(s) \/ Answer(s) \/ GiveUp(s) \/ Drop(s)
Spec == Init /\ [][Next]_<<caller, call>>
=============================================================================
