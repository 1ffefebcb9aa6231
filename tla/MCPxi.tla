------------------------------- MODULE MCPxi -------------------------------
(* Instances of PxiServer.  Session 0 is pxi:mc; session 1 stands for     *)
(* those that bring data.                                                   *)
EXTENDS PxiServer, TLC

TwoSessions == (0 :> 0) @@ (1 :> 2)

(* Both sessions with pxi:mc 5, one session with pxi:srv11, and the end of   *)
(* pxi with both services                                                    *)
SomeUses == {[clients |-> {0, 1}, modes |-> TRUE, ends |-> FALSE, asks |-> FALSE],
             [clients |-> {1}, modes |-> FALSE, ends |-> TRUE, asks |-> TRUE]}
=============================================================================
