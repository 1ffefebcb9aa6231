------------------------------- MODULE MCGdb -------------------------------
(* Small instances of GdbStub for TLC.                                       *)
EXTENDS GdbStub

CONSTANTS pa, pb
MCPids == {pa, pb}

(* Two sessions at a time, or one with everything that can happen to it     *)
MCUses ==
  {[disables |-> FALSE, ports |-> Ports, pids |-> {pa, pb}, cmds |-> {"c", "D"}, events |-> {"stop"}],
   [disables |-> TRUE, ports |-> {1}, pids |-> {pa}, cmds |-> Commands,
    events |-> {"stop", "auto", "exit"}]}
MCOneSession ==
  {[disables |-> FALSE, ports |-> {1}, pids |-> {pa}, cmds |-> Commands, events |-> {"stop", "exit"}]}
=============================================================================
