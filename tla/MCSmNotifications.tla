-------------------------- MODULE MCSmNotifications ------------------------
(* A small instance of SmNotifications for TLC.  The notifications are       *)
(* interchangeable.                                                          *)
EXTENDS SmNotifications, TLC

CONSTANTS x, y

MCIds == {x, y}
Symm == Permutations(MCIds)
=============================================================================
