----------------------------- MODULE MCPmManager ---------------------------
(* Small instances of PmManager for TLC.                                     *)
EXTENDS PmManager, TLC

MCTitles == {"pxi", "app", "game", "mod", "dep", "shell"}
MCDeps == [x \in MCTitles |-> CASE x = "app" -> <<"mod">> [] x = "game" -> <<"mod", "dep">>
                                [] x \in {"mod", "shell"} -> <<"dep">> [] OTHER -> <<>>]
MCKips == <<"pxi">>
MCLast == <<1>>
MCNobody == {}
MCLeaving == {"app", "game"}
MCObedient == {"pxi", "mod", "dep"}

Launches(x, isApp) == [op : {"LaunchTitle"}, title : {x}, app : {isApp}, deps : {FALSE},
                       notify : {isApp}]
WithModules(x) == [op : {"LaunchTitle"}, title : {x}, app : {FALSE}, deps : {TRUE},
                   notify : {FALSE}]
Unobserved(x) == [op : {"LaunchTitle"}, title : {x}, app : {TRUE}, deps : {FALSE}, notify : {FALSE}]
Debugs(x) == [op : {"LaunchAppDebug"}, title : {x}, app : {TRUE}, deps : {FALSE}, notify : {TRUE}]
EndApp == [op : {"TerminateApplication"}]
EndPid(p) == [op : {"TerminateProcess"}, pid : {p}, wait : {TRUE}]
EndTitle(x, wait) == [op : {"TerminateTitle"}, title : {x}, wait : {wait}]
Unregister(x) == [op : {"UnregisterProcess"}, title : {x}]
Reboot(p) == [op : {"Reboot"}, pid : {p}]

LaunchRequests == UNION { Unobserved("app"), Launches("mod", FALSE), EndTitle("mod", TRUE),
                          EndTitle("mod", FALSE) }
TwinRequests == UNION { Launches("app", TRUE), Launches("mod", FALSE) }
AppRequests == Launches("app", TRUE)
ExitRequests == UNION { Launches("game", TRUE), EndApp }
EndRequests == UNION { Debugs("app"), WithModules("shell"), EndApp, EndPid(2),
                       Unregister("app"), Reboot(2) }
=============================================================================
