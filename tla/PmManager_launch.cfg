\* Launches and terminations without waiting for one another; an application may
\* end at any moment and any load may fail.
\* pm rests once MaxRequests commands have been carried out.
SPECIFICATION Spec
CONSTANTS
  NNodes = 8
  MaxPid = 8
  Titles <- MCTitles
  Deps <- MCDeps
  Listeners <- MCTitles
  Obedient <- MCObedient
  Leaving <- MCLeaving
  Kips <- MCKips
  LastPids <- MCLast
  LoadsFail = TRUE
  Patient = FALSE
  Requests <- LaunchRequests
  MaxRequests = 3
INVARIANTS
  
  OneApplication
  SlotIsApplication
  
CHECK_DEADLOCK FALSE
