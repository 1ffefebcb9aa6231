\* One command at a time; processes end when they are asked to, late or never.
\* pm rests once MaxRequests commands have been carried out.
SPECIFICATION FairSpec
CONSTANTS
  NNodes = 7
  MaxPid = 7
  Titles <- MCTitles
  Deps <- MCDeps
  Listeners <- MCTitles
  Obedient <- MCObedient
  Leaving <- MCNobody
  Kips <- MCKips
  LastPids <- MCLast
  LoadsFail = FALSE
  Patient = TRUE
  Requests <- EndRequests
  MaxRequests = 3
INVARIANTS
  TypeOK
  RefcountsAreUsers
  ToldOnce
  CallerIsSpared
  OneProcessPerTitle
PROPERTIES
  ThreadsComeBack
  SlotIsFreed
CHECK_DEADLOCK FALSE
