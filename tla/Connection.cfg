\* The user clicks three times at any moment; the process ends with the window,
\* and the last click may have been made.
SPECIFICATION ConnFairSpec
CONSTANTS
  MaxClicks = 3
  MaxRunning = 2
  MaxPending = 2
  Choices <- MCChoices
CHECK_DEADLOCK FALSE
INVARIANTS
  ConnTypeOK
  HandlesAreOpen
  OrderlyConnection
  PanelSettles
  ButtonsSettle
PROPERTY
  WindowRecovers
