\* Seven rows: the console leaves the screen at the second Enter, the panic
\* screen after four lines were logged.
CONSTANTS
  Width = 200
  Height = 136
  Motd <- MCMotd
  Prompt <- MCPrompt
  KeyLog <- MCKeyLog
  FatalLog <- MCFatalLog
  Logs <- MCLogs
  MaxKeys = 3
  MaxLogs = 5
SPECIFICATION Spec
CHECK_DEADLOCK FALSE
INVARIANTS
  ShowsText
  OffScreenIffFull
  PanicShowsEveryLog
