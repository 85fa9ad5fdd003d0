SPECIFICATION Spec
CONSTANTS
  MaxCommands = 1
  Command <- FewCommands
  Status <- FewStatuses
  Reporter <- OneReporter
  Room <- NoRoom
  NoStatus = NoStatus
CHECK_DEADLOCK FALSE
PROPERTY TerminalIsLast
