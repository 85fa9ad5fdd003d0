SPECIFICATION Spec
CONSTANTS
  MaxCommands = 2
  Command <- OneCommand
  Status <- FewStatuses
  Reporter <- TwoReporters
  Room <- NoRoom
  NoStatus = NoStatus
CHECK_DEADLOCK FALSE
INVARIANTS
  TypeOK
  NoForgottenCommand
  OneTerminalActivity
