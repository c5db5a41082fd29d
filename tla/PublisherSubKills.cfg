CONSTANTS
  Cids = {c1}
  Topics = {ipc, other}
  Ipc = ipc
  NoCid = none
  MaxCommands = 1
  Contexts = {FALSE}
  SocketFaults = FALSE
SPECIFICATION Spec
INVARIANTS
  CommandsAreSurvived
