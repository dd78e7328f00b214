SPECIFICATION Spec
CONSTANTS
  NULL = NULL
  Ifaces <- MCIfaces
  Structs <- MCStructs
  MaxCpus = 3
  MaxCommands = 2
INVARIANTS TypeOK NothingLeftBehind NoDanglingPointer KernelCommandIsEquipped
