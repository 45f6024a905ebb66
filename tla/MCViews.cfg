SPECIFICATION Spec
CONSTANTS
  OffMod = 8
  Para = 2
  PhysSize = 16
  Operation <- OperationMC
  NoOperation = none
  Error = error
  base_addr = 18
  Length = 4
  Memories <- Striped
PROPERTIES ArraySpec Untouched
