CONSTANTS
  Depth = 3
  Modules <- MC_Modules
  MaxHandoffs = 3
  None = None
SPECIFICATION Spec
INVARIANT ScratchBufferNotReentered
