\* SetBitrateConfig suppression against forwarding every call.
CONSTANTS
  MinValues <- MC_MinValues
  StartValues <- MC_StartValues
  MaxValues <- MC_MaxValues
SPECIFICATION Spec
INVARIANT SuppressionSound
