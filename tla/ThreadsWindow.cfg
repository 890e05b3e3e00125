CONSTANTS
  Clock = 8
  Short = 4
  MinSleep = 1
  MaxSleep = 2
  MaxKernelSleep = 2
  MaxMs = 3
  MaxDelay = 3
  Window = TRUE
SPECIFICATION Spec
INVARIANT NeverOversleeps
