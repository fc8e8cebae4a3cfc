SPECIFICATION Spec
CONSTANTS
  Settings <- SomeSettings
  MinGrace = 1
  Check = 2
  Slack = 1
  MaxAge = 23
INVARIANT InterruptsInTime
PROPERTIES ProgressIsHeard SpikesAreTolerated
CHECK_DEADLOCK FALSE
