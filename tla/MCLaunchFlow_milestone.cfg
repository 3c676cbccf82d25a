SPECIFICATION Spec
CONSTANTS
  Attempts = {a1}
  Watched = {a1}
  Settings <- Ordinary
PROPERTY FailureKeepsMilestone
