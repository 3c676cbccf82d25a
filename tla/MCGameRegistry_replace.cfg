SPECIFICATION Spec
CONSTANTS
  MaxRelease = 2
  MaxMetadata = 1
  Procs = {p1, p2}
  Concurrent = FALSE
  Checks = TRUE
INVARIANTS TypeOK RegistrationSurvives
PROPERTIES ReplacesAtomically MetadataKept
