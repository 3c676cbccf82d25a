SPECIFICATION Spec
CONSTANTS
  TicksPerSecond = 2
  Horizon = 8
  AdmissionTimeout = 1
  PolicyExpires = 3
  HeartbeatSeconds = 1
  ReportSeconds = 1
  GraceSeconds = 1
  ChallengeWindow = 4
  MaxSequence = 3
  QueueCapacity = 1
  PipeCapacity = 2
  Nonces = {1, 2}
  GameFrames <- SessionFrames
  MaxFrames = 3
  Launches = {"registered"}
  NoDigest = NoDigest
  Digests <- MCDigests
  Digest <- MCDigest
INVARIANTS TypeOK ReportAnswersChallenge LateReportIsLast
  SleepBounded StatusFollowsWire NeverDisconnected
PROPERTIES VerdictIsLast StatusInOrder ReportsFormChain
