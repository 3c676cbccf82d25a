SPECIFICATION FairSpec
CONSTANTS
  TicksPerSecond = 1
  Horizon = 3
  AdmissionTimeout = 1
  PolicyExpires = 2
  HeartbeatSeconds = 1
  ReportSeconds = 1
  GraceSeconds = 0
  ChallengeWindow = 2
  MaxSequence = 2
  QueueCapacity = 1
  PipeCapacity = 1
  Nonces = {1, 2}
  GameFrames <- EveryFrame
  MaxFrames = 2
  Launches = {"plain", "registered", "updatable"}
  NoDigest = NoDigest
  Digests <- MCDigests
  Digest <- MCDigest
INVARIANTS ReportAnswersChallenge StatusFollowsWire NeverDisconnected
PROPERTIES VerdictIsLast StatusInOrder Returns
