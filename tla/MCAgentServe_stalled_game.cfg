SPECIFICATION AgentFairSpec
CONSTANTS
  TicksPerSecond = 2
  Horizon = 12
  AdmissionTimeout = 1
  PolicyExpires = 5
  HeartbeatSeconds = 1
  ReportSeconds = 4
  GraceSeconds = 1
  ChallengeWindow = 4
  MaxSequence = 3
  QueueCapacity = 1
  PipeCapacity = 3
  Nonces = {1, 2}
  GameFrames <- SessionFrames
  MaxFrames = 1
  Launches = {"registered"}
  NoDigest = NoDigest
  Digests <- MCDigests
  Digest <- MCDigest
PROPERTY Returns
