SPECIFICATION Spec
CONSTANTS
  Ring <- MCRing
  Half = 536870912
  Times <- MCTimes
  Versions = {0, 1, 2, 3}
  Documents <- MCDocuments
  Bundles <- MCBundles
  Manifests <- MCManifests
  Products = {"agent", "other"}
  Protocols = {0, 1, 3}
  Challenges <- MCChallenges
  SessionId = "s"
  AgentKey = "key"
  Build = "build"
  MaxSequence = 3
  Digests <- MCDigests
  Digest <- MCDigest
  NoDigest = NoDigest
  None = None
INVARIANTS TypeOK ShortLived UpdateHelps NewerIsNoWorse RepeatIsBrief
PROPERTIES RevokedStaysRevoked ReportsFormChain
CHECK_DEADLOCK FALSE
