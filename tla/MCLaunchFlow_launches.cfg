SPECIFICATION FairSpec
CONSTANTS
  Attempts = {a1, a2}
  Watched = {a1}
  Settings <- MCSettings
INVARIANTS TypeOK SplashTruthful GameIsSupervised FailurePublished
PROPERTY FailureIsShown
