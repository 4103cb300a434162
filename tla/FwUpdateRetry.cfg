SPECIFICATION Spec
CONSTANTS
  Options <- RemoteOnly
  Versions <- OrdinaryVersions
  Rounds = 2
  Polls = 1
INVARIANT RetryHasTask
