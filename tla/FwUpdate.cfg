SPECIFICATION Spec
CONSTANTS
  Options <- AllCommands
  Versions <- AllVersions
  Rounds = 3
  Polls = 1
INVARIANTS TypeOK EntryHasFile RestartHasHappened MutedOnlyForTransition
INVARIANTS SuccessMeansUpgraded TransportMatches
PROPERTIES RefusedIsUntouched TargetOnTransition UpdateIsPromised
PROPERTY EventuallyDone
