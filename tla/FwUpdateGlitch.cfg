SPECIFICATION Spec
CONSTANTS
  Options <- ToNewBmc
  Versions <- TransitionVersions
  Rounds = 2
  Polls = 1
INVARIANT TransitionIsActive
