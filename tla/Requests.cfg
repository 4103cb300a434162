SPECIFICATION Spec
CONSTANTS
  Plans <- AllPlans
  MaxMembers = 2
INVARIANTS TypeOK SuccessIsEarned ReasonGiven OldFileKept ChangesAreSound
CHECK_DEADLOCK FALSE
