SPECIFICATION Spec
CONSTANTS
  Programs <- MCShifted
  Expected <- MCShiftedExpected
  JumpBase <- MCJumpBase
  Arity <- MCArity
  MaxInt <- MCMaxInt
  Heights <- MCHeights
  Scopes <- MCScopes
  WalkLimit = 20
  Settings <- MCSettings
INVARIANT AnswersAsTheSource
