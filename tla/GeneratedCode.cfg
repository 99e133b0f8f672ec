SPECIFICATION Spec
CONSTANTS
  Programs <- MCPrograms
  Expected <- MCExpected
  JumpBase <- MCJumpBase
  Arity <- MCArity
  MaxInt <- MCMaxInt
  Heights <- MCHeights
  Scopes <- MCScopes
  WalkLimit = 20
  Settings <- MCSettings
INVARIANTS
  TypeOK
  AnswersAsTheSource
  StackFits
  LandsOnInstructions
  WalkSeesAllCode
  Inv
PROPERTIES
  Terminates
  ShiftsAreInvisible
