CONSTANTS
  SignedVals   <- MCSignedVals
  UnsignedVals <- MCUnsignedVals
  FloatVals    <- MCFloatVals
  NaN          = NaN
  Strs         <- MCStrs
  Pointers     = {p1, p2}
  MaxLen       = 2
  None         = None
  NoArgs       = NoArgs

SPECIFICATION Spec

INVARIANTS
  TypeOK
  ResultCorrect
  OutcomeByLength
