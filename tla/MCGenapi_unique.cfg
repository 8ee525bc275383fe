CONSTANTS
  Words = {"Abs", "Ln", "Sqrt", "Add", "Mul", "Div", "Eq", "MaxUnary", "MaxBinary"}
  TypeExprs = {"UnaryT", "BinaryT", "OtherT", "None"}
  UnarySources <- MCUnarySources
  BinarySources <- MCBinarySources
  Malformed = Malformed
  UnaryType = "UnaryT"
  UnaryMax <- MCUnaryMax
  BinaryType = "BinaryT"
  BinaryMax <- MCBinaryMax
  WriteFaults = FALSE

SPECIFICATION Spec

INVARIANT
  UniqueApiNames

CHECK_DEADLOCK FALSE
