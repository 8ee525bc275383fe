CONSTANTS
  Words = {"Abs", "Ln", "Sqrt", "Add", "Mul", "Div", "Eq", "MaxUnary", "MaxBinary"}
  TypeExprs = {"UnaryT", "BinaryT", "OtherT", "None"}
  UnarySources <- MCUnarySources
  BinarySources <- MCBinarySources
  Malformed = Malformed
  UnaryType = "UnaryT"
  UnaryMax <- MCUnaryMax
  BinaryType = "BinaryT"
  BinaryMax <- MCBinaryMax
  WriteFaults = TRUE

SPECIFICATION Spec

INVARIANT
  OutputPrefix

PROPERTY
  GenOutputSpec

CHECK_DEADLOCK FALSE
