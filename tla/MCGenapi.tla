------------------------------ MODULE MCGenapi --------------------------------
(***************************************************************************)
(* The operator files a run of the generator is checked on.  Each is a     *)
(* list of top-level declarations as go/parser returns them.  The unary    *)
(* files: the usual iota group (only its first spec typed, the sentinel    *)
(* last); a file with an import, a const group of another type, a func and *)
(* two groups of the operator type, the sentinel in the middle of the      *)
(* first; a file without the group; a group whose first spec declares    *)
(* two names (sqrtOpType, absOpType UnaryT = iota, iota); a malformed     *)
(* file.  The binary files alike, the second one declaring both Div and    *)
(* divOpType.                                                              *)
(***************************************************************************)
EXTENDS Genapi

Id(w, low, suf) == [word |-> w, lower |-> low, suffix |-> suf]
Const(type, ids) ==
  [tok |-> "const",
   specs |-> [j \in 1..Len(ids) |->
                [type |-> IF j = 1 THEN type ELSE "None", names |-> <<ids[j]>>]]]
Other(tok) == [tok |-> tok, specs |-> <<>>]

MCUnaryMax  == Id("MaxUnary", TRUE, FALSE)
MCBinaryMax == Id("MaxBinary", TRUE, FALSE)

MCUnarySources ==
  { << Const("UnaryT", << Id("Abs", TRUE, TRUE), Id("Ln", TRUE, TRUE),
                          MCUnaryMax >>) >>,
    << Other("import"),
       Const("OtherT", << Id("Sqrt", TRUE, TRUE) >>),
       Const("UnaryT", << Id("Ln", TRUE, TRUE), MCUnaryMax, Id("Abs", FALSE, FALSE) >>),
       Other("func"),
       Const("UnaryT", << Id("Abs", TRUE, TRUE) >>) >>,
    << Other("type"), Const("None", << Id("Abs", TRUE, TRUE) >>) >>,
    << [tok |-> "const",
        specs |-> << [type |-> "UnaryT",
                      names |-> << Id("Sqrt", TRUE, TRUE), Id("Abs", TRUE, TRUE) >>],
                     [type |-> "None", names |-> << MCUnaryMax >>] >>] >>,
    Malformed }

MCBinarySources ==
  { << Const("BinaryT", << Id("Mul", TRUE, TRUE), Id("Eq", TRUE, TRUE),
                           MCBinaryMax >>) >>,
    << Const("BinaryT", << Id("Div", FALSE, FALSE), Id("Div", TRUE, TRUE),
                           Id("Add", TRUE, TRUE), MCBinaryMax >>),
       Other("var") >>,
    Malformed }

=============================================================================
