-------------------------------- MODULE Genapi --------------------------------
(***************************************************************************)
(* One run of the generator cmd/genapi, step by step: init resolves the    *)
(* gorgonia location, main opens api_gen.go with O_CREATE|O_TRUNC, writes   *)
(* the banner, then generateUnary and generateBinary each parse their      *)
(* operator file, scrape its operator list and execute their template once *)
(* per operator into the open file.  Every log.Fatal ends the process on   *)
(* the spot.  Writes go straight to the file: the errors of Fprintf and of *)
(* Template.Execute are ignored, and a failed write leaves part of its     *)
(* text (or none) in the file.                                             *)
(***************************************************************************)
EXTENDS GenCatalog

CONSTANTS
  UnarySources,   \* the unary operator files the run may find: decl lists or Malformed
  BinarySources,  \* the same for the binary operator file
  Malformed,      \* a file parser.ParseFile rejects (or cannot read)
  UnaryType,      \* "ʘUnaryOperatorType"
  UnaryMax,       \* the sentinel "maxʘUnaryOperator"
  BinaryType,     \* "ʘBinaryOperatorType"
  BinaryMax,      \* the sentinel "maxʘBinaryOpType"
  WriteFaults     \* whether a write to the output file may fail

ASSUME GenapiAssumption ==
  /\ UnarySources \subseteq Seq(Decl) \cup {Malformed}
  /\ BinarySources \subseteq Seq(Decl) \cup {Malformed}
  /\ {UnaryMax, BinaryMax} \subseteq Ident
  /\ WriteFaults \in BOOLEAN
  /\ Words # {}
  \* constTypes returns a []string: the list it scrapes from a file that
  \* parses is a list of identifiers.
  /\ \A s \in UnarySources \ {Malformed} : ConstTypes(s, UnaryType, UnaryMax) \in Seq(Ident)
  /\ \A s \in BinarySources \ {Malformed} : ConstTypes(s, BinaryType, BinaryMax) \in Seq(Ident)

VARIABLES
  pc,        \* "init", "open", "header", "parseU", "unary", "parseB", "binary", "exit"
  exitCode,  \* -1 while running, then the process's exit status
  file,      \* the content of api_gen.go, a sequence of text blocks
  srcU,      \* the unary operator file on disk
  srcB,      \* the binary operator file on disk
  names,     \* the operator list being rendered
  k          \* index in names of the next operator to render

vars == <<pc, exitCode, file, srcU, srcB, names, k>>

(* A text block of the output: the banner, a rendered template or the      *)
(* content left by an earlier run.  whole is FALSE when a write failed      *)
(* part of the way through it.                                             *)
NoOp == [word |-> CHOOSE w \in Words : TRUE, lower |-> FALSE, suffix |-> FALSE]
Block(fam, v) ==
  [fam |-> fam, fn |-> ApiName(fam, v), opType |-> v,
   asSame |-> AsSame(fam, v), whole |-> TRUE]
Banner == [fam |-> "banner", fn |-> "", opType |-> NoOp, asSame |-> FALSE, whole |-> TRUE]
Stale  == [Banner EXCEPT !.fam = "stale"]

(* The text of a run that nothing goes wrong in.                           *)
Blocks(fam, ns) == [j \in 1..Len(ns) |-> Block(fam, ns[j])]
(* A malformed operator file ends the run before anything of it or after *)
(* it is written.                                                          *)
UnaryBlocks  == Blocks("unary", ConstTypes(srcU, UnaryType, UnaryMax))
BinaryBlocks == Blocks("binary", ConstTypes(srcB, BinaryType, BinaryMax))
Expected ==
  <<Banner>> \o IF srcU = Malformed THEN <<>>
                ELSE UnaryBlocks \o IF srcB = Malformed THEN <<>> ELSE BinaryBlocks

(* What a write that fails part of the way leaves of block b.             *)
Partial(b) == [b EXCEPT !.whole = FALSE]

(* One unchecked write of block b: all of it, or, when it fails, a part.   *)
Write(b) ==
  file' \in {Append(file, b)} \cup
            (IF WriteFaults THEN {Append(file, Partial(b))} ELSE {})

(* log.Fatal: the process exits with status 1, deferred calls not run.    *)
Fatal == pc' = "exit" /\ exitCode' = 1

Init ==
  /\ pc = "init"
  /\ exitCode = -1
  /\ file = <<Stale>>
  /\ srcU \in UnarySources
  /\ srcB \in BinarySources
  /\ names = <<>>
  /\ k = 0

(* init(): $GOPATH, else the home directory's go/ (user.Current and         *)
(* os.Stat may fail, or it may not be a directory); the templates parse.   *)
Setup ==
  /\ pc = "init"
  /\ \/ pc' = "open" /\ UNCHANGED exitCode
     \/ Fatal
  /\ UNCHANGED <<file, srcU, srcB, names, k>>

(* Mutant: the output opened without O_TRUNC.                              *)
OpenNoTrunc ==
  /\ pc = "open"
  /\ \/ pc' = "header" /\ UNCHANGED <<exitCode, file>>
     \/ Fatal /\ UNCHANGED file
  /\ UNCHANGED <<srcU, srcB, names, k>>

(* os.OpenFile(..., O_CREATE|O_TRUNC|O_WRONLY): the old content is gone    *)
(* once it succeeds and untouched when it fails.                           *)
Open ==
  /\ pc = "open"
  /\ \/ pc' = "header" /\ file' = <<>> /\ UNCHANGED exitCode
     \/ Fatal /\ UNCHANGED file
  /\ UNCHANGED <<srcU, srcB, names, k>>

(* fmt.Fprintf of the package clause, imports and banner.                 *)
WriteHeader ==
  /\ pc = "header"
  /\ Write(Banner)
  /\ pc' = "parseU"
  /\ UNCHANGED <<exitCode, srcU, srcB, names, k>>

(* Mutant: an extractor that stops after the first group of the type.     *)
ParseFirstGroup(at, src, type, max, next) ==
  /\ pc = at
  /\ \/ src = Malformed /\ Fatal /\ UNCHANGED <<names, k>>
     \/ src # Malformed /\ pc' = next /\ UNCHANGED exitCode
        /\ names' = FirstGroupNames(src, type, max) /\ k' = 1
  /\ UNCHANGED <<file, srcU, srcB>>

(* parser.ParseFile of the operator file, then constTypes.                 *)
Parse(at, src, type, max, next) ==
  /\ pc = at
  /\ \/ src = Malformed /\ Fatal /\ UNCHANGED <<names, k>>
     \/ src # Malformed /\ pc' = next /\ UNCHANGED exitCode
        /\ names' = ConstTypes(src, type, max) /\ k' = 1
  /\ UNCHANGED <<file, srcU, srcB>>

(* One iteration of the range over the names: Template.Execute into the    *)
(* file, its error ignored.                                                *)
Render(fam) ==
  /\ pc = fam
  /\ k <= Len(names)
  /\ Write(Block(fam, names[k]))
  /\ k' = k + 1
  /\ UNCHANGED <<pc, exitCode, srcU, srcB, names>>

(* Mutant: the end of the range taken one iteration early.               *)
EndRangeEarly(fam, next, code) ==
  /\ pc = fam
  /\ k = Len(names)
  /\ pc' = next
  /\ exitCode' = code
  /\ UNCHANGED <<file, srcU, srcB, names, k>>

(* The range is exhausted: generateUnary returns and generateBinary is     *)
(* called; generateBinary returns and main returns (exit status 0).        *)
EndRange(fam, next, code) ==
  /\ pc = fam
  /\ k = Len(names) + 1
  /\ pc' = next
  /\ exitCode' = code
  /\ UNCHANGED <<file, srcU, srcB, names, k>>

Next ==
  \/ Setup
  \/ Open
  \/ WriteHeader
  \/ Parse("parseU", srcU, UnaryType, UnaryMax, "unary")
  \/ Render("unary")
  \/ EndRange("unary", "parseB", -1)
  \/ Parse("parseB", srcB, BinaryType, BinaryMax, "binary")
  \/ Render("binary")
  \/ EndRange("binary", "exit", 0)

(* One goroutine running straight through: nothing it waits on.           *)
Spec == Init /\ [][Next]_vars /\ WF_vars(Next)

-----------------------------------------------------------------------------
BlockType ==
  [fam: {"banner", "stale", "unary", "binary"},
   fn: Words \cup {"", "Log", "HadamardProd", "HadamardDiv"}, opType: Ident,
   asSame: BOOLEAN, whole: BOOLEAN]

TypeOK ==
  /\ pc \in {"init", "open", "header", "parseU", "unary", "parseB", "binary", "exit"}
  /\ exitCode \in {-1, 0, 1}
  /\ (pc = "exit") <=> (exitCode # -1)
  /\ file \in Seq(BlockType)
  /\ srcU \in UnarySources /\ srcB \in BinarySources
  /\ names \in Seq(Ident)
  /\ k \in 0..Len(names) + 1

(* The output file is always either the previous run's file, untouched,   *)
(* or, counting a partly written block as the block it was to be, a        *)
(* prefix of what a complete run writes: the banner, then one block        *)
(* per unary operator and one per binary operator, each in declaration    *)
(* order.  About main's O_TRUNC open before any write, the order of the    *)
(* two generate calls and their range loops, and every log.Fatal stopping  *)
(* the writes where they are (design, section 7: a truncated file).        *)
Whole(b) == [b EXCEPT !.whole = TRUE]
Intended(f) == [j \in 1..Len(f) |-> Whole(f[j])]
IsPrefix(s, t) == Len(s) <= Len(t) /\ s = SubSeq(t, 1, Len(s))
OutputPrefix == file = <<Stale>> \/ IsPrefix(Intended(file), Expected)

(* A run that exits with status 0 has written the whole file (design,     *)
(* section 6: exit 0 means the file is fully rewritten).                   *)
CompleteOnSuccess == exitCode = 0 => file = Expected

(* The inductive invariant behind OutputPrefix and CompleteOnSuccess: at   *)
(* each point of main the file holds, counting partial blocks as whole,    *)
(* exactly what a complete run has written by then: the old content before *)
(* the open, nothing after it, the banner, then the first k-1 blocks of    *)
(* the family being rendered after all blocks of the unary family.         *)
GenInv ==
  /\ TypeOK
  /\ pc \in {"init", "open"} => file = <<Stale>>
  /\ pc = "header" => file = <<>>
  /\ pc = "parseU" => Intended(file) = <<Banner>>
  /\ pc = "unary" =>
       /\ srcU # Malformed /\ names = ConstTypes(srcU, UnaryType, UnaryMax) /\ k >= 1
       /\ Intended(file) = <<Banner>> \o SubSeq(UnaryBlocks, 1, k - 1)
  /\ pc \in {"parseB", "binary"} => srcU # Malformed
  /\ pc = "parseB" => Intended(file) = <<Banner>> \o UnaryBlocks
  /\ pc = "binary" =>
       /\ srcB # Malformed /\ names = ConstTypes(srcB, BinaryType, BinaryMax) /\ k >= 1
       /\ Intended(file) = <<Banner>> \o UnaryBlocks \o SubSeq(BinaryBlocks, 1, k - 1)
  /\ pc = "exit" => OutputPrefix
  /\ exitCode = 0 => Intended(file) = Expected
  /\ ~ WriteFaults => Intended(file) = file

(* The generator keeps the promise of GenOutput (design, sections 3 and 6): *)
(* os.OpenFile truncates api_gen.go once, every Fprintf and Execute then   *)
(* appends the next block of the complete output (a part of it when the    *)
(* write fails), each log.Fatal leaves the file as it is with status 1,    *)
(* and main returns (status 0) only once every block has been written.     *)
GO == INSTANCE GenOutput WITH
        BlockSet <- BlockType, out <- file, status <- exitCode, target <- Expected
GenOutputSpec == GO!Spec

-----------------------------------------------------------------------------
(* The design's extractor (section 4.1) accepts the first group of the     *)
(* operator type only: the list constTypes returns is that group's names.  *)
FirstGroupOnly ==
  pc = "unary" => names = FirstGroupNames(srcU, UnaryType, UnaryMax)

(* The design's name uniqueness (section 8): no two distinct operators of  *)
(* one family get the same public function name in the generated file.    *)
UniqueApiNames ==
  \A i, j \in 1..Len(file) :
    /\ file[i].fam \in {"unary", "binary"}
    /\ file[i].fam = file[j].fam
    /\ file[i].opType # file[j].opType
    => file[i].fn # file[j].fn

(* The design's extractor (section 4.1) collects, within an accepted       *)
(* group, each member's identifier: every name a spec of the group         *)
(* declares, other than the sentinel, is in the list constTypes returns.   *)
(* About constTypes reading Names[0] of each spec only.                    *)
DeclaredMembers(decls, accept, max) ==
  { x \in Ident \ {max} :
      \E g \in 1..Len(decls) :
        /\ Accepted(decls[g], accept)
        /\ \E s \in 1..Len(decls[g].specs) :
             \E n \in 1..Len(decls[g].specs[s].names) :
               decls[g].specs[s].names[n] = x }
MembersCollected ==
  pc = "unary" =>
    DeclaredMembers(srcU, UnaryType, UnaryMax) \subseteq {names[j] : j \in 1..Len(names)}

=============================================================================
