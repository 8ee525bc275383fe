------------------------------ MODULE GenCatalog ------------------------------
(***************************************************************************)
(* The pure part of the API generator cmd/genapi: constTypes, which scrapes *)
(* the operator identifiers out of the parsed const declarations of an     *)
(* operator source file, and the naming rules of generateUnary and         *)
(* generateBinary, which turn an identifier into the public function name  *)
(* and decide whether the binary template emits the retSame parameter.     *)
(*                                                                         *)
(* An identifier is abstracted to the word it spells (capitalised), whether *)
(* its first letter is lower case and whether it carries the "OpType"      *)
(* suffix: strings.Title(strings.TrimSuffix(id, "OpType")) is then the     *)
(* word, for the one-word identifiers the operator files declare.          *)
(***************************************************************************)
EXTENDS Integers, Sequences

CONSTANTS
  Words,       \* the capitalised words identifiers spell
  TypeExprs    \* the type expressions a const spec can carry; "None" is nil

Ident == [word: Words, lower: BOOLEAN, suffix: BOOLEAN]

(* A const spec: its declared type and the names it declares (Names).      *)
ValueSpec == [type: TypeExprs, names: Seq(Ident) \ {<<>>}]

(* A top-level declaration: a GenDecl with its token and specs, or a      *)
(* FuncDecl (tok "func", no specs).                                       *)
Decl == [tok: {"const", "var", "import", "type", "func"}, specs: Seq(ValueSpec)]

-----------------------------------------------------------------------------
(* A declaration constTypes takes names from: a const GenDecl with specs   *)
(* whose first spec's type is the identifier accept.  A nil type or a type *)
(* that is not an identifier never equals accept.                          *)
Accepted(d, accept) ==
  /\ d.tok = "const"
  /\ Len(d.specs) > 0
  /\ d.specs[1].type = accept

(* The names one accepted group contributes: the first name of each spec, *)
(* in declaration order, the sentinel max skipped wherever it stands.      *)
GroupNames(d, max) ==
  SelectSeq([j \in 1..Len(d.specs) |-> d.specs[j].names[1]],
            LAMBDA n : n # max)

(* constTypes(decls, accept, max): the range over decls appends the names *)
(* of every accepted group, in order; it does not stop at the first one.   *)
(* scan[n] is names after the first n declarations.                        *)
ConstTypes(decls, accept, max) ==
  LET scan[n \in 0..Len(decls)] ==
        IF n = 0 THEN <<>>
        ELSE scan[n - 1] \o IF Accepted(decls[n], accept)
                            THEN GroupNames(decls[n], max) ELSE <<>>
  IN  scan[Len(decls)]

(* What section 4.1 of the design describes: the names of the first        *)
(* accepted group only.                                                    *)
FirstGroupNames(decls, accept, max) ==
  LET groups == SelectSeq(decls, LAMBDA d : Accepted(d, accept))
  IN  IF groups = <<>> THEN <<>> ELSE GroupNames(groups[1], max)

-----------------------------------------------------------------------------
(* apiName := strings.Title(strings.TrimSuffix(v, "OpType")) and the       *)
(* legacy overrides: Ln is Log for unary operators, Mul and Div are        *)
(* HadamardProd and HadamardDiv for binary ones.                           *)
ApiName(fam, v) ==
  CASE fam = "unary"  /\ v.word = "Ln"  -> "Log"
    [] fam = "binary" /\ v.word = "Mul" -> "HadamardProd"
    [] fam = "binary" /\ v.word = "Div" -> "HadamardDiv"
    [] OTHER                            -> v.word

(* The comparison operators get the retSame parameter.                     *)
AsSame(fam, v) ==
  fam = "binary" /\ ApiName(fam, v) \in {"Lt", "Gt", "Lte", "Gte", "Eq", "Ne"}

=============================================================================
