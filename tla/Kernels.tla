------------------------------- MODULE Kernels -------------------------------
(***************************************************************************)
(* The comparison kernels of the generated tensor file: the kinds they are *)
(* written for, what Go's ==, <, <=, >, >= mean on each kind, which        *)
(* kernels exist (the kernel matrix) and what a kernel call returns as a   *)
(* whole.  The step-by-step loop of a kernel is in KernelLoop.             *)
(*                                                                         *)
(* A kernel is named <op><shape><result><kind>: op in eq gt gte lt lte,    *)
(* shape DD (slice against slice) or DS (slice against scalar), result     *)
(* Bools ([]bool mask) or Same (0/1 of the element type).  Values are      *)
(* abstracted to small sets; the width of an integer kind is not           *)
(* observable by a comparison, so all its values come from one set that    *)
(* fits the narrowest width.                                               *)
(***************************************************************************)
EXTENDS Integers, Sequences

CONSTANTS
  SignedVals,    \* values of int, int8 .. int64
  UnsignedVals,  \* values of uint, uint8 .. uint64 and uintptr
  FloatVals,     \* the non-NaN values of float32 and float64
  NaN,           \* the float NaN
  Strs,          \* string values, as byte sequences
  Pointers,      \* unsafe.Pointer values
  MaxLen,        \* longest slice a kernel is called on
  None,          \* no kernel: no call in progress
  NoArgs         \* no arguments: no call in progress

ASSUME KernelsAssumption ==
  /\ SignedVals \subseteq -128..127
  /\ UnsignedVals \subseteq 0..255
  /\ FloatVals \subseteq Int
  /\ {0, 1} \subseteq SignedVals \cap UnsignedVals \cap FloatVals
  /\ NaN \notin Int
  /\ Strs \subseteq Seq(0..255)
  /\ MaxLen \in Nat

-----------------------------------------------------------------------------
(* The type catalog: the kind suffixes of the kernel names.                *)
SignedKinds   == {"I", "I8", "I16", "I32", "I64"}
UnsignedKinds == {"U", "U8", "U16", "U32", "U64"}
FloatKinds    == {"F32", "F64"}
ComplexKinds  == {"C64", "C128"}
NumericKinds  == SignedKinds \cup UnsignedKinds \cup FloatKinds
AllKinds ==
  NumericKinds \cup ComplexKinds \cup {"B", "Uintptr", "Str", "UnsafePointer"}

Floats == FloatVals \cup {NaN}

(* The Go values of each kind; a complex is a pair of floats (re, im).     *)
Dom(k) ==
  CASE k \in SignedKinds                  -> SignedVals
    [] k \in UnsignedKinds \cup {"Uintptr"} -> UnsignedVals
    [] k \in FloatKinds                   -> Floats
    [] k \in ComplexKinds                 -> Floats \X Floats
    [] k = "Str"                          -> Strs
    [] k = "B"                            -> BOOLEAN
    [] k = "UnsafePointer"                -> Pointers

Ops         == {"eq", "gt", "gte", "lt", "lte"}
Shapes      == {"DD", "DS"}
ResultKinds == {"Bools", "Same"}

(* The kinds of the eq section: a Bools kernel for every kind, a Same      *)
(* kernel for the numeric and complex kinds.                               *)
EqKinds(rk) ==
  IF rk = "Bools" THEN AllKinds ELSE NumericKinds \cup ComplexKinds

(* The kinds of each ordering section (gt, gte, lt, lte list the same      *)
(* kinds): no bool, complex or unsafe.Pointer kernel, and no Same kernel   *)
(* for uintptr or string.                                                  *)
OrdKinds(rk) ==
  IF rk = "Bools" THEN NumericKinds \cup {"Uintptr", "Str"} ELSE NumericKinds

HasKernel(op, rk, k) == k \in IF op = "eq" THEN EqKinds(rk) ELSE OrdKinds(rk)

-----------------------------------------------------------------------------
(* Go's == and < on floats: false as soon as one operand is NaN.           *)
FloatEq(x, y)   == x # NaN /\ y # NaN /\ x = y
FloatLess(x, y) == x # NaN /\ y # NaN /\ x < y

(* Go's < on strings: bytewise lexicographic order, a proper prefix first. *)
StrLess(s, t) ==
  \E n \in 0..Len(s) :
    /\ n < Len(t)
    /\ \A j \in 1..n : s[j] = t[j]
    /\ n = Len(s) \/ s[n + 1] < t[n + 1]

(* v == b: complex numbers are equal when both parts are.                  *)
EqOp(k, x, y) ==
  CASE k \in FloatKinds   -> FloatEq(x, y)
    [] k \in ComplexKinds -> FloatEq(x[1], y[1]) /\ FloatEq(x[2], y[2])
    [] OTHER              -> x = y

(* Go's < on the ordered kinds.                                            *)
Less(k, x, y) ==
  CASE k \in FloatKinds -> FloatLess(x, y)
    [] k = "Str"        -> StrLess(x, y)
    [] OTHER            -> x < y

GtOp(k, x, y)  == Less(k, y, x)
GteOp(k, x, y) == Less(k, y, x) \/ EqOp(k, x, y)
LtOp(k, x, y)  == Less(k, x, y)
LteOp(k, x, y) == Less(k, x, y) \/ EqOp(k, x, y)

Holds(op, k, x, y) ==
  CASE op = "eq"  -> EqOp(k, x, y)
    [] op = "gt"  -> GtOp(k, x, y)
    [] op = "gte" -> GteOp(k, x, y)
    [] op = "lt"  -> LtOp(k, x, y)
    [] op = "lte" -> LteOp(k, x, y)

-----------------------------------------------------------------------------
(* The 1 and 0 a Same kernel stores; for a complex kind they are 1+0i and  *)
(* 0+0i.                                                                   *)
One(k)  == IF k \in ComplexKinds THEN <<1, 0>> ELSE 1
Zero(k) == IF k \in ComplexKinds THEN <<0, 0>> ELSE 0

(* What the loop body stores for predicate p: p itself in a Bools kernel,  *)
(* 1 or 0 in a Same kernel.                                                *)
Indicator(rk, k, p) == IF rk = "Bools" THEN p ELSE IF p THEN One(k) ELSE Zero(k)

(* The zero value make([]T, n) fills the result with.                      *)
ZeroValue(rk, k) == IF rk = "Bools" THEN FALSE ELSE Zero(k)

(* The predicate of element i (1-based): v OP b[i] in a DD kernel, v OP b *)
(* in a DS kernel, v being a[i].                                           *)
DDElem(op, k, a, b, i) == Holds(op, k, a[i], b[i])
DSElem(op, k, a, b, i) == Holds(op, k, a[i], b)

-----------------------------------------------------------------------------
(* The arguments a kernel is called with.                                 *)
Slices(S) == UNION {[1..n -> S] : n \in 0..MaxLen}

(* The kernels of the file.                                                *)
Variants ==
  {v \in [op: Ops, shape: Shapes, rk: ResultKinds, kind: AllKinds] :
     HasKernel(v.op, v.rk, v.kind)}

(* The values of the parameters a and b of kernel v.                       *)
Args(v) ==
  [a: Slices(Dom(v.kind)),
   b: IF v.shape = "DD" THEN Slices(Dom(v.kind)) ELSE Dom(v.kind)]

(* The element type of the result slice of kernel v.                       *)
ResultDom(v) == IF v.rk = "Bools" THEN BOOLEAN ELSE Dom(v.kind)

Elem(v, x, j) ==
  IF v.shape = "DD" THEN DDElem(v.op, v.kind, x.a, x.b, j)
                    ELSE DSElem(v.op, v.kind, x.a, x.b, j)

(* A DD call whose b is shorter than a indexes b out of range.             *)
Faults(v, x) == v.shape = "DD" /\ Len(x.b) < Len(x.a)

(* The slice a call of kernel v returns when it does not fault.            *)
Kernel(v, x) == [j \in 1..Len(x.a) |-> Indicator(v.rk, v.kind, Elem(v, x, j))]

=============================================================================
