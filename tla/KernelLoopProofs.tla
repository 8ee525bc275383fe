--------------------------- MODULE KernelLoopProofs ---------------------------
(***************************************************************************)
(* Proofs about the range loop of the comparison kernels, for every value  *)
(* set, every slice bound MaxLen and every kernel of the matrix: the loop   *)
(* keeps its variables well typed, and a kernel that returns has computed  *)
(* the whole element-wise result while one that panics met a short b.      *)
(***************************************************************************)
EXTENDS KernelLoop, TLAPS

USE KernelsAssumption

-----------------------------------------------------------------------------
(* A slice argument is a sequence no longer than MaxLen.                   *)
LEMMA SliceIsSeq ==
  ASSUME NEW S, NEW x \in Slices(S)
  PROVE  x \in Seq(S) /\ Len(x) \in 0..MaxLen /\ DOMAIN x = 1..Len(x)
<1>1. PICK n \in 0..MaxLen : x \in [1..n -> S]
  BY DEF Slices
<1>2. x \in Seq(S) /\ Len(x) = n
  BY <1>1
<1>. QED
  BY <1>1, <1>2

(* Every comparison a kernel makes, on two values of its kind, yields a   *)
(* bool.                                                                   *)
LEMMA HoldsBoolean ==
  ASSUME NEW v \in Variants, NEW x \in Dom(v.kind), NEW y \in Dom(v.kind)
  PROVE  Holds(v.op, v.kind, x, y) \in BOOLEAN
<1>. DEFINE k == v.kind
<1>1. EqOp(k, x, y) \in BOOLEAN
  BY DEF EqOp, FloatEq
<1>2. CASE v.op = "eq"
  BY <1>1, <1>2 DEF Holds
<1>3. CASE v.op # "eq"
  <2>1. k \in NumericKinds \cup {"Uintptr", "Str"}
    BY <1>3 DEF Variants, HasKernel, OrdKinds
  <2>2. Less(k, x, y) \in BOOLEAN /\ Less(k, y, x) \in BOOLEAN
    <3>1. CASE k \in FloatKinds
      BY <3>1 DEF Less, FloatLess, Dom, Floats, FloatKinds, SignedKinds,
                  UnsignedKinds
    <3>2. CASE k = "Str"
      BY <3>2 DEF Less, StrLess, FloatKinds
    <3>3. CASE k \notin FloatKinds /\ k # "Str"
      <4>1. Dom(k) \subseteq Int
        <5>1. CASE k \in SignedKinds
          <6>1. Dom(k) = SignedVals
            BY <5>1 DEF Dom, SignedKinds, UnsignedKinds, FloatKinds, ComplexKinds
          <6>. QED
            BY <6>1
        <5>2. CASE k \in UnsignedKinds \cup {"Uintptr"}
          <6>1. Dom(k) = UnsignedVals
            BY <5>2 DEF Dom, SignedKinds, UnsignedKinds, FloatKinds, ComplexKinds
          <6>. QED
            BY <6>1
        <5>. QED
          BY <2>1, <3>3, <5>1, <5>2 DEF NumericKinds
      <4>2. Less(k, x, y) = (x < y) /\ Less(k, y, x) = (y < x)
        BY <3>3 DEF Less
      <4>. QED
        BY <4>1, <4>2
    <3>. QED
      BY <3>1, <3>2, <3>3
  <2>. QED
    BY <1>1, <1>3, <2>2, v.op \in Ops DEF Variants, Ops, Holds, GtOp, GteOp,
                                          LtOp, LteOp
<1>. QED
  BY <1>2, <1>3

(* A Same kernel exists only for a kind whose values include 1 and 0.      *)
LEMMA SameKindHasOneZero ==
  ASSUME NEW v \in Variants, v.rk = "Same"
  PROVE  One(v.kind) \in Dom(v.kind) /\ Zero(v.kind) \in Dom(v.kind)
<1>1. v.kind \in NumericKinds \cup ComplexKinds
  BY DEF Variants, HasKernel, EqKinds, OrdKinds
<1>2. CASE v.kind \in ComplexKinds
  BY <1>2 DEF One, Zero, Dom, ComplexKinds, SignedKinds, UnsignedKinds,
              FloatKinds, Floats
<1>3. CASE v.kind \in NumericKinds
  BY <1>3 DEF One, Zero, Dom, ComplexKinds, NumericKinds, SignedKinds,
              UnsignedKinds, FloatKinds, Floats
<1>. QED
  BY <1>1, <1>2, <1>3

(* What the loop stores is a value of the result's element type.          *)
LEMMA IndicatorType ==
  ASSUME NEW v \in Variants, NEW p \in BOOLEAN
  PROVE  Indicator(v.rk, v.kind, p) \in ResultDom(v)
<1>1. v.rk \in {"Bools", "Same"}
  BY DEF Variants, ResultKinds
<1>. QED
  BY <1>1, SameKindHasOneZero DEF Indicator, ResultDom

(* make fills the result with a value of its element type.                *)
LEMMA ZeroValueType ==
  ASSUME NEW v \in Variants
  PROVE  ZeroValue(v.rk, v.kind) \in ResultDom(v)
<1>1. v.rk \in {"Bools", "Same"}
  BY DEF Variants, ResultKinds
<1>. QED
  BY <1>1, SameKindHasOneZero DEF ZeroValue, ResultDom

(* Element j of a call compares two values of the kernel's kind, as long  *)
(* as b has an element j when it is a slice.                               *)
LEMMA ElemBoolean ==
  ASSUME NEW v \in Variants, NEW x \in Args(v), NEW j \in 1..Len(x.a),
         v.shape = "DD" => j \in 1..Len(x.b)
  PROVE  Elem(v, x, j) \in BOOLEAN
<1>1. x.a \in Seq(Dom(v.kind))
  BY SliceIsSeq DEF Args
<1>2. x.a[j] \in Dom(v.kind)
  BY <1>1
<1>3. CASE v.shape = "DD"
  <2>1. x.b \in Seq(Dom(v.kind))
    BY <1>3, SliceIsSeq DEF Args
  <2>2. x.b[j] \in Dom(v.kind)
    BY <1>3, <2>1
  <2>. QED
    BY <1>2, <1>3, <2>2, HoldsBoolean DEF Elem, DDElem
<1>4. CASE v.shape # "DD"
  <2>1. x.b \in Dom(v.kind)
    BY <1>4 DEF Args
  <2>. QED
    BY <1>2, <1>4, <2>1, HoldsBoolean DEF Elem, DSElem
<1>. QED
  BY <1>3, <1>4

-----------------------------------------------------------------------------
(* The loop's variables are always well typed: whatever kernel runs and    *)
(* whatever it is called with, retVal stays a slice of len(a) elements of   *)
(* the result type, and i an index of a or len(a).                         *)
LEMMA TypeStep == TypeOK /\ [Next]_vars => TypeOK'
  <2> SUFFICES ASSUME TypeOK, [Next]_vars PROVE TypeOK'
    OBVIOUS
  <2>1. CASE Invoke
    <3>1. PICK v \in Variants : /\ kernel' = v
                                /\ args' \in Args(v)
                                /\ retVal' = Make(v, args'.a)
      BY <2>1 DEF Invoke
    <3>2. args'.a \in Seq(Dom(v.kind))
      BY <3>1, SliceIsSeq DEF Args
    <3>3. retVal' \in [1..Len(args'.a) -> ResultDom(v)]
      BY <3>1, ZeroValueType DEF Make
    <3>. QED
      BY <2>1, <3>1, <3>2, <3>3 DEF Invoke, TypeOK
  <2>2. CASE Iterate
    <3>1. /\ pc = "loop" /\ kernel \in Variants /\ args \in Args(kernel)
          /\ i \in 0..Len(args.a) /\ i < Len(args.a)
          /\ retVal \in [1..Len(args.a) -> ResultDom(kernel)]
      BY <2>2 DEF Iterate, TypeOK
    <3>2. kernel.shape = "DD" => i + 1 \in 1..Len(args.b)
      <4>1. args.b \in Seq(Dom(kernel.kind)) \/ kernel.shape # "DD"
        BY <3>1, SliceIsSeq DEF Args
      <4>. QED
        BY <2>2, <3>1, <4>1 DEF Iterate, OutOfRange
    <3>3. Elem(kernel, args, i + 1) \in BOOLEAN
      BY <3>1, <3>2, ElemBoolean
    <3>4. Indicator(kernel.rk, kernel.kind, Elem(kernel, args, i + 1))
            \in ResultDom(kernel)
      BY <3>1, <3>3, IndicatorType
    <3>. QED
      BY <2>2, <3>1, <3>4 DEF Iterate, TypeOK
  <2>3. CASE IndexPanic
    BY <2>3 DEF IndexPanic, TypeOK
  <2>4. CASE Return
    BY <2>4 DEF Return, TypeOK
  <2>5. CASE Resume
    BY <2>5 DEF Resume, TypeOK
  <2>6. CASE UNCHANGED vars
    BY <2>6 DEF vars, TypeOK
  <2>. QED
    BY <2>1, <2>2, <2>3, <2>4, <2>5, <2>6 DEF Next, LoopStep

THEOREM TypeCorrect == Spec => []TypeOK
<1>1. Init => TypeOK
  BY DEF Init, TypeOK
<1>. QED
  BY <1>1, TypeStep, PTL DEF Spec

-----------------------------------------------------------------------------
(* LoopInv is inductive.                                                   *)
LEMMA LoopInvStep == LoopInv /\ [Next]_vars => LoopInv'
<1> SUFFICES ASSUME LoopInv, [Next]_vars PROVE LoopInv'
  OBVIOUS
<1>1. TypeOK /\ TypeOK'
  BY TypeStep DEF LoopInv
<1>2. CASE Invoke
  <2>1. /\ Len(args'.a) \in Nat
        /\ kernel'.shape = "DD" => Len(args'.b) \in Nat
    BY <1>1 DEF TypeOK, Args, Invoke
  <2>2. pc' = "loop" /\ i' = 0
    BY <1>2 DEF Invoke
  <2>. QED
    BY <1>1, <2>1, <2>2 DEF LoopInv
<1>3. CASE Iterate
  <2>1. /\ pc = "loop" /\ pc' = "loop" /\ i' = i + 1 /\ i \in 0..Len(args.a)
        /\ i < Len(args.a) /\ UNCHANGED <<kernel, args>>
        /\ retVal \in [1..Len(args.a) -> ResultDom(kernel)]
    BY <1>1, <1>3 DEF Iterate, TypeOK
  <2>2. ASSUME NEW j \in 1..i'
        PROVE  retVal'[j] = Indicator(kernel.rk, kernel.kind, Elem(kernel, args, j))
    <3>1. CASE j = i + 1
      BY <1>3, <2>1, <3>1 DEF Iterate
    <3>2. CASE j # i + 1
      BY <1>3, <2>1, <3>2 DEF Iterate, LoopInv
    <3>. QED
      BY <3>1, <3>2
  <2>3. kernel.shape = "DD" => i + 1 <= Len(args.b)
    BY <1>3, <2>1 DEF Iterate, OutOfRange
  <2>. QED
    BY <1>1, <2>1, <2>2, <2>3 DEF LoopInv
<1>4. CASE IndexPanic
  <2>1. kernel.shape = "DD" /\ i >= Len(args.b) /\ i <= Len(args.b)
        /\ i < Len(args.a)
    BY <1>4 DEF IndexPanic, OutOfRange, LoopInv
  <2>. QED
    BY <1>1, <1>4, <2>1 DEF IndexPanic, LoopInv, TypeOK
<1>5. CASE Return
  <2>1. /\ pc = "loop" /\ pc' = "done" /\ i = Len(args.a)
        /\ kernel' = kernel /\ args' = args /\ i' = i /\ retVal' = retVal
    BY <1>5 DEF Return
  <2>. QED
    BY <1>1, <2>1 DEF LoopInv
<1>6. CASE Resume
  <2>1. pc' = "idle"
    BY <1>6 DEF Resume
  <2>. QED
    BY <1>1, <2>1 DEF LoopInv
<1>7. CASE UNCHANGED vars
  <2>1. pc' = pc /\ kernel' = kernel /\ args' = args /\ i' = i /\ retVal' = retVal
    BY <1>7 DEF vars
  <2>. QED
    BY <1>1, <2>1 DEF LoopInv
<1>. QED
  BY <1>2, <1>3, <1>4, <1>5, <1>6, <1>7 DEF Next, LoopStep

(* LoopInv gives both properties of a finished call.                      *)
LEMMA LoopInvFinished == LoopInv => ResultCorrect /\ OutcomeByLength
<1> SUFFICES ASSUME LoopInv PROVE ResultCorrect /\ OutcomeByLength
  OBVIOUS
<1>1. ASSUME pc = "done" PROVE ~ Faults(kernel, args) /\ retVal = Kernel(kernel, args)
  <2>1. /\ i = Len(args.a)
        /\ retVal \in [1..Len(args.a) -> ResultDom(kernel)]
        /\ kernel.shape = "DD" => Len(args.a) <= Len(args.b)
    BY <1>1 DEF LoopInv, TypeOK
  <2>2. ~ Faults(kernel, args)
    BY <2>1 DEF Faults
  <2>3. \A j \in 1..Len(args.a) :
          retVal[j] = Indicator(kernel.rk, kernel.kind, Elem(kernel, args, j))
    BY <1>1, <2>1 DEF LoopInv
  <2>. QED
    BY <2>1, <2>2, <2>3 DEF Kernel
<1>2. pc = "panic" => Faults(kernel, args) /\ i = Len(args.b)
  BY DEF LoopInv, Faults
<1>. QED
  BY <1>1, <1>2 DEF ResultCorrect, OutcomeByLength

(* A kernel that returns has compared every element of a with its partner *)
(* and stored the result at its own index: the range loop of every kernel  *)
(* of the matrix computes its whole result, for every MaxLen.              *)
THEOREM ResultCorrectness == Spec => []ResultCorrect
<1>1. Init => LoopInv
  BY DEF Init, LoopInv, TypeOK
<1>2. LoopInv => ResultCorrect
  BY LoopInvFinished
<1>. QED
  BY <1>1, <1>2, LoopInvStep, PTL DEF Spec

(* A DD kernel panics exactly when b is shorter than a, and only after     *)
(* comparing all of b: no kernel compares the lengths, so this rests on    *)
(* the b[i] of the loop alone.                                             *)
THEOREM PanicOnShortB == Spec => []OutcomeByLength
<1>1. Init => LoopInv
  BY DEF Init, LoopInv, TypeOK
<1>2. LoopInv => OutcomeByLength
  BY LoopInvFinished
<1>. QED
  BY <1>1, <1>2, LoopInvStep, PTL DEF Spec

=============================================================================
