------------------------------ MODULE KernelLoop ------------------------------
(***************************************************************************)
(* One comparison kernel executing its loop, one iteration per step.       *)
(* Every kernel of the file has the same body:                             *)
(*                                                                         *)
(*   retVal = make([]T, len(a))                                            *)
(*   for i, v := range a { retVal[i] = <v OP b[i]> or <v OP b> }            *)
(*   return retVal                                                         *)
(*                                                                         *)
(* where a Same kernel stores 1 or 0 instead of the predicate.  A DD       *)
(* kernel reads b[i] for every i of a and never checks len(b).  After a    *)
(* return or a panic the caller makes its next call.                       *)
(***************************************************************************)
EXTENDS Kernels

VARIABLES
  pc,      \* "idle", "loop", "done" (returned) or "panic" (out of range)
  kernel,  \* the kernel called, None when idle
  args,    \* its parameters a and b, NoArgs when idle
  i,       \* iterations completed: Go's i of the next iteration
  retVal   \* the result slice

vars == <<pc, kernel, args, i, retVal>>

(* Mutant: a result allocated one element too long.                       *)
MakeLonger(v, s) == [j \in 1..Len(s) + 1 |-> ZeroValue(v.rk, v.kind)]

(* retVal = make([]T, len(a)) *)
Make(v, s) == [j \in 1..Len(s) |-> ZeroValue(v.rk, v.kind)]

Init ==
  /\ pc = "idle"
  /\ kernel = None
  /\ args = NoArgs
  /\ i = 0
  /\ retVal = <<>>

(* The caller calls a kernel of the matrix; the kernel allocates retVal.   *)
Invoke ==
  /\ pc = "idle"
  /\ \E v \in Variants :
       /\ kernel' = v
       /\ args' \in Args(v)
       /\ retVal' = Make(v, args'.a)
  /\ pc' = "loop"
  /\ i' = 0

(* The b[i] of the next iteration is out of range.                         *)
OutOfRange == kernel.shape = "DD" /\ i >= Len(args.b)

(* One iteration of the range loop: retVal[i] = v OP b[i] (or v OP b).     *)
Iterate ==
  /\ pc = "loop"
  /\ i < Len(args.a)
  /\ ~ OutOfRange
  /\ retVal' = [retVal EXCEPT ![i + 1] =
                  Indicator(kernel.rk, kernel.kind, Elem(kernel, args, i + 1))]
  /\ i' = i + 1
  /\ UNCHANGED <<pc, kernel, args>>

(* The iteration's b[i] panics with index out of range.                    *)
IndexPanic ==
  /\ pc = "loop"
  /\ i < Len(args.a)
  /\ OutOfRange
  /\ pc' = "panic"
  /\ UNCHANGED <<kernel, args, i, retVal>>

(* Mutant: the loop stops one iteration before the end of a.              *)
ReturnEarly ==
  /\ pc = "loop"
  /\ i >= Len(args.a) - 1
  /\ pc' = "done"
  /\ UNCHANGED <<kernel, args, i, retVal>>

(* Mutant: the loop runs over the shorter of a and b.                      *)
ReturnAtShorter ==
  /\ pc = "loop"
  /\ i = Len(args.a) \/ OutOfRange
  /\ pc' = "done"
  /\ UNCHANGED <<kernel, args, i, retVal>>

(* The range over a is exhausted: return retVal.                           *)
Return ==
  /\ pc = "loop"
  /\ i = Len(args.a)
  /\ pc' = "done"
  /\ UNCHANGED <<kernel, args, i, retVal>>

(* The caller takes the result (or recovers from the panic) and is ready   *)
(* for its next call; the kernel keeps nothing.                            *)
Resume ==
  /\ pc \in {"done", "panic"}
  /\ pc' = "idle"
  /\ kernel' = None
  /\ args' = NoArgs
  /\ i' = 0
  /\ retVal' = <<>>

LoopStep == Iterate \/ IndexPanic \/ Return

Next == Invoke \/ LoopStep \/ Resume

(* The loop runs on the caller's goroutine with nothing to wait for.       *)
Spec == Init /\ [][Next]_vars /\ WF_vars(LoopStep)

-----------------------------------------------------------------------------
TypeOK ==
  /\ pc \in {"idle", "loop", "done", "panic"}
  /\ pc = "idle" =>
       kernel = None /\ args = NoArgs /\ i = 0 /\ retVal = <<>>
  /\ pc # "idle" =>
       /\ kernel \in Variants
       /\ args \in Args(kernel)
       /\ i \in 0..Len(args.a)
       /\ retVal \in [1..Len(args.a) -> ResultDom(kernel)]

-----------------------------------------------------------------------------
(* When a kernel returns, retVal is the whole result its kernel promises:  *)
(* element j compares a[j] with b[j] (DD) or with b (DS) and is stored as  *)
(* a bool or as 1/0.  About the range loop of every kernel: each element   *)
(* written once, at its own index, and the return after the last one.     *)
ResultCorrect ==
  pc = "done" => ~ Faults(kernel, args) /\ retVal = Kernel(kernel, args)

(* A call panics exactly when it is a DD call with b shorter than a, after *)
(* comparing the len(b) elements b has: no kernel compares len(a) with     *)
(* len(b), so this rests on the loop meeting the missing b[i] and on       *)
(* nothing else.                                                           *)
OutcomeByLength ==
  /\ pc = "panic" => Faults(kernel, args) /\ i = Len(args.b)
  /\ pc = "done"  => ~ Faults(kernel, args)

(* The inductive invariant behind ResultCorrect and OutcomeByLength: the   *)
(* first i elements of retVal hold their results, a DD loop never passes   *)
(* len(b), a returned loop has run over all of a, and a panic happened at  *)
(* index len(b) < len(a).                                                  *)
LoopInv ==
  /\ TypeOK
  /\ pc # "idle" =>
       /\ \A j \in 1..i :
            retVal[j] = Indicator(kernel.rk, kernel.kind, Elem(kernel, args, j))
       /\ kernel.shape = "DD" => i <= Len(args.b)
  /\ pc = "done" => i = Len(args.a)
  /\ pc = "panic" => kernel.shape = "DD" /\ i = Len(args.b) /\ i < Len(args.a)

-----------------------------------------------------------------------------
(* The spec says an array-array kernel indexes out of range whenever the   *)
(* two lengths differ; a DD call that returns had equal lengths.           *)
MismatchFaults == pc = "done" /\ kernel.shape = "DD" => Len(args.b) = Len(args.a)

(* The spec says numeric kinds are compared in their native total order:  *)
(* then a >= mask is the complement of the < mask of the same arguments.   *)
NumericTotalOrder ==
  pc = "done" /\ kernel.op = "gte" /\ kernel.rk = "Bools"
    /\ kernel.kind \in NumericKinds =>
    \A j \in 1..Len(retVal) :
      retVal[j] = ~ Kernel([kernel EXCEPT !.op = "lt"], args)[j]

=============================================================================
