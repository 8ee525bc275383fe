# Formal models of the comparison kernels and the API generator

This directory holds TLA+ models of the two source files of the repository,
TLC configurations that model-check them, and TLAPS proofs about the kernels
and the generator.

## The system

The repository contains two files.

- `src/unnamed/part_000` is a generated Go file (package `tensor`). It holds
  272 comparison kernels, named `<op><shape><result><kind>`:
  - op is one of `eq gt gte lt lte`;
  - shape is `DD` (slice against slice) or `DS` (slice against scalar);
  - result is `Bools` (a `[]bool` mask) or `Same` (a slice of the element
    type holding 1 or 0).

  Every body is the same loop:
  `retVal = make([]T, len(a)); for i, v := range a { retVal[i] = v OP b[i] }`.
  The `DS` kernels use `b` instead of `b[i]`, and the `Same` kernels store
  `1`/`0`. Which kernels exist depends on the kind (the type catalog):
  - `eq` has a `Bools` kernel for all 18 kinds;
  - the ordering operators have none for bool, complex or `unsafe.Pointer`;
  - `Same` kernels exist only for numeric kinds, plus complex under `eq`.
- `src/cmd/genapi/main.go` is the API generator. `init` finds the gorgonia
  directory. `main` opens `api_gen.go` with `O_TRUNC` and writes a banner.
  Then `generateUnary` and `generateBinary` each do the following:
  - parse an operator source file;
  - collect the operator identifiers with `constTypes`;
  - turn each identifier into a public name (strip `OpType`, Title-case,
    legacy overrides `Ln→Log`, `Mul→HadamardProd`, `Div→HadamardDiv`);
  - execute a template once per operator into the open file.

  Every error before the writes is a `log.Fatal`. Errors of the writes
  themselves (`Fprintf`, `Template.Execute`) are ignored.

The two parts do not call each other. The generator emits the graph-level API
(`api_gen.go`), and the kernels are the element-wise code those operators
eventually run. Both are described by `spec.md`, the design.

## Modules

| Module | Models | State and actions |
|---|---|---|
| `Kernels` | type catalog, kernel matrix, Go comparison semantics | Pure operators. `Dom(k)` gives a kind's values: integer kinds from small sets, floats plus `NaN`, complex as pairs, strings as byte sequences, pointers as model values. `HasKernel`/`Variants` give the matrix. `EqOp`, `Less`, `GtOp`..`LteOp` give Go's operators: NaN makes every comparison false, complex `==` is componentwise, strings compare lexicographically by byte. `Indicator` gives what a `Bools`/`Same` body stores, and `Kernel(v, x)` what a call returns. |
| `KernelLoop` | the loop of a kernel, iteration by iteration | `pc`, `kernel`, `args`, `i` and `retVal`. The actions are `Invoke` (entry and `make`), `Iterate` (one `retVal[i] = ...`), `IndexPanic` (`b[i]` out of range), `Return` and `Resume`. |
| `GenCatalog` | `constTypes` and the naming rules | Pure operators over declaration lists. An identifier is abstracted to the word it spells, the case of its first letter and the `OpType` suffix. |
| `Genapi` | one run of the generator | `pc` (the point of `init`/`main`), `exitCode`, `file` (the content of `api_gen.go`), the two operator files, `names` and `k` (the range loop). The actions are `Setup`, `Open`, `WriteHeader`, `Parse`, `Render` and `EndRange`. Each `log.Fatal` is a disjunct. With `WriteFaults`, a write may leave only part of its block. |
| `GenOutput` | what one run of the generator promises (design, sections 3 and 6) | `out`, `status` and `target` (the complete output). `Truncate` (once), `Emit` (append the next block of `target`, or part of it when writes may fail), `Abort` (status 1, file as it is) and `Succeed` (status 0, only when every block is written). `Genapi` instantiates it as `GO` with `out <- file`, `status <- exitCode`, `target <- Expected`. |
| `MCKernelLoop`, `MCGenapi` | TLC instances | The value sets and operator files below. |
| `KernelLoopProofs`, `GenapiProofs` | TLAPS proofs | See "Proofs". |

`PROJECT.json` maps every definition that models code to the source lines it
translates.

## Runs

| Run | Expect | Checks |
|---|---|---|
| `kernel_loop` | pass | `TypeOK`; `ResultCorrect` (a return means no fault and the element-wise result); `OutcomeByLength` (a panic happens exactly for `DD` with `len(b) < len(a)`, at index `len(b)`). |
| `kernel_mismatch` | violation | `MismatchFaults`: the design says unequal lengths fault, but a longer `b` returns normally. |
| `kernel_nan` | violation | `NumericTotalOrder`: the design says numeric kinds use a total order, but on NaN `>=` is not the complement of `<`. |
| `genapi_faults` | pass | With fatal errors everywhere the code has them and failing writes: `OutputPrefix` and `GenOutputSpec`. `OutputPrefix` says the file is the old one or a prefix of the full output, counting partial blocks. `GenOutputSpec` says the run implements `GenOutput`: the file is truncated once, then only appended to, block by block in order, and status 0 comes only with every block written. |
| `genapi_complete` | pass | `CompleteOnSuccess` when writes do not fail: exit 0 means the whole file was written. |
| `genapi_writefault` | violation | `CompleteOnSuccess` with failing writes: exit 0 with blocks missing. |
| `genapi_firstgroup` | violation | `FirstGroupOnly`: the design says the first matching const group is used, but `constTypes` takes all of them. |
| `genapi_unique` | violation | `UniqueApiNames`: two identifiers (`Div`/`divOpType`, `Abs`/`absOpType`) get the same function name. |
| `genapi_members` | violation | `MembersCollected`: the design (section 4.1) says every member of the operator-type group is collected, but `constTypes` reads only `Names[0]` of a spec, so `Sqrt, Abs UnaryT` loses `Abs`. |

The six violations are recorded as findings in `PROJECT.json`. Each passing
property has a mutant there: a plausible bug in a mapped definition that TLC
must catch. Examples are a loop bound off by one, an `O_TRUNC` dropped and
the end of a range loop taken one iteration early.

Some properties are deliberately not stated. A mask/indicator consistency of
`Same` against `Bools`, a scalar-broadcast equivalence of `DS` against `DD`,
and a one-step abstraction of a kernel call all follow from `ResultCorrect`
through the model's own definitions. They add nothing that a change to the
loop could break without also breaking `ResultCorrect`. A type invariant of
the generator only restates the domains of its variables.

### Bounds

`MCKernelLoop` uses the following bounds.
- Signed values are {-1, 0, 1}, unsigned {0, 1}, floats {0, 1, NaN}.
- Strings are `"" "\x00" "\x01" "\x00\x01"` and there are two pointers.
- Slices have length 0..2.

These are enough for every case the properties distinguish: less, equal and
greater; NaN on either side; a proper string prefix; a complex number equal in
one part only; `b` shorter, equal or longer than `a`. Every kernel of the
matrix (Variants, 272 of them) is called on every such argument: about 207
000 states, in 35 s. Integer widths are not modelled: a comparison of two
in-range values does not depend on the width.

`MCGenapi` gives the generator four unary and two binary operator files,
plus a malformed one for each. They cover:
- the usual `iota` group, in which only the first spec is typed;
- a sentinel in the middle of a group;
- a const group of another type, an import, a func and a var;
- a second group of the operator type;
- a spec that declares two names (`Sqrt, Abs UnaryT`);
- no group at all;
- the name collisions.

### Fairness

`Spec` of both process modules is weakly fair on its steps. Both are
single-goroutine code with nothing to wait for: a kernel call is a plain loop,
and the generator is a straight-line program. No liveness property is checked,
and the fairness is used by no run or proof. That a kernel call or a generator
run ends holds by the shape of the code: `i` grows to `len(a)`, each range is
over a finite list, and nothing waits. A property saying so would hold of any
loop over a finite list, and no plausible change to this code could break it,
so it was dropped.

## Proofs (`KernelLoopProofs`)

The proofs assume only `KernelsAssumption`:
- the value sets are integers in the ranges of `int8`/`uint8`;
- 0 and 1 are among them;
- `NaN` is not a number;
- strings are byte sequences;
- `MaxLen` is a natural.

They hold for every such choice, so for slices of any length.

- `TypeCorrect`: `Spec => []TypeOK`, through `TypeStep`. It rests on these
  lemmas:
  - `SliceIsSeq`;
  - `HoldsBoolean`, which needs the operands to be values of the kind, since
    `<` is only Boolean on numbers;
  - `SameKindHasOneZero` (a `Same` kernel exists only where 1 and 0 are
    values);
  - `IndicatorType`, `ZeroValueType` and `ElemBoolean`.
- `ResultCorrectness` (`[]ResultCorrect`) and `PanicOnShortB`
  (`[]OutcomeByLength`). Neither invariant is inductive by itself. The
  strengthening is `LoopInv`, which says:
  - the first `i` elements already hold their results;
  - a `DD` loop never has `i > len(b)`;
  - a returned loop has `i = len(a)`;
  - a panic happened at `i = len(b) < len(a)`.

  `LoopInv` was checked with TLC on the `kernel_loop` instance before it was
  proved inductive (`LoopInvStep`). `LoopInvFinished` derives both properties
  from it.

## Proofs (`GenapiProofs`)

The proofs assume `GenapiAssumption`:
- the operator files are declaration lists or `Malformed`;
- the two sentinels are identifiers;
- `WriteFaults` is a Boolean;
- `constTypes` of a file that parses is a list of identifiers.

The last clause is what Go's `[]string` return type says. It is an
assumption because `ConstTypes` is a recursive function over the
declarations, and TLAPS cannot prove what such a function returns. TLC
evaluates the clause on every run of `MCGenapi`. `GenCatalog` uses only
`Sequences`, so that no `RECURSIVE` operator is reachable from the proofs.

- `OutputPrefixHolds`: `Spec => []OutputPrefix`, whatever fails and whether
  or not writes fail.
- `CompleteOnSuccessHolds`: under `~WriteFaults`, `Spec => []CompleteOnSuccess`.
- `GenRefinement`: `Spec => GenOutputSpec` (that is, `GO!Spec`), the generator implements `GenOutput`.
  `GenStepRefines` maps each action:
  - `Setup`, a successful `Parse` and the unary `EndRange` are stutters;
  - every `log.Fatal` is an `Abort`;
  - a successful `Open` is `Truncate`;
  - `WriteHeader` and each `Render` are an `Emit` (`EmitStep`);
  - the binary `EndRange` is `Succeed`.

  The `Emit` cases read the new file's intended form from `GenInv'` and
  show it is still a prefix of the output (`ExpectedShape`,
  `PrefixConcat`). `OpenedNotStale` says that once the file has been
  opened it is never the old content again.

All three rest on one inductive invariant, `GenInv`. `OutputPrefix` is not
inductive by itself: a prefix of the output says nothing of which block the
next `Execute` writes. `GenInv` pins, for each point of `main`, what the file
holds once a partly written block is counted as the block it was to be
(`Intended`):
- the old file before the open, nothing after it, the banner after the
  header;
- in the range over the unary names, the banner and the first `k-1` unary
  blocks, with `names` the unary file's `constTypes`;
- in the range over the binary names, the banner, all unary blocks and the
  first `k-1` binary blocks;
- after exit 0, the complete output;
- without write faults, the file equals its intended form.

The prefix lemmas are stated about the current state, because a lemma
about state variables cannot be applied to primed ones. The steps that need
primed facts take them from `GenInv'` directly. `GenInv` was checked with TLC on the `genapi_faults` and `genapi_complete`
instances before it was proved inductive (`GenInvStep`, one case per action).
`RenderEffect` is one iteration of a range loop. `GenInvPrefix` derives
`OutputPrefix` from `GenInv`, point by point of `main`. The SMT backend
cannot handle record `EXCEPT`, so `Whole` and `Partial` are treated as
opaque there, and their facts (`WholeOfBlock`) are proved with Zenon.

## Model-checked only

- Liveness and `ENABLED` are outside TLAPS's reach; the project states no
  liveness property (see Fairness).
- What `ConstTypes` computes: `FirstGroupOnly`, `MembersCollected` and
  `UniqueApiNames`, the violations above. Facts about a recursive function
  for every input need induction over data, which the installed provers
  cannot do.

## Not modelled

- The rendered text of the templates and the Go code in `api_gen.go`. Only
  the template data (function name, opcode, `retSame` flag) is modelled, and
  whether a block was written whole.
- `go/parser`, beyond "a declaration list or an error".
- Identifiers of more than one word: `strings.Title` would capitalise each
  word.
- A caller writing the input slices from another goroutine during a kernel
  call. That is a data race on the caller's side; the kernels share no state.
- Groups whose first spec is untyped. `Accepted` models them: such a group
  is skipped. The design gives no reading of this case, so no property is
  about it. Specs that declare two names are checked by `genapi_members`.
