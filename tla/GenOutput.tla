------------------------------- MODULE GenOutput -------------------------------
(***************************************************************************)
(* What one run of the generator promises of api_gen.go (design, sections  *)
(* 3 and 6): the emitted file is the only persisted artifact; a run        *)
(* truncates it once and rewrites it, block after block, in catalog order, *)
(* never patching what it wrote; it either exits 0 with the file fully     *)
(* rewritten or aborts with a nonzero status, leaving the old file or a    *)
(* prefix of the new one.  Writes whose errors are dropped may leave a     *)
(* block only partly written; the blocks after it are still written.       *)
(***************************************************************************)
EXTENDS Integers, Sequences

CONSTANTS
  BlockSet,     \* the text blocks a run can write
  Stale,        \* the content left by an earlier run
  Whole(_),     \* the block a partly written block was meant to be
  Partial(_),   \* what a failing write leaves of a block
  WriteFaults   \* whether a write may fail part of the way

VARIABLES
  out,     \* the content of the output file
  status,  \* -1 while the run goes on, then its exit status
  target   \* the complete output for the run's inputs

vars == <<out, status, target>>

(* The file, with each partly written block read as the block it was to *)
(* be.                                                                     *)
Intended(f) == [j \in 1..Len(f) |-> Whole(f[j])]
IsPrefix(s, t) == Len(s) <= Len(t) /\ s = SubSeq(t, 1, Len(s))

Init ==
  /\ out = <<Stale>>
  /\ status = -1
  /\ target \in Seq(BlockSet)

(* The file is truncated, once, before anything is written to it.          *)
Truncate ==
  /\ status = -1
  /\ out = <<Stale>>
  /\ out' = <<>>
  /\ UNCHANGED <<status, target>>

(* The next block of the complete output is appended, whole or, when a    *)
(* write may fail, in part.                                                *)
Emit ==
  /\ status = -1
  /\ out # <<Stale>>
  /\ \E c \in BlockSet :
       /\ out' \in {Append(out, c)} \cup
                   (IF WriteFaults THEN {Append(out, Partial(c))} ELSE {})
       /\ IsPrefix(Intended(out'), target)
  /\ UNCHANGED <<status, target>>

(* The run aborts: nonzero status, the file as it is.                       *)
Abort ==
  /\ status = -1
  /\ status' = 1
  /\ UNCHANGED <<out, target>>

(* The run succeeds once every block of the complete output is written.   *)
Succeed ==
  /\ status = -1
  /\ Intended(out) = target
  /\ status' = 0
  /\ UNCHANGED <<out, target>>

Next == Truncate \/ Emit \/ Abort \/ Succeed

Spec == Init /\ [][Next]_vars

=============================================================================
