----------------------------- MODULE GenapiProofs -----------------------------
(***************************************************************************)
(* Proofs about one run of the generator: the output file is always the    *)
(* old file or a prefix of what a complete run writes, and a run that      *)
(* exits 0 without a failed write has written all of it, for every pair   *)
(* of operator files and every number of operators.  The argument is the   *)
(* inductive invariant GenInv of Genapi.                                  *)
(***************************************************************************)
EXTENDS Genapi, TLAPS

USE GenapiAssumption

-----------------------------------------------------------------------------
(* The banner and the stale content are blocks of the output.             *)
LEMMA BannerType == Banner \in BlockType /\ Stale \in BlockType
<1>1. NoOp \in Ident
  BY DEF NoOp, Ident
<1>. QED
  BY <1>1 DEF Banner, Stale, BlockType

(* The block a template execution writes for an operator identifier.     *)
LEMMA BlockTyped ==
  ASSUME NEW fam \in {"unary", "binary"}, NEW v \in Ident
  PROVE  Block(fam, v) \in BlockType /\ Block(fam, v).whole = TRUE
<1>1. ApiName(fam, v) \in Words \cup {"Log", "HadamardProd", "HadamardDiv"}
  BY DEF ApiName, Ident
<1>2. AsSame(fam, v) \in BOOLEAN
  BY DEF AsSame
<1>. QED
  BY <1>1, <1>2 DEF Block, BlockType

(* The blocks of a list of identifiers: one per identifier, in order.     *)
LEMMA BlocksTyped ==
  ASSUME NEW fam \in {"unary", "binary"}, NEW ns \in Seq(Ident)
  PROVE  /\ Blocks(fam, ns) \in Seq(BlockType)
         /\ Len(Blocks(fam, ns)) = Len(ns)
         /\ \A j \in 1..Len(ns) : Blocks(fam, ns)[j] = Block(fam, ns[j])
<1>1. \A j \in 1..Len(ns) : Block(fam, ns[j]) \in BlockType
  <2> SUFFICES ASSUME NEW j \in 1..Len(ns) PROVE Block(fam, ns[j]) \in BlockType
    OBVIOUS
  <2>1. ns[j] \in Ident
    OBVIOUS
  <2>. QED
    BY <2>1, BlockTyped
<1>. QED
  BY <1>1 DEF Blocks

(* The operator lists of the two files, when they parse.                  *)
LEMMA ScanTyped ==
  /\ srcU \in UnarySources \ {Malformed} =>
       ConstTypes(srcU, UnaryType, UnaryMax) \in Seq(Ident)
  /\ srcB \in BinarySources \ {Malformed} =>
       ConstTypes(srcB, BinaryType, BinaryMax) \in Seq(Ident)
OBVIOUS

(* A whole block is its own intended form, and so is what a failed write  *)
(* leaves of it.                                                           *)
LEMMA WholeOfBlock ==
  ASSUME NEW b \in BlockType, b.whole = TRUE
  PROVE  /\ Whole(b) = b
         /\ Whole(Partial(b)) = b
         /\ Partial(b) \in BlockType
BY Zenon DEF Whole, Partial, BlockType

(* Intended, on a list with one more block.                               *)
LEMMA IntendedAppend ==
  ASSUME NEW f \in Seq(BlockType), NEW c \in BlockType
  PROVE  Intended(Append(f, c)) = Append(Intended(f), Whole(c))
BY DEF Intended

(* An unchecked write of a whole block b: the file stays a list of blocks, *)
(* and, counting a partial block as whole, b is appended; without write    *)
(* faults b is appended as it is.                                          *)
LEMMA WriteEffect ==
  ASSUME NEW f \in Seq(BlockType), NEW b \in BlockType, b.whole = TRUE, NEW g,
         g \in {Append(f, b)} \cup
               (IF WriteFaults THEN {Append(f, Partial(b))} ELSE {})
  PROVE  /\ g \in Seq(BlockType)
         /\ Intended(g) = Append(Intended(f), b)
         /\ ~ WriteFaults => g = Append(f, b)
<1>1. /\ Whole(b) = b /\ Whole(Partial(b)) = b /\ Partial(b) \in BlockType
  BY WholeOfBlock
<1>2. CASE g = Append(f, b)
  BY <1>1, <1>2, IntendedAppend
<1>3. CASE g = Append(f, Partial(b))
  <2>1. Intended(g) = Append(Intended(f), Whole(Partial(b)))
    BY <1>1, <1>3, IntendedAppend
  <2>. QED
    BY <1>1, <1>3, <2>1, WriteFaults \in BOOLEAN
<1>. QED
  BY <1>2, <1>3

(* Rendering block n of a list after the first n-1.                       *)
LEMMA SubSeqStep ==
  ASSUME NEW S, NEW s \in Seq(S), NEW u \in Seq(S), NEW n \in 1..Len(s)
  PROVE  Append(u \o SubSeq(s, 1, n - 1), s[n]) = u \o SubSeq(s, 1, n)
OBVIOUS

(* A list is a prefix of itself.                                           *)
LEMMA PrefixRefl ==
  ASSUME NEW S, NEW s \in Seq(S)
  PROVE  IsPrefix(s, s)
BY DEF IsPrefix

-----------------------------------------------------------------------------
(* What the two operator files give, once they parse: the block lists of  *)
(* the complete output.                                                    *)
LEMMA FamilyBlocks ==
  ASSUME srcU \in UnarySources, srcB \in BinarySources
  PROVE  /\ srcU # Malformed =>
              /\ UnaryBlocks \in Seq(BlockType)
              /\ UnaryBlocks = Blocks("unary", ConstTypes(srcU, UnaryType, UnaryMax))
              /\ Len(UnaryBlocks) = Len(ConstTypes(srcU, UnaryType, UnaryMax))
         /\ srcB # Malformed =>
              /\ BinaryBlocks \in Seq(BlockType)
              /\ BinaryBlocks = Blocks("binary", ConstTypes(srcB, BinaryType, BinaryMax))
              /\ Len(BinaryBlocks) = Len(ConstTypes(srcB, BinaryType, BinaryMax))
<1>1. srcU # Malformed => ConstTypes(srcU, UnaryType, UnaryMax) \in Seq(Ident)
  BY ScanTyped
<1>2. srcB # Malformed => ConstTypes(srcB, BinaryType, BinaryMax) \in Seq(Ident)
  BY ScanTyped
<1>. QED
  BY <1>1, <1>2, BlocksTyped DEF UnaryBlocks, BinaryBlocks

(* The complete output, by which files parse.                              *)
LEMMA ExpectedCases ==
  ASSUME srcU \in UnarySources, srcB \in BinarySources
  PROVE  /\ srcU = Malformed => Expected = <<Banner>>
         /\ srcU # Malformed /\ srcB = Malformed => Expected = <<Banner>> \o UnaryBlocks
         /\ srcU # Malformed /\ srcB # Malformed =>
              Expected = <<Banner>> \o UnaryBlocks \o BinaryBlocks
<1>1. <<Banner>> \in Seq(BlockType)
  BY BannerType
<1>2. CASE srcU = Malformed
  BY <1>1, <1>2 DEF Expected
<1>3. CASE srcU # Malformed /\ srcB = Malformed
  BY <1>1, <1>3, FamilyBlocks DEF Expected
<1>4. CASE srcU # Malformed /\ srcB # Malformed
  BY <1>1, <1>4, FamilyBlocks DEF Expected
<1>. QED
  BY <1>2, <1>3, <1>4

(* None of the generator's steps changes the operator files, hence the     *)
(* complete output they determine.                                         *)
LEMMA SourcesFixed ==
  ASSUME [Next]_vars
  PROVE  /\ srcU' = srcU /\ srcB' = srcB
         /\ UnaryBlocks' = UnaryBlocks /\ BinaryBlocks' = BinaryBlocks
         /\ Expected' = Expected
<1>1. srcU' = srcU /\ srcB' = srcB
  BY DEF Next, Setup, Open, WriteHeader, Parse, Render, EndRange, vars
<1>. QED
  BY <1>1 DEF UnaryBlocks, BinaryBlocks, Expected

(* One iteration of a range loop: block k of the family is written after  *)
(* the first k-1, whatever the write does.                                 *)
LEMMA RenderEffect ==
  ASSUME NEW fam \in {"unary", "binary"}, NEW u \in Seq(BlockType),
         file \in Seq(BlockType), names \in Seq(Ident), k \in 1..Len(names),
         Intended(file) = u \o SubSeq(Blocks(fam, names), 1, k - 1),
         ~ WriteFaults => Intended(file) = file,
         Write(Block(fam, names[k]))
  PROVE  /\ file' \in Seq(BlockType)
         /\ Intended(file') = u \o SubSeq(Blocks(fam, names), 1, k)
         /\ ~ WriteFaults => Intended(file') = file'
<1>1. /\ Block(fam, names[k]) \in BlockType /\ Block(fam, names[k]).whole = TRUE
  <2>1. names[k] \in Ident
    OBVIOUS
  <2>. QED
    BY <2>1, BlockTyped
<1>2. /\ file' \in Seq(BlockType)
      /\ Intended(file') = Append(Intended(file), Block(fam, names[k]))
      /\ ~ WriteFaults => file' = Append(file, Block(fam, names[k]))
  <2>1. file' \in {Append(file, Block(fam, names[k]))} \cup
                  (IF WriteFaults THEN {Append(file, Partial(Block(fam, names[k])))}
                                  ELSE {})
    BY DEF Write
  <2>. QED
    BY <1>1, <2>1, WriteEffect
<1>3. /\ Blocks(fam, names) \in Seq(BlockType)
      /\ Len(Blocks(fam, names)) = Len(names)
      /\ Blocks(fam, names)[k] = Block(fam, names[k])
  BY BlocksTyped
<1>4. Append(u \o SubSeq(Blocks(fam, names), 1, k - 1), Blocks(fam, names)[k])
        = u \o SubSeq(Blocks(fam, names), 1, k)
  BY <1>3, SubSeqStep
<1>. QED
  BY <1>2, <1>3, <1>4

-----------------------------------------------------------------------------
(* GenInv is inductive: each step of main keeps the file equal, counting   *)
(* partial blocks as whole, to what a complete run has written by then.    *)
LEMMA GenInvStep == GenInv /\ [Next]_vars => GenInv'
<1> SUFFICES ASSUME GenInv, [Next]_vars PROVE GenInv'
  OBVIOUS
<1>1. /\ file \in Seq(BlockType) /\ names \in Seq(Ident)
      /\ srcU \in UnarySources /\ srcB \in BinarySources
      /\ k \in 0..Len(names) + 1
      /\ ~ WriteFaults => Intended(file) = file
  BY DEF GenInv, TypeOK
<1>2. /\ srcU' = srcU /\ srcB' = srcB
      /\ UnaryBlocks' = UnaryBlocks /\ BinaryBlocks' = BinaryBlocks
      /\ Expected' = Expected
  BY SourcesFixed
<1>3. /\ <<Banner>> \in Seq(BlockType) /\ Banner \in BlockType
      /\ Banner.whole = TRUE /\ <<Stale>> \in Seq(BlockType)
  <2>1. Banner \in BlockType /\ Stale \in BlockType
    BY BannerType
  <2>2. Banner.whole = TRUE
    BY Zenon DEF Banner
  <2>. QED
    BY <2>1, <2>2
<1>4. CASE Setup
  <2>1. /\ pc = "init" /\ file = <<Stale>>
        /\ file' = file /\ names' = names /\ k' = k
        /\ \/ pc' = "open" /\ exitCode' = exitCode
           \/ pc' = "exit" /\ exitCode' = 1
    BY <1>4 DEF Setup, Fatal, GenInv
  <2>. QED
    BY <1>1, <1>2, <1>3, <2>1 DEF GenInv, TypeOK, OutputPrefix
<1>5. CASE Open
  <2>1. /\ pc = "open" /\ exitCode = -1 /\ file = <<Stale>>
        /\ names' = names /\ k' = k
    BY <1>5 DEF Open, GenInv, TypeOK
  <2>2. CASE pc' = "header" /\ exitCode' = exitCode /\ file' = <<>>
    <3>1. <<>> \in Seq(BlockType) /\ Intended(<<>>) = <<>>
      BY DEF Intended
    <3>2. TypeOK'
      BY <1>1, <1>2, <2>1, <2>2, <3>1 DEF TypeOK
    <3>. QED
      BY <2>1, <2>2, <3>1, <3>2 DEF GenInv
  <2>3. CASE pc' = "exit" /\ exitCode' = 1 /\ file' = file
    <3>1. TypeOK'
      BY <1>1, <1>2, <2>1, <2>3 DEF TypeOK
    <3>. QED
      BY <1>1, <2>1, <2>3, <3>1 DEF GenInv, OutputPrefix
  <2>. QED
    BY <1>5, <2>2, <2>3 DEF Open, Fatal
<1>6. CASE WriteHeader
  <2>1. /\ pc = "header" /\ pc' = "parseU" /\ file = <<>>
        /\ exitCode' = exitCode /\ names' = names /\ k' = k
        /\ file' \in {Append(file, Banner)} \cup
                     (IF WriteFaults THEN {Append(file, Partial(Banner))} ELSE {})
    BY <1>6 DEF WriteHeader, Write, GenInv
  <2>2. /\ file' \in Seq(BlockType)
        /\ Intended(file') = Append(Intended(file), Banner)
        /\ ~ WriteFaults => file' = Append(file, Banner)
    BY <1>1, <1>3, <2>1, WriteEffect
  <2>3. Intended(file) = <<>>
    BY <2>1 DEF Intended
  <2>4. Append(<<>>, Banner) = <<Banner>>
    OBVIOUS
  <2>6. Intended(file') = <<Banner>>
    BY <2>1, <2>2, <2>3, <2>4
  <2>7. ~ WriteFaults => file' = <<Banner>>
    BY <2>1, <2>2, <2>4
  <2>5. TypeOK'
    BY <1>1, <1>2, <2>1, <2>2 DEF GenInv, TypeOK
  <2>8. exitCode' = -1
    BY <2>1 DEF GenInv, TypeOK
  <2>. QED
    BY <2>1, <2>5, <2>6, <2>7, <2>8 DEF GenInv
<1>7. CASE Parse("parseU", srcU, UnaryType, UnaryMax, "unary")
  <2>1. /\ pc = "parseU" /\ file' = file /\ Intended(file) = <<Banner>>
        /\ \/ srcU = Malformed /\ pc' = "exit" /\ exitCode' = 1
              /\ names' = names /\ k' = k
           \/ srcU # Malformed /\ pc' = "unary" /\ exitCode' = exitCode
              /\ names' = ConstTypes(srcU, UnaryType, UnaryMax) /\ k' = 1
    BY <1>7 DEF Parse, Fatal, GenInv
  <2>2. CASE srcU = Malformed
    <3>1. Expected = <<Banner>>
      BY <1>1, <2>2, ExpectedCases
    <3>2. OutputPrefix'
      BY <1>2, <1>3, <2>1, <3>1, PrefixRefl DEF OutputPrefix
    <3>. QED
      BY <1>1, <1>2, <2>1, <2>2, <3>2 DEF GenInv, TypeOK
  <2>3. CASE srcU # Malformed
    <3>1. /\ names' \in Seq(Ident)
          /\ UnaryBlocks \in Seq(BlockType)
      BY <1>1, <2>1, <2>3, ScanTyped, FamilyBlocks
    <3>2. Intended(file') = <<Banner>> \o SubSeq(UnaryBlocks, 1, k' - 1)
      BY <2>1, <2>3, <3>1
    <3>. QED
      BY <1>1, <1>2, <2>1, <2>3, <3>1, <3>2 DEF GenInv, TypeOK
  <2>. QED
    BY <2>2, <2>3
<1>8. CASE Render("unary")
  <2>1. /\ pc = "unary" /\ pc' = "unary" /\ k <= Len(names) /\ k' = k + 1
        /\ exitCode' = exitCode /\ exitCode = -1 /\ names' = names
        /\ srcU # Malformed /\ names = ConstTypes(srcU, UnaryType, UnaryMax) /\ k >= 1
        /\ Intended(file) = <<Banner>> \o SubSeq(UnaryBlocks, 1, k - 1)
        /\ file' \in {Append(file, Block("unary", names[k]))} \cup
             (IF WriteFaults THEN {Append(file, Partial(Block("unary", names[k])))}
                             ELSE {})
    BY <1>8 DEF Render, Write, GenInv, TypeOK
  <2>2. UnaryBlocks = Blocks("unary", names)
    BY <1>1, <2>1, FamilyBlocks
  <2>3. /\ file' \in Seq(BlockType)
        /\ Intended(file') = <<Banner>> \o SubSeq(Blocks("unary", names), 1, k)
        /\ ~ WriteFaults => Intended(file') = file'
    <3>1. Intended(file) = <<Banner>> \o SubSeq(Blocks("unary", names), 1, k - 1)
      BY <2>1, <2>2
    <3>2. k \in 1..Len(names) /\ names \in Seq(Ident) /\ file \in Seq(BlockType)
      BY <1>1, <2>1
    <3>3. Write(Block("unary", names[k]))
      BY <1>8 DEF Render
    <3>. QED
      BY <1>1, <1>3, <3>1, <3>2, <3>3, RenderEffect
  <2>4. TypeOK'
    BY <1>1, <1>2, <2>1, <2>3 DEF TypeOK
  <2>5. /\ Intended(file') = <<Banner>> \o SubSeq(UnaryBlocks, 1, k' - 1)
        /\ ~ WriteFaults => Intended(file') = file'
        /\ k' >= 1 /\ pc' \notin {"init", "open", "header", "parseU", "parseB", "exit"}
    <3>1. k' - 1 = k /\ k' >= 1
      BY <1>1, <2>1
    <3>2. Intended(file') = <<Banner>> \o SubSeq(UnaryBlocks, 1, k' - 1)
      BY <2>2, <2>3, <3>1
    <3>. QED
      BY <2>1, <2>3, <3>1, <3>2
  <2>6. /\ srcU' # Malformed /\ names' = ConstTypes(srcU', UnaryType, UnaryMax)
        /\ Intended(file') = <<Banner>> \o SubSeq(UnaryBlocks', 1, k' - 1)
    BY <1>2, <2>1, <2>5
  <2>. QED
    BY <2>1, <2>4, <2>5, <2>6 DEF GenInv
<1>9. CASE EndRange("unary", "parseB", -1)
  <2>1. /\ pc = "unary" /\ pc' = "parseB" /\ exitCode' = -1 /\ k = Len(names) + 1
        /\ file' = file /\ names' = names /\ k' = k
        /\ srcU # Malformed /\ names = ConstTypes(srcU, UnaryType, UnaryMax)
        /\ Intended(file) = <<Banner>> \o SubSeq(UnaryBlocks, 1, k - 1)
    BY <1>9 DEF EndRange, GenInv
  <2>2. /\ UnaryBlocks \in Seq(BlockType) /\ Len(UnaryBlocks) = Len(names)
    BY <1>1, <2>1, FamilyBlocks
  <2>3. Intended(file') = <<Banner>> \o UnaryBlocks
    BY <2>1, <2>2
  <2>4. TypeOK'
    BY <1>1, <1>2, <2>1 DEF TypeOK
  <2>. QED
    BY <1>1, <1>2, <2>1, <2>3, <2>4 DEF GenInv
<1>10. CASE Parse("parseB", srcB, BinaryType, BinaryMax, "binary")
  <2>1. /\ pc = "parseB" /\ file' = file /\ srcU # Malformed
        /\ Intended(file) = <<Banner>> \o UnaryBlocks
        /\ UnaryBlocks \in Seq(BlockType)
    BY <1>1, <1>10, FamilyBlocks DEF Parse, GenInv
  <2>2. CASE srcB = Malformed
    <3>1. /\ pc' = "exit" /\ exitCode' = 1 /\ names' = names /\ k' = k
      BY <1>10, <2>1, <2>2 DEF Parse, Fatal
    <3>2. Expected = <<Banner>> \o UnaryBlocks
      BY <1>1, <2>1, <2>2, ExpectedCases
    <3>5. Expected \in Seq(BlockType)
      BY <1>3, <2>1, <3>2
    <3>3. OutputPrefix'
      BY <1>2, <2>1, <3>2, <3>5, PrefixRefl DEF OutputPrefix
    <3>4. TypeOK'
      BY <1>1, <1>2, <2>1, <3>1 DEF TypeOK
    <3>. QED
      BY <1>1, <2>1, <3>1, <3>3, <3>4 DEF GenInv
  <2>3. CASE srcB # Malformed
    <3>1. /\ pc' = "binary" /\ exitCode' = exitCode /\ exitCode = -1
          /\ names' = ConstTypes(srcB, BinaryType, BinaryMax) /\ k' = 1
      BY <1>10, <2>1, <2>3 DEF Parse, GenInv, TypeOK
    <3>2. /\ names' \in Seq(Ident)
          /\ BinaryBlocks \in Seq(BlockType)
      BY <1>1, <2>3, <3>1, ScanTyped, FamilyBlocks
    <3>3. Intended(file') = <<Banner>> \o UnaryBlocks \o SubSeq(BinaryBlocks, 1, k' - 1)
      BY <2>1, <3>1, <3>2
    <3>4. TypeOK'
      BY <1>1, <1>2, <2>1, <3>1, <3>2 DEF TypeOK
    <3>. QED
      BY <1>1, <1>2, <2>1, <2>3, <3>1, <3>3, <3>4 DEF GenInv
  <2>. QED
    BY <2>2, <2>3
<1>11. CASE Render("binary")
  <2>1. /\ pc = "binary" /\ pc' = "binary" /\ k <= Len(names) /\ k' = k + 1
        /\ exitCode' = exitCode /\ exitCode = -1 /\ names' = names
        /\ srcU # Malformed /\ srcB # Malformed
        /\ names = ConstTypes(srcB, BinaryType, BinaryMax) /\ k >= 1
        /\ Intended(file) = <<Banner>> \o UnaryBlocks \o SubSeq(BinaryBlocks, 1, k - 1)
        /\ file' \in {Append(file, Block("binary", names[k]))} \cup
             (IF WriteFaults THEN {Append(file, Partial(Block("binary", names[k])))}
                             ELSE {})
    BY <1>11 DEF Render, Write, GenInv, TypeOK
  <2>2. /\ BinaryBlocks = Blocks("binary", names)
        /\ <<Banner>> \o UnaryBlocks \in Seq(BlockType)
    BY <1>1, <1>3, <2>1, FamilyBlocks
  <2>3. /\ file' \in Seq(BlockType)
        /\ Intended(file') = (<<Banner>> \o UnaryBlocks) \o SubSeq(Blocks("binary", names), 1, k)
        /\ ~ WriteFaults => Intended(file') = file'
    <3>1. Intended(file) = (<<Banner>> \o UnaryBlocks) \o SubSeq(Blocks("binary", names), 1, k - 1)
      BY <2>1, <2>2
    <3>2. k \in 1..Len(names) /\ names \in Seq(Ident) /\ file \in Seq(BlockType)
      BY <1>1, <2>1
    <3>3. Write(Block("binary", names[k]))
      BY <1>11 DEF Render
    <3>. QED
      BY <1>1, <2>2, <3>1, <3>2, <3>3, RenderEffect
  <2>4. TypeOK'
    BY <1>1, <1>2, <2>1, <2>3 DEF TypeOK
  <2>5. /\ Intended(file') = <<Banner>> \o UnaryBlocks \o SubSeq(BinaryBlocks, 1, k' - 1)
        /\ ~ WriteFaults => Intended(file') = file'
        /\ k' >= 1 /\ pc' \notin {"init", "open", "header", "parseU", "parseB", "exit"}
    <3>1. k' - 1 = k /\ k' >= 1
      BY <1>1, <2>1
    <3>2. Intended(file') = <<Banner>> \o UnaryBlocks \o SubSeq(BinaryBlocks, 1, k' - 1)
      BY <2>2, <2>3, <3>1
    <3>. QED
      BY <2>1, <2>3, <3>1, <3>2
  <2>6. /\ srcU' # Malformed /\ srcB' # Malformed
        /\ names' = ConstTypes(srcB', BinaryType, BinaryMax)
        /\ Intended(file') = <<Banner>> \o UnaryBlocks' \o SubSeq(BinaryBlocks', 1, k' - 1)
    BY <1>2, <2>1, <2>5
  <2>7. /\ pc' \notin {"init", "open", "header", "parseU", "parseB", "unary", "exit"}
        /\ exitCode' # 0
    BY <2>1
  <2>. QED
    BY <2>1, <2>4, <2>5, <2>6, <2>7 DEF GenInv
<1>12. CASE EndRange("binary", "exit", 0)
  <2>1. /\ pc = "binary" /\ pc' = "exit" /\ exitCode' = 0 /\ k = Len(names) + 1
        /\ file' = file /\ names' = names /\ k' = k
        /\ srcU # Malformed /\ srcB # Malformed
        /\ names = ConstTypes(srcB, BinaryType, BinaryMax)
        /\ Intended(file) = <<Banner>> \o UnaryBlocks \o SubSeq(BinaryBlocks, 1, k - 1)
    BY <1>12 DEF EndRange, GenInv
  <2>2. /\ UnaryBlocks \in Seq(BlockType)
        /\ BinaryBlocks \in Seq(BlockType) /\ Len(BinaryBlocks) = Len(names)
    BY <1>1, <2>1, FamilyBlocks
  <2>3. Expected = <<Banner>> \o UnaryBlocks \o BinaryBlocks
    BY <1>1, <2>1, ExpectedCases
  <2>7. SubSeq(BinaryBlocks, 1, k - 1) = BinaryBlocks
    BY <2>1, <2>2
  <2>8. Intended(file') = <<Banner>> \o UnaryBlocks \o BinaryBlocks
    BY <2>1, <2>7
  <2>9. <<Banner>> \o UnaryBlocks \o BinaryBlocks \in Seq(BlockType)
    BY <1>3, <2>2
  <2>4. Intended(file') = Expected /\ Expected \in Seq(BlockType)
    BY <2>3, <2>8, <2>9
  <2>5. OutputPrefix'
    BY <1>2, <2>4, PrefixRefl DEF OutputPrefix
  <2>6. TypeOK'
    BY <1>1, <1>2, <2>1 DEF TypeOK
  <2>. QED
    BY <1>1, <1>2, <2>1, <2>4, <2>5, <2>6 DEF GenInv
<1>13. CASE UNCHANGED vars
  <2>1. /\ pc' = pc /\ exitCode' = exitCode /\ file' = file /\ names' = names
        /\ k' = k
    BY <1>13 DEF vars
  <2>2. TypeOK'
    BY <1>1, <1>2, <2>1 DEF GenInv, TypeOK
  <2>. QED
    BY <1>2, <2>1, <2>2 DEF GenInv, OutputPrefix
<1>. QED
  BY <1>4, <1>5, <1>6, <1>7, <1>8, <1>9, <1>10, <1>11, <1>12, <1>13 DEF Next

-----------------------------------------------------------------------------
(* A list is a prefix of itself extended.                                 *)
LEMMA PrefixExtend ==
  ASSUME NEW u \in Seq(BlockType), NEW r \in Seq(BlockType)
  PROVE  IsPrefix(u, u \o r)
BY DEF IsPrefix

(* A list followed by an initial segment of t is a prefix of the list      *)
(* followed by the whole of t and more.                                    *)
LEMMA PrefixConcat ==
  ASSUME NEW u \in Seq(BlockType), NEW t \in Seq(BlockType), NEW r \in Seq(BlockType),
         NEW n \in 0..Len(t)
  PROVE  /\ IsPrefix(u, u \o r)
         /\ IsPrefix(u \o SubSeq(t, 1, n), u \o t \o r)
BY DEF IsPrefix

(* Before main runs, the file is the previous run's.                       *)
LEMMA InitGenInv ==
  Init => GenInv
<1> SUFFICES ASSUME Init PROVE GenInv
  OBVIOUS
<1>1. Stale \in BlockType /\ Stale.whole = TRUE
  <2>1. Stale.whole = TRUE
    BY Zenon DEF Stale, Banner
  <2>. QED
    BY <2>1, BannerType
<1>2. Intended(<<Stale>>) = <<Stale>>
  <2>1. Whole(Stale) = Stale
    BY <1>1, WholeOfBlock
  <2>. QED
    BY <2>1 DEF Intended
<1>3. TypeOK
  BY <1>1 DEF Init, TypeOK
<1>. QED
  BY <1>2, <1>3 DEF Init, GenInv

(* The content left by an earlier run is not the banner, and is its own  *)
(* intended form.                                                          *)
LEMMA StaleFacts ==
  /\ Stale \in BlockType
  /\ Stale # Banner
  /\ Intended(<<Stale>>) = <<Stale>>
<1>1. Stale.whole = TRUE /\ Stale.fam = "stale" /\ Banner.fam = "banner"
  BY Zenon DEF Stale, Banner
<1>2. Stale \in BlockType
  BY BannerType
<1>3. Whole(Stale) = Stale
  BY <1>1, <1>2, WholeOfBlock
<1>. QED
  BY <1>1, <1>2, <1>3 DEF Intended

(* The complete output is a list of blocks that starts with the banner;   *)
(* when the unary file parses, its blocks come next.                       *)
LEMMA ExpectedShape ==
  ASSUME srcU \in UnarySources, srcB \in BinarySources
  PROVE  /\ Expected \in Seq(BlockType)
         /\ Len(Expected) >= 1 /\ Expected[1] = Banner
         /\ srcU # Malformed =>
              \E r \in Seq(BlockType) : Expected = <<Banner>> \o UnaryBlocks \o r
<1>1. <<Banner>> \in Seq(BlockType) /\ <<>> \in Seq(BlockType)
  BY BannerType
<1>2. /\ srcU # Malformed => UnaryBlocks \in Seq(BlockType)
      /\ srcB # Malformed => BinaryBlocks \in Seq(BlockType)
  BY FamilyBlocks
<1>3. /\ srcU = Malformed => Expected = <<Banner>>
      /\ srcU # Malformed /\ srcB = Malformed => Expected = <<Banner>> \o UnaryBlocks
      /\ srcU # Malformed /\ srcB # Malformed =>
           Expected = <<Banner>> \o UnaryBlocks \o BinaryBlocks
  BY ExpectedCases
<1>4. CASE srcU = Malformed
  <2>1. Expected = <<Banner>>
    BY <1>3, <1>4
  <2>2. /\ Expected \in Seq(BlockType)
        /\ Len(Expected) >= 1 /\ Expected[1] = Banner
    BY <1>1, <2>1
  <2>. QED
    BY <1>4, <2>2
<1>5. CASE srcU # Malformed /\ srcB = Malformed
  <2>1. Expected = <<Banner>> \o UnaryBlocks \o <<>>
    BY <1>1, <1>2, <1>3, <1>5
  <2>2. /\ <<Banner>> \o UnaryBlocks \o <<>> \in Seq(BlockType)
        /\ Len(<<Banner>> \o UnaryBlocks \o <<>>) >= 1
        /\ (<<Banner>> \o UnaryBlocks \o <<>>)[1] = Banner
    BY <1>1, <1>2, <1>5
  <2>3. \E r \in Seq(BlockType) : Expected = <<Banner>> \o UnaryBlocks \o r
    <3> WITNESS <<>> \in Seq(BlockType)
    <3>. QED
      BY <2>1
  <2>. QED
    BY <2>1, <2>2, <2>3
<1>6. CASE srcU # Malformed /\ srcB # Malformed
  <2>1. Expected = <<Banner>> \o UnaryBlocks \o BinaryBlocks
    BY <1>3, <1>6
  <2>2. /\ <<Banner>> \o UnaryBlocks \o BinaryBlocks \in Seq(BlockType)
        /\ Len(<<Banner>> \o UnaryBlocks \o BinaryBlocks) >= 1
        /\ (<<Banner>> \o UnaryBlocks \o BinaryBlocks)[1] = Banner
    BY <1>1, <1>2, <1>6
  <2>4. BinaryBlocks \in Seq(BlockType)
    BY <1>2, <1>6
  <2>3. \E r \in Seq(BlockType) : Expected = <<Banner>> \o UnaryBlocks \o r
    <3> WITNESS BinaryBlocks \in Seq(BlockType)
    <3>. QED
      BY <2>1
  <2>. QED
    BY <2>1, <2>2, <2>3
<1>. QED
  BY <1>4, <1>5, <1>6

(* From the open on, what the invariant says of each point of main makes  *)
(* the intended file a prefix of the complete output.                      *)
LEMMA OpenedPrefix ==
  ASSUME GenInv, pc \in {"header", "parseU", "unary", "parseB", "binary"}
  PROVE  IsPrefix(Intended(file), Expected)
<1>1. /\ srcU \in UnarySources /\ srcB \in BinarySources
      /\ names \in Seq(Ident) /\ k \in 0..Len(names) + 1
      /\ <<Banner>> \in Seq(BlockType)
  BY BannerType DEF GenInv, TypeOK
<1>2. /\ srcU # Malformed => UnaryBlocks \in Seq(BlockType)
      /\ srcB # Malformed => BinaryBlocks \in Seq(BlockType)
  BY <1>1, FamilyBlocks
<1>3. /\ Expected \in Seq(BlockType)
      /\ Len(Expected) >= 1 /\ Expected[1] = Banner
      /\ srcU # Malformed =>
           \E r \in Seq(BlockType) : Expected = <<Banner>> \o UnaryBlocks \o r
  BY <1>1, ExpectedShape
<1>7. CASE pc = "header"
  <2>1. Intended(file) = <<>>
    BY <1>7 DEF GenInv, Intended
  <2>. QED
    BY <1>3, <2>1 DEF IsPrefix
<1>9. CASE pc = "parseU"
  <2>1. Intended(file) = <<Banner>>
    BY <1>9 DEF GenInv
  <2>. QED
    BY <1>3, <2>1 DEF IsPrefix
<1>10. CASE pc = "parseB"
  <2>1. srcU # Malformed /\ Intended(file) = <<Banner>> \o UnaryBlocks
    BY <1>10 DEF GenInv
  <2>2. PICK r \in Seq(BlockType) : Expected = <<Banner>> \o UnaryBlocks \o r
    BY <1>3, <2>1
  <2>3. <<Banner>> \o UnaryBlocks \in Seq(BlockType)
    BY <1>1, <1>2, <2>1
  <2>4. IsPrefix(<<Banner>> \o UnaryBlocks, (<<Banner>> \o UnaryBlocks) \o r)
    BY <2>3, PrefixExtend
  <2>. QED
    BY <2>1, <2>2, <2>4
<1>11. CASE pc = "unary"
  <2>1. /\ srcU # Malformed /\ names = ConstTypes(srcU, UnaryType, UnaryMax) /\ k >= 1
        /\ Intended(file) = <<Banner>> \o SubSeq(UnaryBlocks, 1, k - 1)
    BY <1>11 DEF GenInv
  <2>2. /\ UnaryBlocks \in Seq(BlockType) /\ Len(UnaryBlocks) = Len(names)
    BY <1>1, <2>1, FamilyBlocks
  <2>3. PICK r \in Seq(BlockType) : Expected = <<Banner>> \o UnaryBlocks \o r
    BY <1>3, <2>1
  <2>4. k - 1 \in 0..Len(UnaryBlocks)
    BY <1>1, <2>1, <2>2
  <2>. QED
    BY <1>1, <2>1, <2>2, <2>3, <2>4, PrefixConcat
<1>12. CASE pc = "binary"
  <2>1. /\ srcU # Malformed /\ srcB # Malformed
        /\ names = ConstTypes(srcB, BinaryType, BinaryMax) /\ k >= 1
        /\ Intended(file) = <<Banner>> \o UnaryBlocks \o SubSeq(BinaryBlocks, 1, k - 1)
    BY <1>12 DEF GenInv
  <2>2. /\ BinaryBlocks \in Seq(BlockType) /\ Len(BinaryBlocks) = Len(names)
    BY <1>1, <2>1, FamilyBlocks
  <2>3. <<Banner>> \o UnaryBlocks \in Seq(BlockType)
    BY <1>1, <1>2, <2>1
  <2>4. Expected = (<<Banner>> \o UnaryBlocks) \o BinaryBlocks \o <<>>
    BY <1>1, <2>1, <2>2, <2>3, ExpectedCases
  <2>5. k - 1 \in 0..Len(BinaryBlocks)
    BY <1>1, <2>1, <2>2
  <2>6. IsPrefix((<<Banner>> \o UnaryBlocks) \o SubSeq(BinaryBlocks, 1, k - 1),
                 (<<Banner>> \o UnaryBlocks) \o BinaryBlocks \o <<>>)
    <3> <<>> \in Seq(BlockType)
      OBVIOUS
    <3>. QED
      BY <2>2, <2>3, <2>5, PrefixConcat
  <2>. QED
    BY <2>1, <2>4, <2>6
<1>. QED
  BY <1>7, <1>9, <1>10, <1>11, <1>12

(* From the open on, the file is no longer the previous run's.             *)
LEMMA OpenedNotStale ==
  ASSUME GenInv, pc \in {"header", "parseU", "unary", "parseB", "binary"}
  PROVE  file # <<Stale>>
<1>1. IsPrefix(Intended(file), Expected)
  BY OpenedPrefix
<1>2. Len(Expected) >= 1 /\ Expected[1] = Banner
  BY ExpectedShape DEF GenInv, TypeOK
<1>3. SUFFICES ASSUME file = <<Stale>> PROVE FALSE
  OBVIOUS
<1>4. Intended(file) = <<Stale>>
  BY <1>3, StaleFacts
<1>5. Stale = Expected[1]
  BY <1>1, <1>2, <1>4 DEF IsPrefix
<1>. QED
  BY <1>2, <1>5, StaleFacts

(* The invariant makes the file the previous run's or a prefix of the     *)
(* complete output.                                                        *)
LEMMA GenInvPrefix ==
  GenInv => OutputPrefix
<1> SUFFICES ASSUME GenInv PROVE OutputPrefix
  OBVIOUS
<1>1. CASE pc \in {"init", "open"}
  BY <1>1 DEF GenInv, OutputPrefix
<1>2. CASE pc = "exit"
  BY <1>2 DEF GenInv
<1>3. CASE pc \in {"header", "parseU", "unary", "parseB", "binary"}
  BY <1>3, OpenedPrefix DEF OutputPrefix
<1>. QED
  BY <1>1, <1>2, <1>3 DEF GenInv, TypeOK

-----------------------------------------------------------------------------
(* Whatever os.OpenFile, the parser, constTypes and the unchecked writes   *)
(* do, api_gen.go is always the previous file or, counting a partly        *)
(* written block as whole, a prefix of the complete output.               *)
THEOREM OutputPrefixHolds == Spec => []OutputPrefix
BY InitGenInv, GenInvStep, GenInvPrefix, PTL DEF Spec

(* When every Fprintf and Execute writes its whole block, a run of main    *)
(* that exits with status 0 has written exactly the complete output.       *)
THEOREM CompleteOnSuccessHolds ==
  ASSUME ~ WriteFaults
  PROVE  Spec => []CompleteOnSuccess
<1>1. GenInv => CompleteOnSuccess
  BY DEF GenInv, CompleteOnSuccess
<1>. QED
  BY <1>1, InitGenInv, GenInvStep, PTL DEF Spec

-----------------------------------------------------------------------------
(* The generator implements GenOutput under the mapping out <- file,       *)
(* status <- exitCode, target <- Expected.                                 *)

(* The instance's operators are the generator's own.                       *)
LEMMA SameOutputOps ==
  ASSUME NEW f, NEW s, NEW t
  PROVE  /\ GO!Intended(f) = Intended(f)
         /\ GO!IsPrefix(s, t) <=> IsPrefix(s, t)
BY DEF GO!Intended, Intended, GO!IsPrefix, IsPrefix

(* A write of the next block of the complete output is an Emit.            *)
LEMMA EmitStep ==
  ASSUME NEW c \in BlockType, exitCode = -1, file # <<Stale>>,
         file' \in {Append(file, c)} \cup
                   (IF WriteFaults THEN {Append(file, Partial(c))} ELSE {}),
         IsPrefix(Intended(file'), Expected),
         exitCode' = exitCode, Expected' = Expected
  PROVE  GO!Emit
<1>1. GO!IsPrefix(GO!Intended(file'), Expected)
  BY SameOutputOps
<1>. QED
  BY <1>1, Zenon DEF GO!Emit

(* Each step of main is a step of GenOutput or leaves its state alone.     *)
LEMMA GenStepRefines ==
  ASSUME GenInv, GenInv', [Next]_vars
  PROVE  [GO!Next]_GO!vars
<1>1. /\ srcU \in UnarySources /\ srcB \in BinarySources
      /\ names \in Seq(Ident) /\ k \in 0..Len(names) + 1
      /\ file \in Seq(BlockType)
      /\ (pc = "exit") <=> (exitCode # -1)
      /\ Expected' = Expected
      /\ UnaryBlocks' = UnaryBlocks /\ BinaryBlocks' = BinaryBlocks
      /\ <<Banner>> \in Seq(BlockType)
  BY SourcesFixed, BannerType DEF GenInv, TypeOK
<1>2. /\ Expected \in Seq(BlockType)
      /\ Len(Expected) >= 1 /\ Expected[1] = Banner
      /\ srcU # Malformed =>
           \E r \in Seq(BlockType) : Expected = <<Banner>> \o UnaryBlocks \o r
  BY <1>1, ExpectedShape
<1>3. ASSUME file' = file, exitCode' = exitCode
      PROVE  [GO!Next]_GO!vars
  BY <1>1, <1>3 DEF GO!vars
<1>4. ASSUME pc # "exit", exitCode' = 1, file' = file
      PROVE  [GO!Next]_GO!vars
  BY <1>1, <1>4 DEF GO!Next, GO!Abort
<1>5. CASE Setup
  BY <1>3, <1>4, <1>5 DEF Setup, Fatal
<1>6. CASE Open
  <2>1. /\ pc = "open" /\ file = <<Stale>> /\ exitCode = -1
    BY <1>1, <1>6 DEF Open, GenInv
  <2>2. CASE pc' = "header" /\ file' = <<>> /\ UNCHANGED exitCode
    BY <1>1, <2>1, <2>2 DEF GO!Next, GO!Truncate
  <2>. QED
    BY <1>4, <1>6, <2>1, <2>2 DEF Open, Fatal
<1>7. CASE WriteHeader
  <2>1. /\ pc = "header" /\ file = <<>> /\ exitCode = -1 /\ pc' = "parseU"
        /\ exitCode' = exitCode
        /\ file' \in {Append(file, Banner)} \cup
                     (IF WriteFaults THEN {Append(file, Partial(Banner))} ELSE {})
    BY <1>1, <1>7 DEF WriteHeader, Write, GenInv
  <2>2. Intended(file') = <<Banner>>
    BY <2>1 DEF GenInv
  <2>3. IsPrefix(Intended(file'), Expected)
    BY <1>2, <2>2 DEF IsPrefix
  <2>4. file # <<Stale>>
    BY <2>1
  <2>. QED
    BY <1>1, <2>1, <2>3, <2>4, BannerType, EmitStep DEF GO!Next
<1>8. CASE Parse("parseU", srcU, UnaryType, UnaryMax, "unary")
  BY <1>3, <1>4, <1>8 DEF Parse, Fatal
<1>9. CASE Parse("parseB", srcB, BinaryType, BinaryMax, "binary")
  BY <1>3, <1>4, <1>9 DEF Parse, Fatal
<1>10. CASE EndRange("unary", "parseB", -1)
  BY <1>1, <1>3, <1>10 DEF EndRange
<1>11. CASE EndRange("binary", "exit", 0)
  <2>1. /\ pc = "binary" /\ exitCode = -1 /\ exitCode' = 0 /\ file' = file
    BY <1>1, <1>11 DEF EndRange
  <2>2. Intended(file) = Expected
    BY <1>1, <2>1 DEF GenInv
  <2>3. GO!Succeed
    BY <1>1, <2>1, <2>2, SameOutputOps DEF GO!Succeed
  <2>. QED
    BY <2>3 DEF GO!Next
<1>12. CASE UNCHANGED vars
  BY <1>3, <1>12 DEF vars
<1>13. CASE Render("unary")
  <2>1. /\ pc = "unary" /\ pc' = "unary" /\ exitCode = -1 /\ exitCode' = exitCode
        /\ k <= Len(names) /\ k' = k + 1
        /\ file' \in {Append(file, Block("unary", names[k]))} \cup
             (IF WriteFaults THEN {Append(file, Partial(Block("unary", names[k])))}
                             ELSE {})
    BY <1>1, <1>13 DEF Render, Write
  <2>2. srcU # Malformed /\ names = ConstTypes(srcU, UnaryType, UnaryMax) /\ k >= 1
    BY <2>1 DEF GenInv
  <2>3. UnaryBlocks \in Seq(BlockType) /\ Len(UnaryBlocks) = Len(names)
    BY <1>1, <2>2, FamilyBlocks
  <2>4. Intended(file') = <<Banner>> \o SubSeq(UnaryBlocks, 1, k)
    <3>1. Intended(file') = <<Banner>> \o SubSeq(UnaryBlocks', 1, k' - 1)
      BY <2>1 DEF GenInv
    <3>2. k' - 1 = k
      BY <1>1, <2>1
    <3>. QED
      BY <1>1, <3>1, <3>2
  <2>5. PICK r \in Seq(BlockType) : Expected = <<Banner>> \o UnaryBlocks \o r
    BY <1>2, <2>2
  <2>6. k \in 0..Len(UnaryBlocks)
    BY <1>1, <2>1, <2>2, <2>3
  <2>7. IsPrefix(<<Banner>> \o SubSeq(UnaryBlocks, 1, k), <<Banner>> \o UnaryBlocks \o r)
    BY <1>1, <2>3, <2>6, PrefixConcat
  <2>8. file # <<Stale>>
    BY <2>1, OpenedNotStale
  <2>9. Block("unary", names[k]) \in BlockType
    <3>1. names[k] \in Ident
      BY <1>1, <2>1, <2>2
    <3>. QED
      BY <3>1, BlockTyped
  <2>. QED
    BY <1>1, <2>1, <2>4, <2>5, <2>7, <2>8, <2>9, EmitStep DEF GO!Next
<1>14. CASE Render("binary")
  <2>1. /\ pc = "binary" /\ pc' = "binary" /\ exitCode = -1 /\ exitCode' = exitCode
        /\ k <= Len(names) /\ k' = k + 1
        /\ file' \in {Append(file, Block("binary", names[k]))} \cup
             (IF WriteFaults THEN {Append(file, Partial(Block("binary", names[k])))}
                             ELSE {})
    BY <1>1, <1>14 DEF Render, Write
  <2>2. /\ srcU # Malformed /\ srcB # Malformed
        /\ names = ConstTypes(srcB, BinaryType, BinaryMax) /\ k >= 1
    BY <2>1 DEF GenInv
  <2>3. /\ BinaryBlocks \in Seq(BlockType) /\ Len(BinaryBlocks) = Len(names)
        /\ <<Banner>> \o UnaryBlocks \in Seq(BlockType)
    BY <1>1, <2>2, FamilyBlocks
  <2>4. Intended(file') = (<<Banner>> \o UnaryBlocks) \o SubSeq(BinaryBlocks, 1, k)
    <3>1. Intended(file') = <<Banner>> \o UnaryBlocks' \o SubSeq(BinaryBlocks', 1, k' - 1)
      BY <2>1 DEF GenInv
    <3>2. k' - 1 = k
      BY <1>1, <2>1
    <3>. QED
      BY <1>1, <3>1, <3>2
  <2>5. Expected = (<<Banner>> \o UnaryBlocks) \o BinaryBlocks \o <<>>
    BY <1>1, <2>2, <2>3, ExpectedCases
  <2>6. k \in 0..Len(BinaryBlocks)
    BY <1>1, <2>1, <2>2, <2>3
  <2>7. IsPrefix((<<Banner>> \o UnaryBlocks) \o SubSeq(BinaryBlocks, 1, k),
                 (<<Banner>> \o UnaryBlocks) \o BinaryBlocks \o <<>>)
    <3> <<>> \in Seq(BlockType)
      OBVIOUS
    <3>. QED
      BY <2>3, <2>6, PrefixConcat
  <2>8. file # <<Stale>>
    BY <2>1, OpenedNotStale
  <2>9. Block("binary", names[k]) \in BlockType
    <3>1. names[k] \in Ident
      BY <1>1, <2>1, <2>2
    <3>. QED
      BY <3>1, BlockTyped
  <2>. QED
    BY <1>1, <2>1, <2>4, <2>5, <2>7, <2>8, <2>9, EmitStep DEF GO!Next
<1>. QED
  BY <1>5, <1>6, <1>7, <1>8, <1>9, <1>10, <1>11, <1>12, <1>13, <1>14 DEF Next

(* The generator implements the abstract promise of one run: a single     *)
(* O_TRUNC open, then the blocks of the complete output appended in       *)
(* order by the Fprintf and Execute calls, each log.Fatal an abort that   *)
(* leaves the file as it is, and status 0 only with every block written.  *)
THEOREM GenRefinement == Spec => GenOutputSpec
<1>1. Init => GO!Init
  <2> SUFFICES ASSUME Init PROVE GO!Init
    OBVIOUS
  <2>1. Expected \in Seq(BlockType)
    BY ExpectedShape DEF Init
  <2>. QED
    BY <2>1 DEF Init, GO!Init
<1>2. GenInv /\ GenInv' /\ [Next]_vars => [GO!Next]_GO!vars
  BY GenStepRefines
<1>. QED
  BY <1>1, <1>2, InitGenInv, GenInvStep, PTL DEF Spec, GenOutputSpec, GO!Spec

=============================================================================
