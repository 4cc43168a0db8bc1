-------------------------- MODULE BlockTreeProofs --------------------------
(* Facts about the block tree, for every block that could be made. *)
EXTENDS BlockTree, SequenceTheorems, TLAPS

\* What the walk down a branch returns: a block of the tree, of the height
\* asked for, equal to the branch up to there.
LEMMA WalkDownFacts ==
  ASSUME NEW b \in Tree, NEW h \in Nat
  PROVE  /\ WalkDown(b, h) \in Tree
         /\ Height(WalkDown(b, h)) = IF Height(b) > h THEN h ELSE Height(b)
         /\ \A i \in 1..Height(WalkDown(b, h)) : WalkDown(b, h)[i] = b[i]
<1>1. Len(b) \in Nat /\ \A i \in 1..Len(b) : b[i] \in Content
  BY LenProperties, ElementOfSeq DEF Tree
<1>2. CASE Height(b) > h
  <2>1. WalkDown(b, h) = SubSeq(b, 1, h)
    BY <1>2 DEF WalkDown
  <2>2. /\ SubSeq(b, 1, h) \in Seq(Content)
        /\ Len(SubSeq(b, 1, h)) = IF 1 <= h THEN h - 1 + 1 ELSE 0
        /\ \A i \in 1..(h - 1 + 1) : SubSeq(b, 1, h)[i] = b[1 + i - 1]
    BY <1>1, <1>2, SubSeqProperties DEF Height
  <2> QED BY <1>2, <2>1, <2>2 DEF Height, Tree
<1>3. CASE ~(Height(b) > h)
  BY <1>1, <1>3 DEF WalkDown, Height
<1> QED BY <1>2, <1>3

\* check_ancestry compares the branches element by element.
LEMMA AncestryByElements ==
  ASSUME NEW a \in Tree, NEW b \in Tree
  PROVE  check_ancestry(a, b) <=>
           /\ Height(a) <= Height(b)
           /\ \A i \in 1..Height(a) : a[i] = b[i]
<1>1. Height(a) \in Nat /\ Height(b) \in Nat
  BY LenProperties DEF Tree, Height
<1> DEFINE w == WalkDown(b, Height(a))
<1>2. /\ w \in Tree
      /\ Height(w) = IF Height(b) > Height(a) THEN Height(a) ELSE Height(b)
      /\ \A i \in 1..Height(w) : w[i] = b[i]
  BY <1>1, WalkDownFacts
<1>3. ASSUME w = a
      PROVE  Height(a) <= Height(b) /\ \A i \in 1..Height(a) : a[i] = b[i]
  BY <1>1, <1>2, <1>3
<1>4. ASSUME Height(a) <= Height(b), \A i \in 1..Height(a) : a[i] = b[i]
      PROVE  w = a
  <2>1. Height(w) = Height(a)
    BY <1>1, <1>2, <1>4
  <2>2. \A i \in 1..Len(w) : w[i] = a[i]
    BY <1>2, <1>4, <2>1 DEF Height
  <2> QED BY <1>2, <2>1, <2>2, SeqEqual DEF Tree, Height
<1> QED BY <1>3, <1>4 DEF check_ancestry

\* check_ancestry is a partial order on the tree with b0 at the bottom, that
\* agrees with the heights and is total below each block.
LEMMA AncestryOrder ==
  /\ \A a \in Tree : Height(a) \in Nat
  /\ b0 \in Tree /\ Height(b0) = 0
  /\ \A a \in Tree : check_ancestry(b0, a) /\ check_ancestry(a, a)
  /\ \A a, b \in Tree : check_ancestry(a, b) =>
       Height(a) <= Height(b) /\ (Height(a) = Height(b) => a = b)
  /\ \A a, b, c \in Tree :
       check_ancestry(a, b) /\ check_ancestry(b, c) => check_ancestry(a, c)
  /\ \A a, b, c \in Tree :
       check_ancestry(a, c) /\ check_ancestry(b, c) /\ Height(a) <= Height(b)
         => check_ancestry(a, b)
<1>1. \A a \in Tree : Height(a) \in Nat
  BY LenProperties DEF Tree, Height
<1>2. b0 \in Tree /\ Height(b0) = 0
  BY EmptySeq DEF Tree, Height, b0
<1>3. ASSUME NEW a \in Tree
      PROVE  check_ancestry(b0, a) /\ check_ancestry(a, a)
  BY <1>1, <1>2, AncestryByElements
<1>4. ASSUME NEW a \in Tree, NEW b \in Tree, check_ancestry(a, b)
      PROVE  Height(a) <= Height(b) /\ (Height(a) = Height(b) => a = b)
  <2>1. Height(a) <= Height(b) /\ \A i \in 1..Height(a) : a[i] = b[i]
    BY <1>4, AncestryByElements
  <2>2. Height(a) = Height(b) => a = b
    BY <2>1, SeqEqual DEF Tree, Height
  <2> QED BY <2>1, <2>2
<1>5. ASSUME NEW a \in Tree, NEW b \in Tree, NEW c \in Tree,
             check_ancestry(a, b), check_ancestry(b, c)
      PROVE  check_ancestry(a, c)
  BY <1>1, <1>5, AncestryByElements
<1>6. ASSUME NEW a \in Tree, NEW b \in Tree, NEW c \in Tree,
             check_ancestry(a, c), check_ancestry(b, c), Height(a) <= Height(b)
      PROVE  check_ancestry(a, b)
  BY <1>1, <1>6, AncestryByElements
<1> QED BY <1>1, <1>2, <1>3, <1>4, <1>5, <1>6

\* The walk down from a block stays on its branch.
LEMMA WalkDownIsAncestor ==
  ASSUME NEW b \in Tree, NEW h \in Nat
  PROVE  check_ancestry(WalkDown(b, h), b)
<1>1. Height(b) \in Nat
  BY AncestryOrder
<1> QED BY <1>1, WalkDownFacts, AncestryByElements, SMTT(40)

\* The parent is the ancestor one below; the block referred to by the
\* certificate is an ancestor too.
LEMMA ParentFacts ==
  ASSUME NEW b \in Tree, b # b0
  PROVE  /\ Height(b) \in Nat \ {0}
         /\ Parent(b) \in Tree
         /\ Height(Parent(b)) = Height(b) - 1
         /\ check_ancestry(Parent(b), b)
<1>1. Height(b) \in Nat \ {0}
  BY EmptySeq DEF Tree, Height, b0
<1>2. Height(b) - 1 \in Nat /\ Height(b) > Height(b) - 1
  BY <1>1
<1> QED BY <1>1, <1>2, WalkDownFacts, WalkDownIsAncestor DEF Parent

LEMMA QcRefFacts ==
  ASSUME NEW b \in Tree
  PROVE  /\ QcRef(b) \in Tree
         /\ check_ancestry(QcRef(b), b)
         /\ b # b0 /\ b[Len(b)].qc < Len(b) => Height(QcRef(b)) < Height(b)
<1>1. CASE b = b0
  BY <1>1, AncestryOrder DEF QcRef
<1>2. CASE b # b0
  <2>1. Len(b) \in Nat \ {0}
    BY <1>2, EmptySeq DEF Tree, b0
  <2>2. b[Len(b)] \in Content
    BY <2>1, ElementOfSeq DEF Tree
  <2>3. b[Len(b)].qc \in Nat
    BY <2>2 DEF Content
  <2>4. QcRef(b) = WalkDown(b, b[Len(b)].qc)
    BY <1>2 DEF QcRef
  <2> QED BY <2>1, <2>3, <2>4, WalkDownFacts, WalkDownIsAncestor DEF Height
<1> QED BY <1>1, <1>2

\* Taking the certified block of a certified block stays on the branch.
LEMMA LockOfFacts ==
  ASSUME NEW b \in Tree
  PROVE  /\ LockOf(b) \in Tree
         /\ check_ancestry(LockOf(b), b)
         /\ check_ancestry(LockOf(b), QcRef(b))
         /\ CommitOf(b) \in Tree
         /\ check_ancestry(CommitOf(b), LockOf(b))
<1>1. QcRef(b) \in Tree /\ check_ancestry(QcRef(b), b)
  BY QcRefFacts
<1>2. QcRef(QcRef(b)) \in Tree /\ check_ancestry(QcRef(QcRef(b)), QcRef(b))
  BY <1>1, QcRefFacts
<1>3. /\ LockOf(b) \in Tree
      /\ check_ancestry(LockOf(b), b)
      /\ check_ancestry(LockOf(b), QcRef(b))
  BY <1>1, <1>2, AncestryOrder DEF LockOf
<1> QED BY <1>3, QcRefFacts DEF CommitOf

\* The branch of a block holds its ancestors and itself.
LEMMA BranchIsAncestry ==
  ASSUME NEW b \in Tree
  PROVE  \A a : a \in Branch(b) <=> a \in Tree /\ check_ancestry(a, b)
<1>1. Height(b) \in Nat
  BY AncestryOrder
<1>2. ASSUME NEW a \in Branch(b)
      PROVE  a \in Tree /\ check_ancestry(a, b)
  <2>1. PICK h \in 0..Height(b) : a = WalkDown(b, h)
    BY DEF Branch
  <2> QED BY <1>1, <2>1, WalkDownFacts, WalkDownIsAncestor
<1>3. ASSUME NEW a \in Tree, check_ancestry(a, b)
      PROVE  a \in Branch(b)
  <2>1. Height(a) \in 0..Height(b) /\ WalkDown(b, Height(a)) = a
    BY <1>1, <1>3, AncestryOrder DEF check_ancestry
  <2> QED BY <2>1 DEF Branch
<1> QED BY <1>2, <1>3

\* What a branch contains: its two ends, the branches of all its blocks, the
\* certified block, and one block per height.
LEMMA BranchFacts ==
  ASSUME NEW b \in Tree
  PROVE  /\ Branch(b) \subseteq Tree
         /\ b \in Branch(b) /\ b0 \in Branch(b) /\ QcRef(b) \in Branch(b)
         /\ \A a \in Branch(b) : Branch(a) \subseteq Branch(b)
         /\ \A a \in Branch(b) : Height(a) \in Nat /\ Height(a) <= Height(b)
         /\ \A a, c \in Branch(b) : Height(a) = Height(c) => a = c
<1>1. \A a \in Branch(b) : a \in Tree /\ check_ancestry(a, b)
  BY BranchIsAncestry
<1>2. b \in Branch(b) /\ b0 \in Branch(b) /\ QcRef(b) \in Branch(b)
  BY BranchIsAncestry, AncestryOrder, QcRefFacts
<1>3. ASSUME NEW a \in Branch(b), NEW c \in Branch(a)
      PROVE  c \in Branch(b)
  <2>1. c \in Tree /\ check_ancestry(c, a)
    BY <1>1, BranchIsAncestry
  <2> QED BY <1>1, <2>1, BranchIsAncestry, AncestryOrder
<1>4. \A a \in Branch(b) : Height(a) \in Nat /\ Height(a) <= Height(b)
  BY <1>1, AncestryOrder
<1>5. ASSUME NEW a \in Branch(b), NEW c \in Branch(b), Height(a) = Height(c)
      PROVE  a = c
  <2>1. check_ancestry(a, c)
    BY <1>1, <1>4, <1>5, AncestryOrder
  <2> QED BY <1>1, <1>5, <2>1, AncestryOrder
<1> QED BY <1>1, <1>2, <1>3, <1>4, <1>5

\* The parent in a branch, and the branch without its top.
LEMMA ParentInBranch ==
  ASSUME NEW b \in Tree, b # b0
  PROVE  /\ Parent(b) \in Branch(b)
         /\ Height(Parent(b)) = Height(b) - 1
         /\ \A a \in Branch(b) : a = b \/ a \in Branch(Parent(b))
<1>1. /\ Parent(b) \in Tree /\ Height(Parent(b)) = Height(b) - 1
      /\ Height(b) \in Nat \ {0}
      /\ check_ancestry(Parent(b), b)
  BY ParentFacts
<1>2. ASSUME NEW a \in Branch(b), a # b
      PROVE  a \in Branch(Parent(b))
  <2>1. a \in Tree /\ check_ancestry(a, b)
    BY BranchIsAncestry
  <2>2. Height(a) \in Nat /\ Height(a) <= Height(b) /\ Height(a) # Height(b)
    BY <1>2, <2>1, AncestryOrder
  <2>3. check_ancestry(a, Parent(b))
    BY <1>1, <2>1, <2>2, AncestryOrder
  <2> QED BY <1>1, <2>1, <2>3, BranchIsAncestry
<1> QED BY <1>1, <1>2, BranchIsAncestry

\* The genesis block is a branch of its own.
LEMMA GenesisBranch == Branch(b0) = {b0}
<1>1. b0 \in Tree /\ Height(b0) = 0
  BY AncestryOrder
<1>2. \A a \in Branch(b0) : a = b0
  BY <1>1, BranchFacts
<1> QED BY <1>1, <1>2, BranchFacts

\* The new block of a proposer, on a parent that is on the branch of hqc.
LEMMA NewBlockFacts ==
  ASSUME NEW parent \in Tree, NEW cmds \in Payloads, NEW qc_blk \in Tree,
         check_ancestry(qc_blk, parent)
  PROVE  LET n == NewBlock(parent, cmds, qc_blk) IN
         /\ n \in Tree /\ n # b0
         /\ Height(n) = Height(parent) + 1
         /\ Parent(n) = parent
         /\ QcRef(n) = qc_blk
         /\ n[Len(n)].qc < Len(n)
<1> DEFINE n == NewBlock(parent, cmds, qc_blk)
           c == [cmds |-> cmds, qc |-> Height(qc_blk)]
<1>1. /\ Height(qc_blk) \in Nat /\ Height(parent) \in Nat
      /\ Height(qc_blk) <= Height(parent)
  BY AncestryOrder
<1>2. c \in Content
  BY <1>1 DEF Content
<1>3. /\ n \in Tree /\ Len(n) = Len(parent) + 1
      /\ \A i \in 1..Len(parent) : n[i] = parent[i]
      /\ n[Len(parent) + 1] = c
  BY <1>1, <1>2, AppendProperties DEF NewBlock, Tree, Height
<1>4. n # b0
  BY <1>1, <1>3, EmptySeq DEF b0, Height
<1>5. check_ancestry(parent, n)
  BY <1>1, <1>3, AncestryByElements DEF Height
<1>6. Parent(n) = parent
  BY <1>1, <1>3, <1>5 DEF Parent, check_ancestry, Height
<1>7. check_ancestry(qc_blk, n)
  BY <1>3, <1>5, AncestryOrder
<1>8. n[Len(n)].qc = Height(qc_blk)
  BY <1>1, <1>3 DEF Height
<1>9. QcRef(n) = qc_blk
  BY <1>4, <1>7, <1>8 DEF QcRef, check_ancestry
<1> QED BY <1>1, <1>3, <1>4, <1>6, <1>8, <1>9 DEF Height
=============================================================================
