----------------------------- MODULE BlockTree -----------------------------
(***************************************************************************)
(* The tree of blocks of entity.h / entity.cpp, as far as consensus looks  *)
(* at it, and the two rules that consensus.cpp derives from a block alone: *)
(* which block it locks and which block it may commit.                     *)
(*                                                                         *)
(* A block's hash covers its parent hashes, its commands and its quorum    *)
(* certificate, so it determines the whole branch from the genesis block.  *)
(* A block is therefore modelled BY that branch: the sequence of the       *)
(* contents of its ancestors and of itself.  The parent is the sequence    *)
(* without its last element, the height is the length, two blocks with the *)
(* same content on the same parent are the same block, exactly as          *)
(* EntityStorage::add_blk makes them.                                      *)
(*                                                                         *)
(* A content holds the commands and the height of the block that the       *)
(* quorum certificate refers to.  on_propose takes the parent from         *)
(* PMHighTail and the certificate from hqc; the block of hqc is always on  *)
(* the branch of the parent (HotStuffCore!TailFollowsHqc, checked), which  *)
(* is what makes a height enough to name it.                               *)
(***************************************************************************)
EXTENDS Integers, Sequences

CONSTANTS
  TwoStep,    \* is the build made with HOTSTUFF_TWO_STEP?
  Payloads    \* the command lists that a block may carry

ASSUME TwoStepAssumption == TwoStep \in BOOLEAN

Content == [cmds : Payloads, qc : Nat]

\* Every block that could be made.
Tree == Seq(Content)

\* The genesis block.
b0 == <<>>

\* Block::height.
Height(b) == Len(b)

\* The common loop `for (b = blk; b->height > h; b = b->parents[0])`.
WalkDown(b, h) == IF Height(b) > h THEN SubSeq(b, 1, h) ELSE b

\* Block::parents[0]; the code never asks it of b0.
Parent(b) == WalkDown(b, Height(b) - 1)

\* Block::qc_ref; on_init sets the one of b0 to b0.
QcRef(b) == IF b = b0 THEN b0 ELSE WalkDown(b, b[Len(b)].qc)

\* The branch of b, b0 included.
Branch(b) == {WalkDown(b, h) : h \in 0..Height(b)}

\* Does b lie on the branch of a?
check_ancestry(a, b) == WalkDown(b, Height(a)) = a

\* What a new block contains.
NewBlock(parent, cmds, qc_blk) ==
  Append(parent, [cmds |-> cmds, qc |-> Height(qc_blk)])

-----------------------------------------------------------------------------
\* The block that update(n) may lock (blk1 in both builds).
LockOf(n) == IF TwoStep THEN QcRef(n) ELSE QcRef(QcRef(n))

\* The block that update(n) may commit (blk in both builds).
CommitOf(n) == QcRef(LockOf(n))

\* "commit requires direct parent".
DirectParents(n) ==
  /\ Parent(LockOf(n)) = CommitOf(n)
  /\ ~TwoStep => Parent(QcRef(n)) = LockOf(n)
=============================================================================
