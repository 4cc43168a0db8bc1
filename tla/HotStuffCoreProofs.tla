------------------------- MODULE HotStuffCoreProofs -------------------------
(***************************************************************************)
(* HotStuffCore implements the voting rules of ChainVoting, for any        *)
(* replicas, intersecting quorums and blocks and in both builds; its       *)
(* safety follows from theirs.                                             *)
(*                                                                         *)
(* The first part is about the functions of HotStuffCore on the record of  *)
(* one replica, the second about the steps of the system.  VP is the       *)
(* instance of ChainVoting (Voting in HotStuffCore) with its proofs.       *)
(***************************************************************************)
EXTENDS HotStuffCore, BlockTreeProofs

VP == INSTANCE ChainVotingProofs WITH
  Faulty <- {},
  proposed <- Created,
  votes <- Cast,
  vheight <- VHeights,
  b_lock <- Locks,
  b_exec <- Execs,
  breached <- Breached

-----------------------------------------------------------------------------
(***************************************************************************)
(* The functions of HotStuffCore.                                          *)
(***************************************************************************)

LEMMA BlockFacts ==
  /\ Block \subseteq Tree /\ b0 \in Block /\ b0 \in Tree /\ Height(b0) = 0
  /\ \A b \in Blocks : b \in Tree /\ b # b0
  /\ \A b \in Tree : /\ Height(b) \in Nat
                     /\ b \in Branch(b) /\ b0 \in Branch(b) /\ QcRef(b) \in Branch(b)
                     /\ LockOf(b) \in Branch(b) /\ CommitOf(b) \in Branch(b)
                     /\ Branch(b) \subseteq Tree
                     /\ \A a \in Branch(b) : Branch(a) \subseteq Branch(b)
<1>1. b0 \in Tree /\ Height(b0) = 0 /\ \A b \in Tree : Height(b) \in Nat
  BY AncestryOrder
<1>2. Block \subseteq Tree /\ \A b \in Blocks : b \in Tree /\ b # b0
  BY <1>1, BlocksAssumption DEF Block
<1>3. ASSUME NEW b \in Tree
      PROVE  /\ b \in Branch(b) /\ b0 \in Branch(b) /\ QcRef(b) \in Branch(b)
             /\ LockOf(b) \in Branch(b) /\ CommitOf(b) \in Branch(b)
             /\ Branch(b) \subseteq Tree
             /\ \A a \in Branch(b) : Branch(a) \subseteq Branch(b)
  <2>1. /\ b \in Branch(b) /\ b0 \in Branch(b) /\ QcRef(b) \in Branch(b)
        /\ Branch(b) \subseteq Tree
        /\ \A a \in Branch(b) : Branch(a) \subseteq Branch(b)
    BY BranchFacts
  <2>2. /\ LockOf(b) \in Tree /\ check_ancestry(LockOf(b), b)
        /\ CommitOf(b) \in Tree /\ check_ancestry(CommitOf(b), LockOf(b))
    BY LockOfFacts
  <2>3. LockOf(b) \in Branch(b) /\ CommitOf(b) \in Branch(LockOf(b))
    BY <2>2, BranchIsAncestry
  <2> QED BY <2>1, <2>3
<1> QED BY <1>1, <1>2, <1>3 DEF Block

\* What is delivered is closed under ancestors.
Closed(D) == b0 \in D /\ \A b \in D : Branch(b) \subseteq D

\* The leaves after b and its missing ancestors have been delivered.
LEMMA LeavesGrow ==
  ASSUME NEW D \in SUBSET Tree, Closed(D), NEW b \in Tree, b # b0, b \notin D
  PROVE  LET new == Branch(b) \ D IN
         /\ Leaves(D \cup new) = (Leaves(D) \ {Parent(n) : n \in new}) \cup {b}
         /\ b \in new /\ Parent(b) \in {Parent(n) : n \in new}
<1> DEFINE new == Branch(b) \ D
           E == D \cup new
           parents == {Parent(n) : n \in new}
<1>1. /\ Branch(b) \subseteq Tree /\ b \in Branch(b)
      /\ \A a \in Branch(b) : Height(a) \in Nat /\ Height(a) <= Height(b)
      /\ \A a, c \in Branch(b) : Height(a) = Height(c) => a = c
      /\ \A a \in Branch(b) : Branch(a) \subseteq Branch(b)
  BY BranchFacts
<1>2. b \in new /\ b0 \notin new
  BY <1>1 DEF Closed
<1>3. \A n \in E \ {b0} : /\ n \in Tree /\ Parent(n) \in Branch(n)
                          /\ Height(Parent(n)) = Height(n) - 1
  BY <1>1, ParentInBranch
<1>4. ASSUME NEW a \in new, a # b
      PROVE  a \in parents
  \* The block of the branch one above a.
  <2> DEFINE c == WalkDown(b, Height(a) + 1)
  <2>1. Height(a) \in Nat /\ Height(a) < Height(b) /\ Height(b) \in Nat
    BY <1>1, <1>4
  <2>2. /\ c \in Tree /\ Height(c) = Height(a) + 1
        /\ check_ancestry(c, b)
    <3> DEFINE h == Height(a) + 1
    <3>1. h \in Nat /\ (Height(b) > h \/ Height(b) = h)
      BY <2>1
    <3> HIDE DEF h
    <3>2. check_ancestry(WalkDown(b, h), b)
      BY <3>1, WalkDownIsAncestor
    <3>3. WalkDown(b, h) \in Tree /\ Height(WalkDown(b, h)) = h
      BY <3>1, WalkDownFacts
    <3> QED BY <3>2, <3>3 DEF h
  <2>3. c \in Branch(b)
    BY <2>2, BranchIsAncestry
  <2> HIDE DEF c
  <2>4. c # b0
    BY <2>1, <2>2, AncestryOrder
  <2>5. Parent(c) \in Branch(c) /\ Height(Parent(c)) = Height(a)
    BY <2>1, <2>2, <2>4, ParentInBranch
  <2>6. Parent(c) = a
    BY <1>1, <2>3, <2>5
  <2>7. c \notin D
    BY <2>5, <2>6 DEF Closed
  <2> QED BY <2>3, <2>6, <2>7
<1>5. ASSUME NEW n \in E \ {b0}
      PROVE  Parent(n) # b
  <2>1. CASE n \in D
    BY <1>3, <2>1 DEF Closed
  <2>2. CASE n \in new
    BY <1>1, <1>3, <2>2
  <2> QED BY <2>1, <2>2
<1> HIDE DEF new, parents
<1>6. ASSUME NEW a \in Leaves(E)
      PROVE  a \in (Leaves(D) \ parents) \cup {b}
  <2>1. a \in E /\ \A c \in E \ {b0} : Parent(c) # a
    BY DEF Leaves
  <2>2. a \notin parents
    BY <1>2, <2>1 DEF parents
  <2>3. CASE a \in D
    BY <2>1, <2>2, <2>3 DEF Leaves
  <2>4. CASE a \in new
    BY <1>4, <2>2, <2>4
  <2> QED BY <2>1, <2>3, <2>4
<1>7. ASSUME NEW a \in (Leaves(D) \ parents) \cup {b}
      PROVE  a \in Leaves(E)
  <2>1. CASE a = b
    BY <1>2, <1>5, <2>1 DEF Leaves
  <2>2. CASE a \in Leaves(D) \ parents
    BY <2>2 DEF Leaves, parents
  <2> QED BY <2>1, <2>2
<1> QED BY <1>2, <1>6, <1>7 DEF new, parents

\* RepInv, but that the parent of b may be missing from the tails.
RepInvBut(s, b) ==
  /\ Closed(s.delivered)
  /\ {s.hqc, s.hqc_tail, s.b_lock, s.b_exec} \subseteq s.delivered
  /\ check_ancestry(s.hqc, s.hqc_tail)
  /\ s.tails \subseteq Leaves(s.delivered)
  /\ Leaves(s.delivered) \subseteq s.tails \cup {Parent(b)}
  /\ s.decision = Branch(s.b_exec)
  /\ \A v \in s.voted : v[1] \in s.delivered /\ Height(v[1]) <= s.vheight

\* All fields but `delivered` and `tails`.
SameRest(t, s) ==
  /\ t.decision = s.decision /\ t.voted = s.voted /\ t.vheight = s.vheight
  /\ t.hqc = s.hqc /\ t.b_lock = s.b_lock /\ t.b_exec = s.b_exec
  /\ t.hqc_tail = s.hqc_tail /\ t.halted = s.halted

LEMMA DeliverKeeps ==
  ASSUME NEW s \in Replica, NEW b \in Block, b # b0, RepInvBut(s, b),
         Branch(b) \subseteq Block
  PROVE  LET t == on_deliver_blk(s, b) IN
         /\ t \in Replica
         /\ RepInv(t)
         /\ t.delivered = s.delivered \cup Branch(b)
         /\ SameRest(t, s)
<1> DEFINE new == Branch(b) \ s.delivered
           t == on_deliver_blk(s, b)
           tails == (s.tails \ {Parent(n) : n \in new}) \cup (IF new = {} THEN {} ELSE {b})
<1>1. t = [s EXCEPT !.delivered = @ \cup new, !.tails = tails]
  BY DEF on_deliver_blk, Replica
<1>2. /\ s.delivered \in SUBSET Block /\ s.tails \in SUBSET Block /\ b \in Tree
      /\ s.delivered \in SUBSET Tree
  BY BlockFacts DEF Replica
<1>3. b \in Branch(b) /\ \A a \in Branch(b) : Branch(a) \subseteq Branch(b)
  BY <1>2, BlockFacts
<1>4. s.delivered \cup new \in SUBSET Block /\ tails \in SUBSET Block
  BY <1>2
<1> HIDE DEF tails
<1>5. t \in Replica
  <2> HIDE DEF new
  <2> QED BY <1>1, <1>4 DEF Replica
<1>6. t.delivered = s.delivered \cup new /\ t.tails = tails /\ SameRest(t, s)
  BY <1>1 DEF Replica, SameRest
<1>7. tails = Leaves(s.delivered \cup new)
  <2>1. CASE b \in s.delivered
    <3>1. new = {}
      BY <2>1 DEF RepInvBut, Closed
    <3>2. Parent(b) \notin Leaves(s.delivered)
      BY <2>1 DEF Leaves
    <3>3. tails = s.tails /\ s.delivered \cup new = s.delivered
      BY <3>1 DEF tails
    <3>4. s.tails = Leaves(s.delivered)
      BY <3>2 DEF RepInvBut
    <3> QED BY <3>3, <3>4
  <2>2. CASE b \notin s.delivered
    <3>1. /\ Leaves(s.delivered \cup new)
               = (Leaves(s.delivered) \ {Parent(n) : n \in new}) \cup {b}
          /\ b \in new /\ Parent(b) \in {Parent(n) : n \in new}
      BY <1>2, <2>2, LeavesGrow DEF RepInvBut
    <3>2. Leaves(s.delivered) \ {Parent(n) : n \in new} = s.tails \ {Parent(n) : n \in new}
      <4> HIDE DEF new
      <4> QED BY <3>1 DEF RepInvBut
    <3> QED BY <3>1, <3>2 DEF tails
  <2> QED BY <2>1, <2>2
<1> HIDE DEF t
<1>8. RepInv(t)
  <2>1. /\ b0 \in t.delivered
        /\ {t.hqc, t.hqc_tail, t.b_lock, t.b_exec} \subseteq t.delivered
        /\ check_ancestry(t.hqc, t.hqc_tail)
        /\ t.tails = Leaves(t.delivered)
        /\ t.decision = Branch(t.b_exec)
        /\ \A v \in t.voted : v[1] \in t.delivered /\ Height(v[1]) <= t.vheight
    BY <1>6, <1>7 DEF RepInvBut, Closed, SameRest
  <2>2. \A a \in t.delivered : Branch(a) \subseteq t.delivered
    BY <1>3, <1>6 DEF RepInvBut, Closed
  <2> QED BY <2>1, <2>2 DEF RepInv
<1> QED BY <1>5, <1>6, <1>8 DEF t

\* t may have another hqc, and with it another hqc_tail, than s.
OtherHqc(t, s) ==
  /\ t.delivered = s.delivered /\ t.tails = s.tails /\ t.decision = s.decision
  /\ t.voted = s.voted /\ t.vheight = s.vheight /\ t.b_lock = s.b_lock
  /\ t.b_exec = s.b_exec /\ t.halted = s.halted

\* hqc rises to b, or stays where it is.
HqcMoves(s, t, b) ==
  \/ t.hqc = s.hqc
  \/ t.hqc = b /\ Height(b) > Height(s.hqc)

LEMMA UpdateHqcKeeps ==
  ASSUME NEW s \in Replica, RepInv(s), NEW b \in s.delivered, NEW t \in update_hqc(s, b)
  PROVE  /\ t \in Replica /\ RepInv(t) /\ OtherHqc(t, s)
         /\ HqcMoves(s, t, b) /\ Height(t.hqc) >= Height(b)
<1>1. /\ s.delivered \subseteq Block /\ Block \subseteq Tree /\ s.hqc \in s.delivered
      /\ \A c \in Tree : Height(c) \in Nat /\ check_ancestry(c, c)
  BY BlockFacts, AncestryOrder DEF Replica, RepInv
<1>2. CASE ~(Height(b) > Height(s.hqc))
  <2>1. t = s
    BY <1>2 DEF update_hqc
  <2>2. Height(s.hqc) >= Height(b)
    BY <1>1, <1>2
  <2> QED BY <2>1, <2>2 DEF OtherHqc, HqcMoves
<1>3. CASE Height(b) > Height(s.hqc)
  <2>1. PICK tail \in HighTails(s, b) : t = [s EXCEPT !.hqc = b, !.hqc_tail = tail]
    BY <1>3 DEF update_hqc
  <2>2. tail \in s.delivered /\ check_ancestry(b, tail)
    BY <1>1 DEF HighTails, RepInv, Leaves
  <2>3. t.hqc = b /\ t.hqc_tail = tail /\ OtherHqc(t, s)
    BY <2>1 DEF Replica, OtherHqc
  <2>4. t \in Replica
    BY <1>1, <2>1, <2>2 DEF Replica
  <2>5. RepInv(t)
    BY <2>2, <2>3 DEF RepInv, OtherHqc
  <2>6. Height(t.hqc) >= Height(b)
    BY <1>1, <2>3
  <2> QED BY <1>3, <2>3, <2>4, <2>5, <2>6 DEF HqcMoves
<1> QED BY <1>2, <1>3

\* What update(n) does to b_lock, whether it reaches the commit, and whether
\* that one fails.
LockAfter(s, n) ==
  IF \/ QcRef(n) \in s.decision
     \/ LockOf(n) \in s.decision
     \/ Height(LockOf(n)) <= Height(s.b_lock)
  THEN s.b_lock
  ELSE LockOf(n)

MayCommit(s, n) ==
  /\ QcRef(n) \notin s.decision
  /\ LockOf(n) \notin s.decision
  /\ CommitOf(n) \notin s.decision
  /\ DirectParents(n)

Fails(s, n) == MayCommit(s, n) /\ ~check_ancestry(s.b_exec, CommitOf(n))

ExecAfter(s, n) == IF MayCommit(s, n) /\ ~Fails(s, n) THEN CommitOf(n) ELSE s.b_exec

LEMMA UpdateKeeps ==
  ASSUME NEW s \in Replica, RepInv(s), NEW n \in s.delivered, NEW u \in update(s, n)
  PROVE  /\ u \in Replica /\ RepInv(u)
         /\ u.delivered = s.delivered /\ u.voted = s.voted /\ u.vheight = s.vheight
         /\ u.b_lock = LockAfter(s, n)
         /\ u.b_exec = ExecAfter(s, n)
         /\ u.halted = IF Fails(s, n) THEN "safety_breached" ELSE s.halted
         /\ HqcMoves(s, u, QcRef(n))
         /\ QcRef(n) \notin s.decision => Height(u.hqc) >= Height(QcRef(n))
<1>1. /\ s.delivered \subseteq Block /\ Block \subseteq Tree /\ n \in Tree
      /\ \A c \in Tree : Height(c) \in Nat
  BY BlockFacts DEF Replica
<1>2. QcRef(n) \in s.delivered /\ LockOf(n) \in s.delivered /\ CommitOf(n) \in s.delivered
  BY <1>1, BlockFacts DEF RepInv
<1>3. CASE QcRef(n) \in s.decision
  BY <1>3 DEF update, LockAfter, ExecAfter, MayCommit, Fails, HqcMoves
<1>4. CASE QcRef(n) \notin s.decision
  <2> DEFINE After(v) ==
        IF LockOf(n) \in s.decision THEN v
        ELSE LET v2 == Lock(v, LockOf(n)) IN
             IF CommitOf(n) \in s.decision \/ ~DirectParents(n) THEN v2
             ELSE Commit(v2, CommitOf(n))
  <2>1. PICK s1 \in update_hqc(s, QcRef(n)) : u = After(s1)
    BY <1>4 DEF update
  <2>2. /\ s1 \in Replica /\ RepInv(s1)
        /\ HqcMoves(s, s1, QcRef(n)) /\ Height(s1.hqc) >= Height(QcRef(n))
    BY <1>2, UpdateHqcKeeps
  <2>3. OtherHqc(s1, s)
    BY <1>2, UpdateHqcKeeps
  <2> DEFINE s2 == Lock(s1, LockOf(n))
  <2>4. s2 = [s1 EXCEPT !.b_lock = IF Height(LockOf(n)) > Height(s1.b_lock)
                                   THEN LockOf(n) ELSE @]
    BY <2>2 DEF Lock, Replica
  <2>5. /\ s2.b_lock = IF Height(LockOf(n)) > Height(s1.b_lock) THEN LockOf(n) ELSE s1.b_lock
        /\ s2.hqc = s1.hqc /\ s2.hqc_tail = s1.hqc_tail /\ s2.delivered = s1.delivered
        /\ s2.tails = s1.tails /\ s2.decision = s1.decision /\ s2.voted = s1.voted
        /\ s2.vheight = s1.vheight /\ s2.b_exec = s1.b_exec /\ s2.halted = s1.halted
    BY <2>2, <2>4 DEF Replica
  <2>6. s2 \in Replica
    <3>1. LockOf(n) \in Block /\ s1.b_lock \in Block
      BY <1>1, <1>2, <2>2 DEF Replica
    <3> QED BY <2>2, <2>4, <3>1 DEF Replica
  <2> HIDE DEF s2
  <2>7. RepInv(s2)
    <3>1. s2.b_lock \in s2.delivered
      BY <1>2, <2>2, <2>3, <2>5 DEF RepInv, OtherHqc
    <3> QED BY <2>2, <2>5, <3>1 DEF RepInv
  <2>8. CASE LockOf(n) \in s.decision
    <3>1. u = s1
      BY <2>1, <2>8
    <3>2. /\ LockAfter(s, n) = s.b_lock /\ ExecAfter(s, n) = s.b_exec /\ ~Fails(s, n)
      BY <2>8 DEF LockAfter, ExecAfter, Fails, MayCommit
    <3> QED BY <2>2, <2>3, <3>1, <3>2 DEF OtherHqc
  <2>9. ASSUME LockOf(n) \notin s.decision
        PROVE  s2.b_lock = LockAfter(s, n)
    <3>1. Height(s.b_lock) \in Nat /\ Height(LockOf(n)) \in Nat
      BY <1>1, <1>2 DEF Replica
    <3> QED BY <1>4, <2>3, <2>5, <2>9, <3>1 DEF LockAfter, OtherHqc
  <2>10. CASE LockOf(n) \notin s.decision /\ ~MayCommit(s, n)
    <3>1. CommitOf(n) \in s.decision \/ ~DirectParents(n)
      BY <1>4, <2>10 DEF MayCommit
    <3>2. u = s2
      BY <2>1, <2>10, <3>1 DEF s2
    <3>3. ExecAfter(s, n) = s.b_exec /\ ~Fails(s, n)
      BY <2>10 DEF ExecAfter, Fails
    <3>4. HqcMoves(s, u, QcRef(n)) /\ Height(u.hqc) >= Height(QcRef(n))
      BY <2>2, <2>5, <3>2 DEF HqcMoves
    <3> QED BY <2>3, <2>5, <2>6, <2>7, <2>9, <2>10, <3>2, <3>3, <3>4 DEF OtherHqc
  <2>11. CASE LockOf(n) \notin s.decision /\ MayCommit(s, n)
    <3> DEFINE blk == CommitOf(n)
    <3>1. u = Commit(s2, blk)
      BY <2>1, <2>11 DEF s2, MayCommit
    <3>2. s2.b_exec = s.b_exec /\ s2.halted = s.halted /\ s2.decision = s.decision
          /\ s2.delivered = s.delivered /\ s2.voted = s.voted /\ s2.vheight = s.vheight
      BY <2>3, <2>5 DEF OtherHqc
    <3>3. CASE Fails(s, n)
      <4>1. u = [s2 EXCEPT !.halted = "safety_breached"]
        BY <3>1, <3>2, <3>3 DEF Commit, Fails
      <4>2. /\ u.halted = "safety_breached"
            /\ u.b_lock = s2.b_lock /\ u.hqc = s2.hqc /\ u.hqc_tail = s2.hqc_tail
            /\ u.delivered = s2.delivered /\ u.tails = s2.tails
            /\ u.decision = s2.decision /\ u.voted = s2.voted
            /\ u.vheight = s2.vheight /\ u.b_exec = s2.b_exec
        BY <2>6, <4>1 DEF Replica
      <4>3. u \in Replica
        BY <2>6, <4>1 DEF Replica
      <4>4. RepInv(u)
        BY <2>7, <4>2 DEF RepInv
      <4>5. HqcMoves(s, u, QcRef(n)) /\ Height(u.hqc) >= Height(QcRef(n))
        BY <2>2, <2>5, <4>2 DEF HqcMoves
      <4>6. u.b_lock = LockAfter(s, n) /\ u.b_exec = ExecAfter(s, n)
        BY <2>9, <2>11, <3>2, <3>3, <4>2 DEF ExecAfter
      <4> QED BY <3>2, <3>3, <4>2, <4>3, <4>4, <4>5, <4>6
    <3>4. CASE ~Fails(s, n)
      <4>1. check_ancestry(s.b_exec, blk)
        BY <2>11, <3>4 DEF Fails
      <4>2. u = [s2 EXCEPT !.b_exec = blk, !.decision = @ \cup Branch(blk)]
        BY <3>1, <3>2, <4>1 DEF Commit
      <4>3. /\ u.b_exec = blk /\ u.decision = s2.decision \cup Branch(blk)
            /\ u.halted = s2.halted
            /\ u.b_lock = s2.b_lock /\ u.hqc = s2.hqc /\ u.hqc_tail = s2.hqc_tail
            /\ u.delivered = s2.delivered /\ u.tails = s2.tails
            /\ u.voted = s2.voted /\ u.vheight = s2.vheight
        BY <2>6, <4>2 DEF Replica
      <4>4. blk \in s.delivered /\ Branch(blk) \subseteq s.delivered /\ blk \in Tree
        BY <1>1, <1>2 DEF RepInv
      <4>5. u \in Replica
        <5>1. blk \in Block /\ s2.decision \cup Branch(blk) \in SUBSET Block
          BY <1>1, <2>6, <4>4 DEF Replica
        <5> QED BY <2>6, <4>2, <5>1 DEF Replica
      <4>6. u.decision = Branch(blk)
        <5>1. s.b_exec \in Branch(blk)
          BY <1>1, <4>1, <4>4, BranchIsAncestry DEF Replica
        <5>2. s.decision \subseteq Branch(blk)
          BY <4>4, <5>1, BlockFacts DEF RepInv
        <5> QED BY <3>2, <4>3, <5>2
      <4>7. RepInv(u)
        BY <2>7, <3>2, <4>3, <4>4, <4>6 DEF RepInv
      <4>8. HqcMoves(s, u, QcRef(n)) /\ Height(u.hqc) >= Height(QcRef(n))
        BY <2>2, <2>5, <4>3 DEF HqcMoves
      <4>9. u.b_lock = LockAfter(s, n) /\ u.b_exec = ExecAfter(s, n)
        BY <2>9, <2>11, <3>4, <4>3 DEF ExecAfter
      <4> QED BY <3>2, <3>4, <4>3, <4>5, <4>7, <4>8, <4>9
    <3> QED BY <3>3, <3>4
  <2> QED BY <2>8, <2>10, <2>11
<1> QED BY <1>3, <1>4

LEMMA ConsiderKeeps ==
  ASSUME NEW s \in Replica, RepInv(s), NEW n \in s.delivered
  PROVE  LET t == Consider(s, n) IN
         /\ t \in Replica /\ RepInv(t)
         /\ t.delivered = s.delivered /\ t.voted = s.voted /\ t.halted = s.halted
         /\ t.b_lock = s.b_lock /\ t.b_exec = s.b_exec /\ t.hqc = s.hqc
         /\ t.vheight = IF Opinion(s, n) THEN Height(n) ELSE s.vheight
         /\ s.vheight <= t.vheight
<1> DEFINE t == Consider(s, n)
           height == IF Opinion(s, n) THEN Height(n) ELSE s.vheight
           tail == IF check_ancestry(s.hqc, n) /\ Height(n) > Height(s.hqc_tail)
                   THEN n ELSE s.hqc_tail
<1>1. t = [s EXCEPT !.vheight = height, !.hqc_tail = tail]
  BY DEF Consider, Replica
<1>2. /\ s.delivered \subseteq Block /\ n \in Tree /\ Height(n) \in Nat /\ s.vheight \in Nat
      /\ s.hqc_tail \in s.delivered /\ check_ancestry(s.hqc, s.hqc_tail)
  BY BlockFacts DEF Replica, RepInv
<1>3. height \in Nat /\ s.vheight <= height /\ tail \in s.delivered /\ check_ancestry(s.hqc, tail)
  BY <1>2 DEF Opinion
<1> HIDE DEF height, tail
<1>4. t \in Replica
  BY <1>1, <1>2, <1>3 DEF Replica
<1>5. /\ t.vheight = height /\ t.hqc_tail = tail
      /\ t.delivered = s.delivered /\ t.tails = s.tails /\ t.decision = s.decision
      /\ t.voted = s.voted /\ t.hqc = s.hqc /\ t.b_lock = s.b_lock
      /\ t.b_exec = s.b_exec /\ t.halted = s.halted
  BY <1>1 DEF Replica
<1> HIDE DEF t
<1>6. \A v \in t.voted : v[1] \in t.delivered /\ Height(v[1]) <= t.vheight
  <2> SUFFICES ASSUME NEW v \in s.voted
               PROVE  v[1] \in s.delivered /\ Height(v[1]) <= height
    BY <1>5
  <2>1. v[1] \in s.delivered /\ Height(v[1]) <= s.vheight
    BY DEF RepInv
  <2>2. Height(v[1]) \in Nat
    BY <1>2, <2>1, BlockFacts
  <2> QED BY <1>2, <1>3, <2>1, <2>2
<1>7. RepInv(t)
  BY <1>3, <1>5, <1>6 DEF RepInv
<1> QED BY <1>3, <1>4, <1>5, <1>7 DEF t, height

\* The counting of a vote of q for b, a delivered block that the replica has
\* voted up to.
LEMMA CountKeeps ==
  ASSUME NEW s \in Replica, RepInv(s), NEW q \in Replicas, NEW b \in s.delivered,
         Height(b) <= s.vheight, NEW t \in on_receive_vote(s, q, b)
  PROVE  /\ t \in Replica /\ RepInv(t)
         /\ t.delivered = s.delivered /\ t.halted = s.halted /\ t.vheight = s.vheight
         /\ t.b_lock = s.b_lock /\ t.b_exec = s.b_exec
         /\ s.voted \subseteq t.voted /\ t.voted \subseteq s.voted \cup {<<b, q>>}
         /\ ~Authorized(VotersAt(s, b)) => <<b, q>> \in t.voted
         /\ HqcMoves(s, t, b)
         /\ t.hqc # s.hqc => Authorized(VotersAt(t, b))
<1> DEFINE s1 == [s EXCEPT !.voted = @ \cup {<<b, q>>}]
<1>1. /\ s1.voted = s.voted \cup {<<b, q>>}
      /\ s1.delivered = s.delivered /\ s1.tails = s.tails /\ s1.decision = s.decision
      /\ s1.vheight = s.vheight /\ s1.hqc = s.hqc /\ s1.b_lock = s.b_lock
      /\ s1.b_exec = s.b_exec /\ s1.hqc_tail = s.hqc_tail /\ s1.halted = s.halted
  BY DEF Replica
<1>2. s1 \in Replica
  <2>1. s.voted \cup {<<b, q>>} \in SUBSET (Block \X Replicas)
    BY DEF Replica
  <2> QED BY <2>1 DEF Replica
<1> HIDE DEF s1
<1>3. RepInv(s1)
  BY <1>1 DEF RepInv
<1>4. CASE t = s /\ (Authorized(VotersAt(s, b)) \/ <<b, q>> \in s.voted)
  BY <1>4 DEF HqcMoves
<1>5. CASE t = s1
  BY <1>1, <1>2, <1>3, <1>5 DEF HqcMoves
<1>6. CASE t \in update_hqc(s1, b) /\ Authorized(VotersAt(s1, b))
  <2>1. t \in Replica /\ RepInv(t) /\ OtherHqc(t, s1) /\ HqcMoves(s1, t, b)
    BY <1>1, <1>2, <1>3, <1>6, UpdateHqcKeeps
  <2>2. VotersAt(t, b) = VotersAt(s1, b)
    BY <2>1 DEF VotersAt, OtherHqc
  <2>3. HqcMoves(s, t, b)
    BY <1>1, <2>1 DEF HqcMoves
  <2> QED BY <1>1, <1>6, <2>1, <2>2, <2>3 DEF OtherHqc
<1> QED BY <1>4, <1>5, <1>6 DEF on_receive_vote, s1

-----------------------------------------------------------------------------
(***************************************************************************)
(* The operators of ChainVoting, in terms of the records.                  *)
(***************************************************************************)

LEMMA SameTree ==
  /\ VP!b0 = b0 /\ VP!Tree = Tree /\ VP!Correct = Replicas
  /\ \A b : /\ VP!Height(b) = Height(b) /\ VP!Parent(b) = Parent(b)
            /\ VP!QcRef(b) = QcRef(b) /\ VP!LockOf(b) = LockOf(b)
            /\ VP!CommitOf(b) = CommitOf(b)
            /\ VP!DirectParents(b) <=> DirectParents(b)
  /\ \A a, b : VP!check_ancestry(a, b) <=> check_ancestry(a, b)
<1>1. VP!b0 = b0 /\ VP!Tree = Tree /\ VP!Correct = Replicas
  BY DEF VP!b0, b0, VP!Tree, Tree, VP!Content, Content, VP!Correct
<1>2. /\ \A b : VP!Height(b) = Height(b)
      /\ \A b, h : VP!WalkDown(b, h) = WalkDown(b, h)
  BY DEF VP!Height, Height, VP!WalkDown, WalkDown
<1>3. /\ \A b : VP!Parent(b) = Parent(b) /\ VP!QcRef(b) = QcRef(b)
      /\ \A a, b : VP!check_ancestry(a, b) <=> check_ancestry(a, b)
  BY <1>1, <1>2 DEF VP!Parent, Parent, VP!QcRef, QcRef, VP!check_ancestry, check_ancestry
<1>4. \A b : VP!LockOf(b) = LockOf(b)
  BY <1>3 DEF VP!LockOf, LockOf
<1>5. \A b : VP!CommitOf(b) = CommitOf(b)
  BY <1>3, <1>4 DEF VP!CommitOf, CommitOf
<1>6. \A b : VP!DirectParents(b) <=> DirectParents(b)
  BY <1>3, <1>4, <1>5 DEF VP!DirectParents, DirectParents
<1> QED BY <1>1, <1>2, <1>3, <1>4, <1>5, <1>6

\* What update(n) does, in the terms of ChainVoting.
LEMMA SameUpdate ==
  ASSUME NEW r \in Replicas, rep[r] \in Replica, RepInv(rep[r]), NEW n \in Tree
  PROVE  /\ VP!NewLock(r, n) = LockAfter(rep[r], n)
         /\ VP!Commits(r, n) <=> MayCommit(rep[r], n)
         /\ VP!Breaches(r, n) <=> Fails(rep[r], n)
<1>1. /\ rep[r].b_exec \in Tree /\ rep[r].decision = Branch(rep[r].b_exec)
      /\ QcRef(n) \in Tree /\ LockOf(n) \in Tree /\ CommitOf(n) \in Tree
  BY BlockFacts, QcRefFacts, LockOfFacts DEF Replica, RepInv
<1>2. Locks[r] = rep[r].b_lock /\ Execs[r] = rep[r].b_exec
  BY DEF Locks, Execs
<1>3. ASSUME NEW b \in Tree
      PROVE  VP!Decided(r, b) <=> b \in rep[r].decision
  <2>1. VP!Decided(r, b) <=> check_ancestry(b, rep[r].b_exec)
    BY <1>2, SameTree DEF VP!Decided
  <2> QED BY <1>1, <2>1, BranchIsAncestry
<1>4. VP!NewLock(r, n) = LockAfter(rep[r], n)
  BY <1>1, <1>2, <1>3, SameTree DEF VP!NewLock, LockAfter
<1>5. VP!Commits(r, n) <=> MayCommit(rep[r], n)
  BY <1>1, <1>3, SameTree DEF VP!Commits, MayCommit
<1>6. VP!Breaches(r, n) <=> Fails(rep[r], n)
  BY <1>2, <1>5, SameTree DEF VP!Breaches, Fails
<1> QED BY <1>4, <1>5, <1>6

\* Does the record s, once it has handled update(n), vote for n?
Votes(s, n) ==
  /\ ~Fails(s, n)
  /\ Height(n) > s.vheight
  /\ \/ Height(QcRef(n)) > Height(LockAfter(s, n))
     \/ check_ancestry(LockAfter(s, n), n)

\* A handler that leaves w at r has handled n as the voting rules do.
LEMMA HandleMaps ==
  ASSUME rep \in [Replicas -> Replica], NEW r \in Replicas, RepInv(rep[r]), NEW n \in Tree,
         rep[r].halted = "no", NEW w \in Replica, rep' = [rep EXCEPT ![r] = w],
         w.b_lock = LockAfter(rep[r], n), w.b_exec = ExecAfter(rep[r], n),
         w.halted = "safety_breached" <=> Fails(rep[r], n),
         w.vheight = IF Votes(rep[r], n) THEN Height(n) ELSE rep[r].vheight,
         Cast' = IF Votes(rep[r], n) THEN Cast \cup {<<r, n>>} ELSE Cast
  PROVE  VP!Handle(r, n)
<1> DEFINE s == rep[r]
<1>1. s \in Replica /\ rep'[r] = w /\ \A q \in Replicas \ {r} : rep'[q] = rep[q]
  OBVIOUS
<1>2. /\ VP!NewLock(r, n) = LockAfter(s, n)
      /\ VP!Commits(r, n) <=> MayCommit(s, n)
      /\ VP!Breaches(r, n) <=> Fails(s, n)
  BY <1>1, SameUpdate
<1>3. /\ Locks' = [Locks EXCEPT ![r] = w.b_lock]
      /\ Execs' = [Execs EXCEPT ![r] = w.b_exec]
      /\ VHeights' = [VHeights EXCEPT ![r] = w.vheight]
  BY <1>1 DEF Locks, Execs, VHeights
<1>4. /\ Breached' = IF Fails(s, n) THEN Breached \cup {r} ELSE Breached
      /\ r \notin Breached
  BY <1>1 DEF Breached
<1>5. VHeights[r] = s.vheight /\ Execs[r] = s.b_exec /\ Execs = [Execs EXCEPT ![r] = s.b_exec]
      /\ VHeights = [VHeights EXCEPT ![r] = s.vheight]
  BY DEF VHeights, Execs
<1> HIDE DEF s
<1>6. VP!Update(r, n)
  <2>1. Execs' = IF VP!Commits(r, n) /\ ~VP!Breaches(r, n)
                 THEN [Execs EXCEPT ![r] = VP!CommitOf(n)] ELSE Execs
    BY <1>2, <1>3, <1>5, SameTree DEF ExecAfter, s
  <2>2. Locks' = [Locks EXCEPT ![r] = VP!NewLock(r, n)]
    BY <1>2, <1>3 DEF s
  <2>3. Breached' = IF VP!Breaches(r, n) THEN Breached \cup {r} ELSE Breached
    BY <1>2, <1>4
  <2> QED BY <2>1, <2>2, <2>3 DEF VP!Update
<1>7. VP!VotesFor(r, n) <=> Votes(s, n)
  BY <1>2, <1>5, SameTree DEF VP!VotesFor, Votes
<1>8. r \in VP!Correct \ Breached
  BY <1>4, SameTree
<1>9. CASE Votes(s, n)
  <2>1. VHeights' = [VHeights EXCEPT ![r] = VP!Height(n)] /\ Cast' = Cast \cup {<<r, n>>}
    BY <1>3, <1>9, SameTree DEF s
  <2> QED BY <1>6, <1>7, <1>8, <1>9, <2>1 DEF VP!Handle
<1>10. CASE ~Votes(s, n)
  <2>1. VHeights' = VHeights /\ Cast' = Cast
    BY <1>3, <1>5, <1>10 DEF s
  <2> QED BY <1>6, <1>7, <1>8, <1>10, <2>1 DEF VP!Handle
<1> QED BY <1>9, <1>10

-----------------------------------------------------------------------------
(***************************************************************************)
(* The steps of the system.                                                *)
(***************************************************************************)

FullInv == CoreInv /\ VP!IInv

\* Certified, given the votes C.
Cert(b, C) == b = b0 \/ Authorized({q \in Replicas : <<q, b>> \in C})

LEMMA CertFacts ==
  /\ \A b : VP!Certified(b) <=> Cert(b, Cast)
  /\ HqcCertified <=> \A r \in Replicas : Cert(rep[r].hqc, Cast)
  /\ HqcCertified' <=> \A r \in Replicas : Cert(rep'[r].hqc, Cast')
  /\ \A b, C, D : C \subseteq D /\ Cert(b, C) => Cert(b, D)
<1>1. \A b : VP!Certified(b) <=> Cert(b, Cast)
  BY SameTree DEF VP!Certified, VP!Authorized, VP!Voters, Cert, Authorized
<1>2. Voting!b0 = b0
  BY DEF Voting!b0, b0
<1>3. HqcCertified <=> \A r \in Replicas : Cert(rep[r].hqc, Cast)
  BY <1>2 DEF HqcCertified, Voting!Certified, Voting!Authorized, Voting!Voters, Cert, Authorized
<1>4. HqcCertified' <=> \A r \in Replicas : Cert(rep'[r].hqc, Cast')
  BY <1>2 DEF HqcCertified, Voting!Certified, Voting!Authorized, Voting!Voters, Cert, Authorized
<1>5. ASSUME NEW b, NEW C, NEW D, C \subseteq D, Cert(b, C)
      PROVE  Cert(b, D)
  <2>1. {q \in Replicas : <<q, b>> \in C} \subseteq {q \in Replicas : <<q, b>> \in D}
    BY <1>5
  <2> QED BY <1>5, <2>1 DEF Cert, Authorized
<1> QED BY <1>1, <1>3, <1>4, <1>5

\* What follows from the invariant of ChainVoting about the created blocks.
LEMMA VotingFacts ==
  ASSUME FullInv
  PROVE  /\ \A n \in Created \ {b0} : n[Len(n)].qc < Len(n) /\ Cert(QcRef(n), Cast)
         /\ \A b, c \in Created :
              Cert(b, Cast) /\ Cert(c, Cast) /\ Height(b) = Height(c) => b = c
         /\ Breached = {}
<1>1. VP!TypeOK /\ VP!ChainInv /\ VP!VoteInv /\ VP!NoBreach
  BY DEF FullInv, VP!IInv
<1>2. /\ Blocks \subseteq VP!Tree
      /\ \A Q \in Quorums : Q \subseteq Replicas
      /\ \A Q1, Q2 \in Quorums : Q1 \cap Q2 \cap VP!Correct # {}
  BY BlocksAssumption, QuorumAssumption, SameTree
<1>3. VP!UniqueCertificate
  BY <1>1, <1>2, TwoStepAssumption, VP!UniqueCertificateLemma
<1>4. \A n \in Created \ {b0} : n[Len(n)].qc < Len(n) /\ Cert(QcRef(n), Cast)
  BY <1>1, SameTree, CertFacts DEF VP!ChainInv
<1>5. \A b, c \in Created :
        Cert(b, Cast) /\ Cert(c, Cast) /\ Height(b) = Height(c) => b = c
  BY <1>3, SameTree, CertFacts DEF VP!UniqueCertificate
<1> QED BY <1>1, <1>4, <1>5 DEF VP!NoBreach

LEMMA CreatedFacts ==
  ASSUME TypeOK, \A r \in Replicas : RepInv(rep[r])
  PROVE  /\ Created \subseteq Block /\ Created \subseteq Tree
         /\ \A r \in Replicas : rep[r].delivered \subseteq Created
         /\ \A b \in Created : Branch(b) \subseteq Created
<1>1. \A r \in Replicas : rep[r].delivered \subseteq Block
  BY DEF TypeOK, Replica
<1>2. Created \subseteq Block /\ \A r \in Replicas : rep[r].delivered \subseteq Created
  BY <1>1 DEF Created
<1>3. ASSUME NEW b \in Created
      PROVE  Branch(b) \subseteq Created
  <2>1. PICK r \in Replicas : b \in rep[r].delivered
    BY DEF Created
  <2> QED BY <1>2, <2>1 DEF RepInv
<1> QED BY <1>2, <1>3, BlockFacts

\* hqc stays above the lock, because a block certifies a proper ancestor and,
\* in the two-step build, because no other block as high is certified.
LEMMA AboveLockKeeps ==
  ASSUME NEW s \in Replica, RepInv(s), AboveLock(s), NEW n \in s.delivered, NEW u \in Replica,
         u.b_lock = LockAfter(s, n), HqcMoves(s, u, QcRef(n)),
         QcRef(n) \notin s.decision => Height(u.hqc) >= Height(QcRef(n)),
         QcRef(n) # b0 => Height(QcRef(QcRef(n))) < Height(QcRef(n)),
         Height(s.hqc) = Height(QcRef(n)) => s.hqc = QcRef(n)
  PROVE  AboveLock(u)
<1>1. /\ n \in Tree /\ QcRef(n) \in Tree /\ LockOf(n) \in Tree
      /\ s.hqc \in Tree /\ s.b_lock \in Tree /\ u.hqc \in Tree
      /\ \A b \in Tree : Height(b) \in Nat
  BY BlockFacts, QcRefFacts, LockOfFacts DEF Replica
<1>2. Height(u.hqc) \in Nat /\ Height(s.hqc) \in Nat /\ Height(s.b_lock) \in Nat
      /\ Height(QcRef(n)) \in Nat /\ Height(LockOf(n)) \in Nat
  BY <1>1
<1>3. CASE u.b_lock = s.b_lock
  BY <1>2, <1>3 DEF AboveLock, HqcMoves
<1>4. CASE /\ u.b_lock = LockOf(n) /\ QcRef(n) \notin s.decision
           /\ Height(LockOf(n)) > Height(s.b_lock)
  <2>1. LockOf(n) # b0
    BY <1>2, <1>4, BlockFacts
  <2>2. CASE TwoStep
    <3>1. LockOf(n) = QcRef(n)
      BY <2>2 DEF LockOf
    <3> QED BY <1>2, <1>4, <2>2, <3>1 DEF AboveLock, HqcMoves
  <2>3. CASE ~TwoStep
    <3>1. LockOf(n) = QcRef(QcRef(n))
      BY <2>3 DEF LockOf
    <3>2. QcRef(n) # b0
      BY <2>1, <3>1 DEF QcRef
    <3> QED BY <1>2, <1>4, <3>1, <3>2 DEF AboveLock
  <2> QED BY <2>2, <2>3
<1>5. \/ u.b_lock = s.b_lock
      \/ /\ u.b_lock = LockOf(n) /\ QcRef(n) \notin s.decision
         /\ Height(LockOf(n)) > Height(s.b_lock)
  BY <1>2 DEF LockAfter
<1> QED BY <1>3, <1>4, <1>5

Sent == {<<m.voter, m.blk>> : m \in votemsgs}

Own == {v \in Replicas \X Blocks : <<v[2], v[1]>> \in rep[v[1]].voted}

\* When r counts a vote of q for b.
LEMMA OwnVotes ==
  ASSUME rep \in [Replicas -> Replica], NEW r \in Replicas, NEW w \in Replica,
         rep' = [rep EXCEPT ![r] = w], NEW b \in Blocks, NEW q \in Replicas,
         rep[r].voted \subseteq w.voted, w.voted \subseteq rep[r].voted \cup {<<b, q>>}
  PROVE  /\ Own \subseteq Own' /\ Own' \subseteq Own \cup {<<q, b>>}
         /\ q # r => Own' = Own
         /\ q = r /\ <<b, q>> \in w.voted => <<q, b>> \in Own'
<1>1. rep'[r] = w /\ \A p \in Replicas \ {r} : rep'[p] = rep[p]
  OBVIOUS
<1>2. Own \subseteq Own'
  BY <1>1 DEF Own
<1>3. ASSUME NEW v \in Own', v \notin Own
      PROVE  v = <<q, b>> /\ q = r
  <2>1. /\ v \in Replicas \X Blocks /\ <<v[2], v[1]>> \in rep'[v[1]].voted
        /\ <<v[2], v[1]>> \notin rep[v[1]].voted
    BY <1>3 DEF Own
  <2>2. v[1] = r /\ <<v[2], v[1]>> \in w.voted
    BY <1>1, <2>1
  <2>3. <<v[2], v[1]>> = <<b, q>>
    BY <2>1, <2>2
  <2> QED BY <2>1, <2>2, <2>3
<1>4. q = r /\ <<b, q>> \in w.voted => <<q, b>> \in Own'
  BY <1>1 DEF Own
<1> QED BY <1>2, <1>3, <1>4

\* What every step of r keeps, whatever it does.
LEMMA RecordStep ==
  ASSUME FullInv, NEW r \in Replicas, NEW w \in Replica, RepInv(w),
         rep' = [rep EXCEPT ![r] = w],
         rep[r].delivered \subseteq w.delivered, rep[r].vheight <= w.vheight,
         Cast \subseteq Cast',
         w.hqc = rep[r].hqc \/ Cert(w.hqc, Cast'),
         AboveLock(w)
  PROVE  /\ rep' \in [Replicas -> Replica] /\ rep'[r] = w
         /\ \A q \in Replicas \ {r} : rep'[q] = rep[q]
         /\ \A q \in Replicas : RepInv(rep'[q])
         /\ \A q \in Replicas : /\ rep[q].delivered \subseteq rep'[q].delivered
                                /\ rep[q].vheight <= rep'[q].vheight
         /\ HqcCertified' /\ HqcAboveLock'
<1>1. /\ rep \in [Replicas -> Replica]
      /\ \A q \in Replicas : RepInv(rep[q]) /\ AboveLock(rep[q]) /\ Cert(rep[q].hqc, Cast)
  BY CertFacts DEF FullInv, CoreInv, TypeOK, HqcAboveLock
<1>2. /\ rep' \in [Replicas -> Replica] /\ rep'[r] = w
      /\ \A q \in Replicas \ {r} : rep'[q] = rep[q]
  BY <1>1
<1>3. \A q \in Replicas : rep[q].vheight \in Nat
  BY <1>1 DEF Replica
<1>4. \A q \in Replicas : /\ rep[q].delivered \subseteq rep'[q].delivered
                          /\ rep[q].vheight <= rep'[q].vheight
  BY <1>2, <1>3
<1>5. \A q \in Replicas : RepInv(rep'[q])
  BY <1>1, <1>2
<1>6. HqcCertified'
  <2>1. \A q \in Replicas : Cert(rep[q].hqc, Cast')
    BY <1>1, CertFacts
  <2>2. \A q \in Replicas : Cert(rep'[q].hqc, Cast')
    BY <1>2, <2>1
  <2> QED BY <2>2, CertFacts
<1>7. HqcAboveLock'
  BY <1>1, <1>2 DEF HqcAboveLock
<1> QED BY <1>2, <1>4, <1>5, <1>6, <1>7

\* What has been delivered, after a step of r.
LEMMA SeenStep ==
  ASSUME rep \in [Replicas -> Replica], NEW r \in Replicas, NEW w \in Replica,
         rep' = [rep EXCEPT ![r] = w]
  PROVE  Seen' = [Seen EXCEPT ![r] = w.delivered] /\ Seen[r] = rep[r].delivered
<1>1. Seen' = [q \in Replicas |-> rep'[q].delivered]
  BY DEF Seen
<1>2. \A q \in Replicas : rep'[q].delivered = IF q = r THEN w.delivered ELSE rep[q].delivered
  OBVIOUS
<1> QED BY <1>1, <1>2, Zenon DEF Seen

\* A step of r that only delivers created blocks of others, as the feed does.
LEMMA FeedDeliver ==
  ASSUME TypeOK, \A q \in Replicas : RepInv(rep[q]),
         NEW r \in Replicas, NEW w \in Replica, rep' = [rep EXCEPT ![r] = w], RepInv(w),
         rep[r].delivered \subseteq w.delivered, w.delivered \subseteq Created
  PROVE  Created' = Created /\ [Feed!Next]_<<Created, Seen>>
<1> DEFINE B == w.delivered \ rep[r].delivered
<1>1. rep'[r] = w /\ \A q \in Replicas \ {r} : rep'[q] = rep[q]
  BY DEF TypeOK
<1>2. Created' = Created
  <2>1. \A q \in Replicas : /\ rep[q].delivered \subseteq rep'[q].delivered
                            /\ rep'[q].delivered \subseteq Created
    BY <1>1 DEF Created
  <2> QED BY <2>1 DEF Created
<1>3. Seen' = [Seen EXCEPT ![r] = @ \cup B] /\ Seen[r] = rep[r].delivered
  <2>1. w.delivered = rep[r].delivered \cup B
    OBVIOUS
  <2> HIDE DEF B
  <2>2. Seen' = [Seen EXCEPT ![r] = w.delivered] /\ Seen[r] = rep[r].delivered
    BY SeenStep DEF TypeOK
  <2> QED BY <2>1, <2>2
<1>4. B \subseteq Created \cap Block
  BY DEF Replica
<1>5. \A b \in B : Parent(b) \in rep[r].delivered \cup B
  <2> SUFFICES ASSUME NEW b \in B
               PROVE  Parent(b) \in w.delivered
    OBVIOUS
  <2>1. b \in Tree /\ b # b0
    BY BlockFacts DEF Replica, RepInv
  <2>2. Parent(b) \in Branch(b)
    BY <2>1, ParentInBranch
  <2> QED BY <2>2 DEF RepInv
<1> HIDE DEF B
<1>6. Feed!Deliver(r, B)
  BY <1>2, <1>3, <1>4, <1>5 DEF Feed!Deliver, Feed!Parent, Parent, Feed!WalkDown, WalkDown,
                                Feed!Height, Height
<1>7. B = Seen'[r] \ Seen[r]
  BY <1>1, <1>3 DEF Seen, B
<1>8. Feed!Next
  <2>1. Feed!Deliver(r, Seen'[r] \ Seen[r])
    BY <1>3, <1>6, <1>7
  <2> QED BY <2>1 DEF Feed!Next
<1> QED BY <1>2, <1>8

\* A step of r, which may propose a block above its vheight.
LEMMA CoreInvStep ==
  ASSUME FullInv, NEW r \in Replicas, NEW w \in Replica, RepInv(w),
         rep' = [rep EXCEPT ![r] = w],
         rep[r].delivered \subseteq w.delivered, rep[r].vheight <= w.vheight,
         Cast \subseteq Cast',
         w.hqc = rep[r].hqc \/ Cert(w.hqc, Cast'),
         AboveLock(w),
         NEW N \in SUBSET (Proposers \X Blocks), proposals' = proposals \cup N,
         \A p, q \in N : p = q,
         \A p \in N : /\ p[1] = r /\ p[2] \in w.delivered
                      /\ rep[r].vheight < Height(p[2]) /\ Height(p[2]) <= w.vheight,
         votemsgs' \in SUBSET VoteMsg,
         \A m \in votemsgs' : <<m.to, m.blk>> \in proposals,
         \A v \in w.voted : v \in rep[r].voted \/ <<v[2], v[1]>> \in Cast'
  PROVE  CoreInv'
<1>1. /\ rep' \in [Replicas -> Replica] /\ rep'[r] = w
      /\ \A q \in Replicas \ {r} : rep'[q] = rep[q]
      /\ \A q \in Replicas : RepInv(rep'[q])
  BY RecordStep
<1>2. \A q \in Replicas : /\ rep[q].delivered \subseteq rep'[q].delivered
                          /\ rep[q].vheight <= rep'[q].vheight
  BY RecordStep
<1>3. HqcCertified' /\ HqcAboveLock'
  BY RecordStep
<1>4. TypeOK /\ MessageInv /\ NoEquivocation
  BY DEF FullInv, CoreInv
<1>5. TypeOK'
  BY <1>1, <1>4 DEF TypeOK
<1>6. ASSUME NEW p \in proposals
      PROVE  /\ p[1] \in Replicas
             /\ Height(p[2]) \in Nat
             /\ p[2] \in rep[p[1]].delivered /\ Height(p[2]) <= rep[p[1]].vheight
  BY <1>4, ProposersAssumption, BlockFacts DEF TypeOK, MessageInv
<1>7. MessageInv'
  <2>1. ASSUME NEW p \in proposals
        PROVE  p[2] \in rep'[p[1]].delivered /\ Height(p[2]) <= rep'[p[1]].vheight
    <3>1. rep[p[1]].vheight \in Nat /\ rep'[p[1]].vheight \in Nat
      BY <1>1, <1>4, <1>6 DEF TypeOK, Replica
    <3> QED BY <1>2, <1>6, <3>1
  <2>2. ASSUME NEW p \in N
        PROVE  p[2] \in rep'[p[1]].delivered /\ Height(p[2]) <= rep'[p[1]].vheight
    BY <1>1
  <2>3. ASSUME NEW q \in Replicas, NEW v \in rep'[q].voted
        PROVE  v[1] = b0 \/ <<v[2], v[1]>> \in Cast'
    <3>1. v \in rep[q].voted \/ <<v[2], v[1]>> \in Cast'
      BY <1>1
    <3> QED BY <1>4, <3>1 DEF MessageInv
  <2> QED BY <2>1, <2>2, <2>3 DEF MessageInv
<1>8. NoEquivocation'
  <2>1. ASSUME NEW p \in proposals, NEW q \in N, p[1] = q[1]
        PROVE  Height(p[2]) # Height(q[2])
    <3>1. Height(p[2]) <= rep[r].vheight /\ Height(p[2]) \in Nat
      BY <1>6, <2>1
    <3>2. rep[r].vheight \in Nat /\ Height(q[2]) \in Nat
      BY <1>4, BlockFacts DEF TypeOK, Replica
    <3> QED BY <3>1, <3>2
  <2> QED BY <1>4, <2>1 DEF NoEquivocation
<1> QED BY <1>1, <1>3, <1>5, <1>7, <1>8 DEF CoreInv

\* A step of r that proposes nothing.
LEMMA CoreInvKeeps ==
  ASSUME FullInv, NEW r \in Replicas, NEW w \in Replica, RepInv(w),
         rep' = [rep EXCEPT ![r] = w],
         rep[r].delivered \subseteq w.delivered, rep[r].vheight <= w.vheight,
         Cast \subseteq Cast',
         w.hqc = rep[r].hqc \/ Cert(w.hqc, Cast'),
         AboveLock(w),
         proposals' = proposals, votemsgs' \in SUBSET VoteMsg,
         \A m \in votemsgs' : <<m.to, m.blk>> \in proposals,
         \A v \in w.voted : v \in rep[r].voted \/ <<v[2], v[1]>> \in Cast'
  PROVE  CoreInv'
<1>1. {} \in SUBSET (Proposers \X Blocks) /\ proposals' = proposals \cup {}
  OBVIOUS
<1> QED BY <1>1, CoreInvStep

\* A step that ChainVoting does not see.
LEMMA Invisible ==
  ASSUME rep \in [Replicas -> Replica], NEW r \in Replicas, NEW w \in Replica,
         rep' = [rep EXCEPT ![r] = w],
         w.vheight = rep[r].vheight, w.b_lock = rep[r].b_lock,
         w.b_exec = rep[r].b_exec, w.halted = rep[r].halted,
         Created' = Created, Cast' = Cast
  PROVE  UNCHANGED VP!vars
<1>1. \A q \in Replicas : /\ rep'[q].vheight = rep[q].vheight
                          /\ rep'[q].b_lock = rep[q].b_lock
                          /\ rep'[q].b_exec = rep[q].b_exec
                          /\ rep'[q].halted = rep[q].halted
  OBVIOUS
<1>2. VHeights' = VHeights /\ Locks' = Locks /\ Execs' = Execs /\ Breached' = Breached
  BY <1>1 DEF VHeights, Locks, Execs, Breached
<1> QED BY <1>2 DEF VP!vars

LEMMA ButFromInv ==
  ASSUME NEW s, RepInv(s), NEW b
  PROVE  RepInvBut(s, b)
BY DEF RepInv, RepInvBut, Closed

LEMMA DeliverBlkStep ==
  ASSUME FullInv, NEW r \in Replicas, NEW p \in proposals,
         NEW b \in Branch(p[2]) \ {b0, p[2]}, DeliverBlk(r, b)
  PROVE  CoreInv' /\ UNCHANGED VP!vars /\ [Feed!Next]_<<Created, Seen>>
<1> DEFINE s == rep[r]
           w == on_deliver_blk(s, b)
<1>1. /\ rep \in [Replicas -> Replica] /\ s \in Replica
      /\ \A q \in Replicas : RepInv(rep[q]) /\ AboveLock(rep[q])
      /\ RepInv(s) /\ AboveLock(s)
      /\ TypeOK /\ MessageInv
      /\ p[1] \in Replicas /\ p[2] \in rep[p[1]].delivered
  BY ProposersAssumption DEF FullInv, CoreInv, TypeOK, HqcAboveLock, MessageInv
<1>2. b \in Created /\ b \in Block /\ b # b0 /\ Branch(b) \subseteq Created /\ Branch(b) \subseteq Block
      /\ s.delivered \subseteq Created
  BY <1>1, CreatedFacts
<1>3. /\ w \in Replica /\ RepInv(w)
      /\ w.delivered = s.delivered \cup Branch(b) /\ SameRest(w, s)
  BY <1>1, <1>2, DeliverKeeps, ButFromInv
<1>4. rep' = [rep EXCEPT ![r] = w] /\ UNCHANGED <<proposals, votemsgs>>
  BY DEF DeliverBlk
<1> HIDE DEF w, s
<1>5. Created' = Created /\ [Feed!Next]_<<Created, Seen>>
  BY <1>1, <1>2, <1>3, <1>4, FeedDeliver DEF s
<1>6. Cast' = Cast
  <2>1. \A q \in Replicas : rep'[q].voted = rep[q].voted
    BY <1>1, <1>3, <1>4 DEF s, SameRest
  <2> QED BY <1>4, <2>1 DEF Cast
<1>7. UNCHANGED VP!vars
  BY <1>1, <1>3, <1>4, <1>5, <1>6, Invisible DEF s, SameRest
<1>8. s.vheight \in Nat /\ AboveLock(w)
  BY <1>1, <1>3 DEF Replica, AboveLock, SameRest
<1>9. CoreInv'
  <2>1. /\ rep[r].delivered \subseteq w.delivered /\ rep[r].vheight <= w.vheight
        /\ w.hqc = rep[r].hqc /\ w.voted = rep[r].voted
    BY <1>3, <1>8 DEF s, SameRest
  <2>2. votemsgs' \in SUBSET VoteMsg /\ \A m \in votemsgs' : <<m.to, m.blk>> \in proposals
    BY <1>1, <1>4 DEF TypeOK, MessageInv
  <2> QED BY <1>3, <1>4, <1>6, <1>8, <2>1, <2>2, CoreInvKeeps
<1> QED BY <1>5, <1>7, <1>9

LEMMA ReceiveVoteStep ==
  ASSUME FullInv, NEW r \in Replicas, NEW m \in votemsgs, ReceiveVote(r, m)
  PROVE  CoreInv' /\ UNCHANGED VP!vars /\ [Feed!Next]_<<Created, Seen>>
<1> DEFINE s == rep[r]
           q == m.voter
           b == m.blk
<1>1. /\ rep \in [Replicas -> Replica] /\ s \in Replica
      /\ RepInv(s) /\ AboveLock(s) /\ TypeOK /\ MessageInv
      /\ \A p \in Replicas : RepInv(rep[p])
      /\ q \in Replicas /\ b \in Blocks /\ m.to = r
      /\ <<r, b>> \in proposals
  BY DEF FullInv, CoreInv, TypeOK, HqcAboveLock, MessageInv, VoteMsg, ReceiveVote
<1>2. b \in s.delivered /\ Height(b) <= s.vheight
  BY <1>1 DEF MessageInv
<1>3. PICK w \in on_receive_vote(s, q, b) : rep' = [rep EXCEPT ![r] = w]
  BY DEF ReceiveVote
<1>4. UNCHANGED <<proposals, votemsgs>>
  BY DEF ReceiveVote
<1>5. /\ w \in Replica /\ RepInv(w)
      /\ w.delivered = s.delivered /\ w.halted = s.halted /\ w.vheight = s.vheight
      /\ w.b_lock = s.b_lock /\ w.b_exec = s.b_exec
  <2> HIDE DEF s, q, b
  <2>1. s \in Replica /\ RepInv(s) /\ q \in Replicas
    BY <1>1
  <2>2. w \in Replica /\ RepInv(w)
    BY <1>2, <2>1, CountKeeps
  <2>3. w.delivered = s.delivered /\ w.halted = s.halted /\ w.vheight = s.vheight
    BY <1>2, <2>1, CountKeeps
  <2>4. w.b_lock = s.b_lock /\ w.b_exec = s.b_exec
    BY <1>2, <2>1, CountKeeps
  <2> QED BY <2>2, <2>3, <2>4
<1>6. /\ s.voted \subseteq w.voted /\ w.voted \subseteq s.voted \cup {<<b, q>>}
      /\ HqcMoves(s, w, b)
      /\ w.hqc # s.hqc => Authorized(VotersAt(w, b))
  BY <1>1, <1>2, CountKeeps
<1>7. <<q, b>> \in Cast
  BY DEF Cast
<1> HIDE DEF s, q, b
<1>8. Cast' = Cast
  <2>1. Own \subseteq Own' /\ Own' \subseteq Own \cup {<<q, b>>}
    BY <1>1, <1>3, <1>5, <1>6, OwnVotes DEF s
  <2>2. Cast = Sent \cup Own /\ Cast' = Sent' \cup Own' /\ Sent' = Sent
    BY <1>4 DEF Cast, Sent, Own
  <2> QED BY <1>7, <2>1, <2>2
<1>9. Created' = Created /\ [Feed!Next]_<<Created, Seen>>
  BY <1>1, <1>3, <1>5, CreatedFacts, FeedDeliver DEF s
<1>10. UNCHANGED VP!vars
  BY <1>1, <1>3, <1>5, <1>8, <1>9, Invisible DEF s
<1>11. \A v \in w.voted : v \in rep[r].voted \/ <<v[2], v[1]>> \in Cast'
  BY <1>6, <1>7, <1>8 DEF s
<1>12. w.hqc = s.hqc \/ Cert(w.hqc, Cast')
  <2> SUFFICES ASSUME w.hqc # s.hqc, b # b0
               PROVE  Cert(b, Cast')
    BY <1>6 DEF HqcMoves, Cert
  <2>1. Authorized(VotersAt(w, b))
    BY <1>6
  <2>2. VotersAt(w, b) \subseteq {p \in Replicas : <<p, b>> \in Cast'}
    <3> SUFFICES ASSUME NEW p \in Replicas, <<b, p>> \in w.voted
                 PROVE  <<p, b>> \in Cast'
      BY DEF VotersAt
    <3>1. <<b, p>> \in s.voted \/ <<p, b>> \in Cast'
      BY <1>11 DEF s
    <3> QED BY <1>1, <1>8, <3>1 DEF MessageInv, s
  <2> QED BY <2>1, <2>2 DEF Cert, Authorized
<1>13. AboveLock(w) /\ s.vheight \in Nat
  <2>1. \A c \in {s.hqc, w.hqc, s.b_lock} : Height(c) \in Nat
    BY <1>1, <1>5, BlockFacts DEF Replica
  <2>2. s.vheight \in Nat
    BY <1>1 DEF Replica
  <2> QED BY <1>1, <1>5, <1>6, <2>1, <2>2 DEF AboveLock, HqcMoves
<1>14. CoreInv'
  <2>1. votemsgs' \in SUBSET VoteMsg /\ \A n \in votemsgs' : <<n.to, n.blk>> \in proposals
    BY <1>1, <1>4 DEF TypeOK, MessageInv
  <2>2. /\ rep[r].delivered \subseteq w.delivered /\ rep[r].vheight <= w.vheight
        /\ w.hqc = rep[r].hqc \/ Cert(w.hqc, Cast')
    BY <1>5, <1>12, <1>13 DEF s
  <2> QED BY <1>3, <1>4, <1>5, <1>8, <1>11, <1>13, <2>1, <2>2, CoreInvKeeps
<1> QED BY <1>9, <1>10, <1>14

\* update(n) and what follows it in on_receive_proposal, on the record s.
LEMMA HandleKeeps ==
  ASSUME NEW s \in Replica, RepInv(s), s.halted = "no", NEW n \in s.delivered,
         NEW u \in update(s, n)
  PROVE  LET t == IF u.halted # "no" THEN u ELSE Consider(u, n) IN
         /\ t \in Replica /\ RepInv(t)
         /\ t.delivered = s.delivered /\ t.voted = s.voted
         /\ t.b_lock = LockAfter(s, n) /\ t.b_exec = ExecAfter(s, n)
         /\ t.halted = IF Fails(s, n) THEN "safety_breached" ELSE "no"
         /\ t.vheight = IF Votes(s, n) THEN Height(n) ELSE s.vheight
         /\ s.vheight <= t.vheight
         /\ HqcMoves(s, t, QcRef(n))
         /\ QcRef(n) \notin s.decision => Height(t.hqc) >= Height(QcRef(n))
<1> DEFINE t == IF u.halted # "no" THEN u ELSE Consider(u, n)
<1>1. u \in Replica /\ RepInv(u)
  BY UpdateKeeps
<1>2. u.delivered = s.delivered /\ u.voted = s.voted /\ u.vheight = s.vheight
  BY UpdateKeeps
<1>3. u.b_lock = LockAfter(s, n) /\ u.b_exec = ExecAfter(s, n)
  BY UpdateKeeps
<1>4. u.halted = IF Fails(s, n) THEN "safety_breached" ELSE "no"
  BY UpdateKeeps
<1>5. /\ HqcMoves(s, u, QcRef(n))
      /\ QcRef(n) \notin s.decision => Height(u.hqc) >= Height(QcRef(n))
  BY UpdateKeeps
<1>6. s.vheight \in Nat
  BY DEF Replica
<1>7. CASE Fails(s, n)
  <2>1. t = u /\ ~Votes(s, n)
    BY <1>4, <1>7 DEF Votes
  <2> QED BY <1>1, <1>2, <1>3, <1>4, <1>5, <1>6, <1>7, <2>1
<1>8. CASE ~Fails(s, n)
  <2>1. t = Consider(u, n)
    BY <1>4, <1>8
  <2>2. Opinion(u, n) <=> Votes(s, n)
    BY <1>2, <1>3, <1>8 DEF Opinion, Votes
  <2>3. t \in Replica /\ RepInv(t)
    BY <1>1, <1>2, <2>1, ConsiderKeeps
  <2>4. t.delivered = u.delivered /\ t.voted = u.voted /\ t.halted = u.halted
    BY <1>1, <1>2, <2>1, ConsiderKeeps
  <2>5. t.b_lock = u.b_lock /\ t.b_exec = u.b_exec /\ t.hqc = u.hqc
    BY <1>1, <1>2, <2>1, ConsiderKeeps
  <2>6. t.vheight = (IF Opinion(u, n) THEN Height(n) ELSE u.vheight) /\ u.vheight <= t.vheight
    BY <1>1, <1>2, <2>1, ConsiderKeeps
  <2>7. t.vheight = IF Votes(s, n) THEN Height(n) ELSE s.vheight
    BY <1>2, <2>2, <2>6
  <2> HIDE DEF t
  <2> QED BY <1>2, <1>3, <1>4, <1>5, <2>3, <2>4, <2>5, <2>6, <2>7 DEF HqcMoves, t
<1> QED BY <1>7, <1>8

\* The delivery of n does not change what update(n) does.
LEMMA SameAfter ==
  ASSUME NEW s, NEW c, SameRest(c, s), NEW n
  PROVE  /\ LockAfter(c, n) = LockAfter(s, n) /\ ExecAfter(c, n) = ExecAfter(s, n)
         /\ Fails(c, n) <=> Fails(s, n)
         /\ Votes(c, n) <=> Votes(s, n)
         /\ \A t, b : HqcMoves(c, t, b) <=> HqcMoves(s, t, b)
<1>1. LockAfter(c, n) = LockAfter(s, n)
  BY DEF SameRest, LockAfter
<1>2. MayCommit(c, n) <=> MayCommit(s, n)
  BY DEF SameRest, MayCommit
<1>3. Fails(c, n) <=> Fails(s, n)
  BY <1>2 DEF SameRest, Fails
<1>4. ExecAfter(c, n) = ExecAfter(s, n)
  BY <1>2, <1>3 DEF SameRest, ExecAfter
<1>5. Votes(c, n) <=> Votes(s, n)
  BY <1>1, <1>3 DEF SameRest, Votes
<1>6. \A t, b : HqcMoves(c, t, b) <=> HqcMoves(s, t, b)
  BY DEF SameRest, HqcMoves
<1> QED BY <1>1, <1>3, <1>4, <1>5, <1>6

LEMMA ReceiveProposalStep ==
  ASSUME FullInv, NEW r \in Replicas, NEW p \in proposals, ReceiveProposal(r, p[1], p[2])
  PROVE  CoreInv' /\ VP!Next /\ [Feed!Next]_<<Created, Seen>>
<1> DEFINE s == rep[r]
           n == p[2]
           c == on_deliver_blk(s, n)
<1>1. /\ rep \in [Replicas -> Replica] /\ s \in Replica
      /\ RepInv(s) /\ AboveLock(s) /\ Cert(s.hqc, Cast) /\ TypeOK /\ MessageInv
      /\ \A q \in Replicas : RepInv(rep[q])
      /\ p[1] \in Replicas /\ n \in Blocks /\ n \in rep[p[1]].delivered
      /\ s.halted = "no"
  BY CertFacts, ProposersAssumption
     DEF FullInv, CoreInv, TypeOK, HqcAboveLock, MessageInv, ReceiveProposal, Running
<1>2. /\ n \in Created \ {b0} /\ n \in Tree /\ n \in Block
      /\ Branch(n) \subseteq Created /\ Branch(n) \subseteq Block
      /\ s.delivered \subseteq Created /\ n \in Branch(n) /\ QcRef(n) \in Branch(n)
      /\ Created \subseteq Tree
  BY <1>1, CreatedFacts, BlockFacts
<1>3. c \in Replica /\ RepInv(c)
  BY <1>1, <1>2, DeliverKeeps, ButFromInv
<1>4. c.delivered = s.delivered \cup Branch(n) /\ SameRest(c, s)
  BY <1>1, <1>2, DeliverKeeps, ButFromInv
<1>5. PICK u \in update(c, n) :
        LET w == IF u.halted # "no" THEN u ELSE Consider(u, n) IN
        /\ rep' = [rep EXCEPT ![r] = w]
        /\ votemsgs' = IF u.halted = "no" /\ Opinion(u, n)
                       THEN votemsgs \cup {[voter |-> r, blk |-> n, to |-> p[1]]}
                       ELSE votemsgs
  BY DEF ReceiveProposal
<1> DEFINE w == IF u.halted # "no" THEN u ELSE Consider(u, n)
<1>6. proposals' = proposals
  BY DEF ReceiveProposal
<1> HIDE DEF s, n, c
<1>7. c.halted = "no" /\ n \in c.delivered
  BY <1>1, <1>2, <1>4 DEF SameRest
<1>8. /\ w \in Replica /\ RepInv(w)
      /\ w.delivered = c.delivered /\ w.voted = c.voted
  BY <1>3, <1>7, HandleKeeps
<1>9. /\ w.b_lock = LockAfter(s, n) /\ w.b_exec = ExecAfter(s, n)
      /\ w.halted = IF Fails(s, n) THEN "safety_breached" ELSE "no"
  <2>1. /\ w.b_lock = LockAfter(c, n) /\ w.b_exec = ExecAfter(c, n)
        /\ w.halted = IF Fails(c, n) THEN "safety_breached" ELSE "no"
    BY <1>3, <1>7, HandleKeeps
  <2> HIDE DEF w
  <2> QED BY <1>4, <2>1, SameAfter
<1>10. /\ w.vheight = (IF Votes(s, n) THEN Height(n) ELSE s.vheight)
       /\ s.vheight <= w.vheight
  <2>1. /\ w.vheight = (IF Votes(c, n) THEN Height(n) ELSE c.vheight)
        /\ c.vheight <= w.vheight
    BY <1>3, <1>7, HandleKeeps
  <2> HIDE DEF w
  <2> QED BY <1>4, <2>1, SameAfter DEF SameRest
<1>11. /\ HqcMoves(s, w, QcRef(n))
       /\ QcRef(n) \notin s.decision => Height(w.hqc) >= Height(QcRef(n))
  <2>1. /\ HqcMoves(c, w, QcRef(n))
        /\ QcRef(n) \notin c.decision => Height(w.hqc) >= Height(QcRef(n))
    BY <1>3, <1>7, HandleKeeps
  <2> HIDE DEF w
  <2> QED BY <1>4, <2>1, SameAfter DEF SameRest
<1>12. votemsgs' = IF Votes(s, n)
                   THEN votemsgs \cup {[voter |-> r, blk |-> n, to |-> p[1]]}
                   ELSE votemsgs
  <2>1. u.vheight = c.vheight /\ u.b_lock = LockAfter(c, n)
    BY <1>3, <1>7, UpdateKeeps
  <2>2. u.halted = IF Fails(c, n) THEN "safety_breached" ELSE "no"
    BY <1>3, <1>7, UpdateKeeps
  <2>3. (u.halted = "no" /\ Opinion(u, n)) <=> Votes(c, n)
    BY <2>1, <2>2 DEF Opinion, Votes
  <2> QED BY <1>4, <1>5, <2>3, SameAfter
<1>13. rep' = [rep EXCEPT ![r] = w]
  BY <1>5
<1> HIDE DEF w
<1>14. Cast' = IF Votes(s, n) THEN Cast \cup {<<r, n>>} ELSE Cast
  <2>1. \A q \in Replicas : rep'[q].voted = rep[q].voted
    BY <1>1, <1>4, <1>8, <1>13 DEF s, SameRest
  <2>2. Own' = Own
    BY <2>1 DEF Own
  <2>3. Sent' = IF Votes(s, n) THEN Sent \cup {<<r, n>>} ELSE Sent
    <3>1. \A m \in {[voter |-> r, blk |-> n, to |-> p[1]]} : m.voter = r /\ m.blk = n
      OBVIOUS
    <3> QED BY <1>12, <3>1 DEF Sent
  <2>4. Cast = Sent \cup Own /\ Cast' = Sent' \cup Own'
    BY DEF Cast, Sent, Own
  <2> QED BY <2>2, <2>3, <2>4
<1>15. VP!Handle(r, n)
  <2>1. w.halted = "safety_breached" <=> Fails(s, n)
    BY <1>9
  <2> QED BY <1>1, <1>2, <1>8, <1>9, <1>10, <1>13, <1>14, <2>1, HandleMaps DEF s
<1>16. Created' = Created /\ [Feed!Next]_<<Created, Seen>>
  BY <1>1, <1>2, <1>4, <1>8, <1>13, FeedDeliver DEF s
<1>17. VP!Next
  <2>1. VP!Receive(r, n)
    BY <1>2, <1>15, <1>16, SameTree DEF VP!Receive
  <2> QED BY <1>2, <2>1 DEF VP!Next
<1>18. Cert(QcRef(n), Cast) /\ Cert(QcRef(n), Cast') /\ Cast \subseteq Cast'
  <2>1. Cert(QcRef(n), Cast) /\ Cast \subseteq Cast'
    BY <1>2, <1>14, VotingFacts
  <2> QED BY <2>1, CertFacts
<1>19. AboveLock(w)
  <2>1. HqcMoves(c, w, QcRef(n)) /\ w.b_lock = LockAfter(c, n) /\ AboveLock(c) /\ c.hqc = s.hqc
        /\ c.decision = s.decision
    BY <1>1, <1>4, <1>9, <1>11, SameAfter DEF AboveLock, SameRest
  <2>2. QcRef(n) # b0 => Height(QcRef(QcRef(n))) < Height(QcRef(n))
    <3>1. QcRef(n) # b0 => QcRef(n)[Len(QcRef(n))].qc < Len(QcRef(n))
      BY <1>2, VotingFacts
    <3> QED BY <1>2, <3>1, QcRefFacts
  <2>3. Height(s.hqc) = Height(QcRef(n)) => s.hqc = QcRef(n)
    BY <1>1, <1>2, <1>18, VotingFacts DEF RepInv
  <2> QED BY <1>3, <1>7, <1>8, <1>11, <2>1, <2>2, <2>3, AboveLockKeeps
<1>20. CoreInv'
  <2>1. /\ rep[r].delivered \subseteq w.delivered /\ rep[r].vheight <= w.vheight
        /\ w.hqc = rep[r].hqc \/ Cert(w.hqc, Cast')
        /\ w.voted = rep[r].voted
    BY <1>4, <1>8, <1>10, <1>11, <1>18 DEF s, SameRest, HqcMoves
  <2>2. votemsgs' \in SUBSET VoteMsg /\ \A m \in votemsgs' : <<m.to, m.blk>> \in proposals
    <3>1. votemsgs \in SUBSET VoteMsg /\ \A m \in votemsgs : <<m.to, m.blk>> \in proposals
      BY <1>1 DEF TypeOK, MessageInv
    <3>2. [voter |-> r, blk |-> n, to |-> p[1]] \in VoteMsg
      BY <1>1 DEF VoteMsg
    <3>3. <<p[1], n>> \in proposals
      BY <1>1 DEF TypeOK, n
    <3> QED BY <1>12, <3>1, <3>2, <3>3
  <2> QED BY <1>6, <1>8, <1>13, <1>18, <1>19, <2>1, <2>2, CoreInvKeeps
<1> QED BY <1>16, <1>17, <1>20

\* on_propose creates n and delivers it: it extends hqc_tail and certifies hqc,
\* which is on the same branch.
LEMMA CreateKeeps ==
  ASSUME NEW s \in Replica, RepInv(s), NEW cmds \in Payloads, NEW n \in Blocks,
         n = NewBlock(s.hqc_tail, cmds, s.hqc)
  PROVE  LET c == on_deliver_blk([s EXCEPT !.tails = @ \ {s.hqc_tail}], n) IN
         /\ n \in Tree /\ n # b0 /\ Parent(n) = s.hqc_tail /\ QcRef(n) = s.hqc
         /\ n[Len(n)].qc < Len(n)
         /\ c \in Replica /\ RepInv(c) /\ SameRest(c, s)
         /\ c.delivered = s.delivered \cup {n}
<1> DEFINE s0 == [s EXCEPT !.tails = @ \ {s.hqc_tail}]
<1>1. /\ s.hqc_tail \in s.delivered /\ s.hqc \in s.delivered
      /\ s.delivered \subseteq Block /\ s.delivered \subseteq Tree
      /\ check_ancestry(s.hqc, s.hqc_tail)
  BY BlockFacts DEF RepInv, Replica
<1>2. /\ n \in Tree /\ n # b0 /\ Parent(n) = s.hqc_tail /\ QcRef(n) = s.hqc
      /\ n[Len(n)].qc < Len(n)
  BY <1>1, NewBlockFacts
<1>3. s0 \in Replica
  BY DEF Replica
<1>4. /\ s0.tails = s.tails \ {s.hqc_tail} /\ s0.delivered = s.delivered /\ SameRest(s0, s)
  BY DEF Replica, SameRest
<1> HIDE DEF s0
<1>5. RepInvBut(s0, n)
  BY <1>2, <1>4 DEF RepInv, RepInvBut, Closed, SameRest
<1>6. n \in Branch(n) /\ Branch(n) \subseteq {n} \cup s.delivered
  <2>1. \A a \in Branch(n) : a = n \/ a \in Branch(s.hqc_tail)
    BY <1>2, ParentInBranch
  <2>2. Branch(s.hqc_tail) \subseteq s.delivered
    BY <1>1 DEF RepInv
  <2> QED BY <1>2, <2>1, <2>2, BlockFacts
<1> DEFINE c == on_deliver_blk(s0, n)
<1>7. n \in Block /\ Branch(n) \subseteq Block
  BY <1>1, <1>6 DEF Block
<1>8. /\ c \in Replica /\ RepInv(c) /\ SameRest(c, s0)
      /\ c.delivered = s0.delivered \cup Branch(n)
  BY <1>2, <1>3, <1>5, <1>7, DeliverKeeps
<1> HIDE DEF c
<1>9. SameRest(c, s)
  BY <1>4, <1>8 DEF SameRest
<1>10. c.delivered = s.delivered \cup {n}
  BY <1>4, <1>6, <1>8
<1> QED BY <1>2, <1>8, <1>9, <1>10 DEF c, s0

\* A proposer whose block is above vheight votes for it.
LEMMA OwnVote ==
  ASSUME NEW s \in Replica, AboveLock(s), NEW n \in Tree, QcRef(n) = s.hqc,
         ~Fails(s, n), Height(n) > s.vheight
  PROVE  Votes(s, n)
<1>1. LockOf(n) \in Tree /\ check_ancestry(LockOf(n), n) /\ check_ancestry(s.hqc, n)
      /\ check_ancestry(b0, n)
  BY LockOfFacts, QcRefFacts, AncestryOrder
<1>2. \/ Height(QcRef(n)) > Height(LockAfter(s, n))
      \/ check_ancestry(LockAfter(s, n), n)
  BY <1>1 DEF LockAfter, AboveLock
<1> QED BY <1>2 DEF Votes

\* Before a proposer has voted for its new block, no quorum has.
LEMMA NoVotesYet ==
  ASSUME NEW s \in Replica, RepInv(s), NEW n \in Tree, Height(n) > s.vheight
  PROVE  VotersAt(s, n) = {} /\ ~Authorized(VotersAt(s, n))
<1>1. Height(n) \in Nat /\ s.vheight \in Nat
  BY BlockFacts DEF Replica
<1>2. VotersAt(s, n) = {}
  BY <1>1 DEF RepInv, VotersAt
<1>3. \A Q \in Quorums : Q # {}
  BY QuorumAssumption
<1> QED BY <1>2, <1>3 DEF Authorized

\* w is t after r has counted its own vote for n.
OwnCounted(w, t, r, n) ==
  /\ w \in Replica /\ RepInv(w) /\ AboveLock(w)
  /\ w.delivered = t.delivered /\ w.halted = t.halted /\ w.vheight = t.vheight
  /\ w.b_lock = t.b_lock /\ w.b_exec = t.b_exec
  /\ w.voted = t.voted \cup {<<n, r>>}
  /\ w.hqc = t.hqc \/ (w.hqc = n /\ Authorized(VotersAt(w, n)))

\* The proposer counts its own vote, the first one, for its new block n.
LEMMA OwnCount ==
  ASSUME NEW t \in Replica, RepInv(t), AboveLock(t), NEW r \in Replicas,
         NEW n \in t.delivered, Height(n) <= t.vheight, check_ancestry(t.hqc, n),
         ~Authorized(VotersAt(t, n)), NEW v \in on_receive_vote(t, r, n),
         NEW w, w = [v EXCEPT !.hqc_tail = n]
  PROVE  OwnCounted(w, t, r, n)
<1>1. v \in Replica /\ RepInv(v)
  BY CountKeeps
<1>2. v.delivered = t.delivered /\ v.halted = t.halted /\ v.vheight = t.vheight
  BY CountKeeps
<1>3. v.b_lock = t.b_lock /\ v.b_exec = t.b_exec
  BY CountKeeps
<1>4. v.voted = t.voted \cup {<<n, r>>}
  <2>1. t.voted \subseteq v.voted /\ v.voted \subseteq t.voted \cup {<<n, r>>}
    BY CountKeeps
  <2>2. <<n, r>> \in v.voted
    BY CountKeeps
  <2> QED BY <2>1, <2>2
<1>5. HqcMoves(t, v, n) /\ (v.hqc # t.hqc => Authorized(VotersAt(v, n)))
  BY CountKeeps
<1>6. n \in Block /\ n \in Tree
  BY BlockFacts DEF Replica
<1>7. w \in Replica
  BY <1>1, <1>6 DEF Replica
<1>8. /\ w.hqc_tail = n /\ w.delivered = v.delivered /\ w.tails = v.tails
      /\ w.decision = v.decision /\ w.voted = v.voted /\ w.hqc = v.hqc
      /\ w.vheight = v.vheight /\ w.b_lock = v.b_lock /\ w.b_exec = v.b_exec
      /\ w.halted = v.halted
  BY <1>1 DEF Replica
<1>9. check_ancestry(w.hqc, n)
  BY <1>5, <1>6, <1>8, AncestryOrder DEF HqcMoves
<1>10. RepInv(w)
  BY <1>1, <1>2, <1>8, <1>9 DEF RepInv
<1>11. AboveLock(w)
  <2>1. Height(t.hqc) \in Nat /\ Height(n) \in Nat /\ Height(t.b_lock) \in Nat
    BY <1>6, BlockFacts DEF Replica
  <2> QED BY <1>3, <1>5, <1>8, <2>1 DEF AboveLock, HqcMoves
<1>12. w.hqc = t.hqc \/ (w.hqc = n /\ Authorized(VotersAt(w, n)))
  BY <1>5, <1>8 DEF HqcMoves, VotersAt
<1> QED BY <1>2, <1>3, <1>4, <1>7, <1>8, <1>10, <1>11, <1>12 DEF OwnCounted

\* A step of r that creates n and handles it is a Propose of ChainVoting, or
\* a Receive if others have created n before, and a Create of the feed.
LEMMA CreateMaps ==
  ASSUME FullInv, NEW r \in Replicas, NEW w \in Replica, rep' = [rep EXCEPT ![r] = w],
         NEW n \in Blocks, n \in Tree, n # b0, w.delivered = rep[r].delivered \cup {n},
         Parent(n) \in rep[r].delivered, n[Len(n)].qc < Len(n), Cert(QcRef(n), Cast),
         VP!Handle(r, n)
  PROVE  VP!Next /\ [Feed!Next]_<<Created, Seen>>
<1>1. TypeOK /\ \A q \in Replicas : RepInv(rep[q])
  BY DEF FullInv, CoreInv
<1>2. rep'[r] = w /\ \A q \in Replicas \ {r} : rep'[q] = rep[q]
  BY <1>1 DEF TypeOK
<1>3. Created' = Created \cup {n}
  <2>1. Created \subseteq Created'
    BY <1>2 DEF Created
  <2>2. n \in Created' /\ Created' \subseteq Created \cup {n}
    BY <1>2 DEF Created
  <2> QED BY <2>1, <2>2
<1>4. Parent(n) \in Created
  BY DEF Created
<1>5. VP!Next
  <2>1. CASE n \in Created
    <3>1. VP!Receive(r, n)
      BY <1>3, <2>1, SameTree DEF VP!Receive
    <3> QED BY <2>1, <3>1 DEF VP!Next
  <2>2. CASE n \notin Created
    <3>1. VP!Propose(r, n)
      BY <1>3, <1>4, SameTree, CertFacts DEF VP!Propose, VP!Proposable
    <3> QED BY <2>2, <3>1 DEF VP!Next
  <2> QED BY <2>1, <2>2
<1>6. Seen' = [Seen EXCEPT ![r] = @ \cup {n}] /\ Seen[r] = rep[r].delivered
  <2>1. Seen' = [Seen EXCEPT ![r] = w.delivered] /\ Seen[r] = rep[r].delivered
    BY <1>1, SeenStep DEF TypeOK
  <2> QED BY <2>1
<1>7. Feed!Create(r, n)
  BY <1>3, <1>6 DEF Feed!Create, Feed!Parent, Parent, Feed!WalkDown, WalkDown, Feed!Height, Height
<1>8. Feed!Next
  <2>1. n \in Created' \ {b0} /\ Feed!b0 = b0
    BY <1>3 DEF Feed!b0, b0
  <2> QED BY <1>7, <2>1 DEF Feed!Next
<1> QED BY <1>5, <1>8

LEMMA ProposeStep ==
  ASSUME FullInv, NEW r \in Proposers, NEW cmds \in Payloads, Propose(r, cmds)
  PROVE  CoreInv' /\ VP!Next /\ [Feed!Next]_<<Created, Seen>>
<1> DEFINE s == rep[r]
           n == NewBlock(s.hqc_tail, cmds, s.hqc)
           c == on_deliver_blk([s EXCEPT !.tails = @ \ {s.hqc_tail}], n)
<1>1. /\ rep \in [Replicas -> Replica] /\ r \in Replicas /\ s \in Replica
      /\ RepInv(s) /\ AboveLock(s) /\ TypeOK /\ MessageInv
      /\ n \in Blocks /\ s.halted = "no" /\ s.vheight \in Nat
  BY ProposersAssumption
     DEF FullInv, CoreInv, TypeOK, HqcAboveLock, Replica, Propose, Running
<1>2. /\ n \in Tree /\ n # b0 /\ Parent(n) = s.hqc_tail /\ QcRef(n) = s.hqc
      /\ n[Len(n)].qc < Len(n) /\ Height(n) \in Nat
  BY <1>1, CreateKeeps, BlockFacts
<1>3. c \in Replica /\ RepInv(c) /\ SameRest(c, s) /\ c.delivered = s.delivered \cup {n}
  BY <1>1, CreateKeeps
<1>4. /\ votemsgs' = votemsgs
      /\ votemsgs' \in SUBSET VoteMsg
      /\ \A m \in votemsgs' : <<m.to, m.blk>> \in proposals
  BY <1>1 DEF Propose, TypeOK, MessageInv
<1>5. PICK u \in update(c, n) :
        IF u.halted = "no" /\ MayBroadcast(u, n)
        THEN /\ \E v \in IF Opinion(u, n) THEN on_receive_vote(Consider(u, n), r, n)
                         ELSE {Consider(u, n)} :
                  rep' = [rep EXCEPT ![r] = [v EXCEPT !.hqc_tail = n]]
             /\ proposals' = proposals \cup {<<r, n>>}
        ELSE /\ rep' = [rep EXCEPT ![r] =
                         IF u.halted = "no"
                         THEN [u EXCEPT !.halted = "not_above_vheight"]
                         ELSE u]
             /\ UNCHANGED proposals
  BY DEF Propose
<1>6. Cert(s.hqc, Cast)
  BY <1>1, CertFacts DEF FullInv, CoreInv
<1>7. s.hqc_tail \in s.delivered
  BY <1>1 DEF RepInv
<1> HIDE DEF s, n, c
<1>8. c.halted = "no" /\ n \in c.delivered /\ c.vheight = s.vheight /\ c.voted = s.voted
      /\ c.hqc = s.hqc
  BY <1>1, <1>3 DEF SameRest
<1>9. u \in Replica /\ RepInv(u)
  BY <1>3, <1>8, UpdateKeeps
<1>10. u.delivered = s.delivered \cup {n} /\ u.voted = s.voted /\ u.vheight = s.vheight
  BY <1>3, <1>8, UpdateKeeps
<1>11. u.b_lock = LockAfter(s, n) /\ u.b_exec = ExecAfter(s, n)
  <2>1. u.b_lock = LockAfter(c, n) /\ u.b_exec = ExecAfter(c, n)
    BY <1>3, <1>8, UpdateKeeps
  <2> QED BY <1>3, <2>1, SameAfter
<1>12. u.halted = IF Fails(s, n) THEN "safety_breached" ELSE "no"
  <2>1. u.halted = IF Fails(c, n) THEN "safety_breached" ELSE c.halted
    BY <1>3, <1>8, UpdateKeeps
  <2> QED BY <1>3, <1>8, <2>1, SameAfter
<1>13. HqcMoves(c, u, QcRef(n)) /\ u.hqc = s.hqc
  <2>1. HqcMoves(c, u, QcRef(n))
    BY <1>3, <1>8, UpdateKeeps
  <2> QED BY <1>2, <1>8, <2>1 DEF HqcMoves
<1>14. AboveLock(u)
  <2>1. AboveLock(c)
    BY <1>1, <1>3 DEF AboveLock, SameRest
  <2>2. u.b_lock = LockAfter(c, n) /\ Height(u.hqc) >= Height(QcRef(n))
    <3>1. Height(QcRef(n)) \in Nat
      BY <1>2, QcRefFacts, BlockFacts
    <3> QED BY <1>2, <1>3, <1>11, <1>13, <3>1, SameAfter
  <2>3. QcRef(n) # b0 => Height(QcRef(QcRef(n))) < Height(QcRef(n))
    <3>1. QcRef(n) \in Created /\ QcRef(n) \in Tree
      BY <1>1, <1>2, CreatedFacts DEF s, RepInv, FullInv, CoreInv
    <3>2. QcRef(n) # b0 => QcRef(n)[Len(QcRef(n))].qc < Len(QcRef(n))
      BY <3>1, VotingFacts
    <3> QED BY <3>1, <3>2, QcRefFacts
  <2>4. Height(c.hqc) = Height(QcRef(n)) => c.hqc = QcRef(n)
    BY <1>2, <1>8
  <2> QED BY <1>3, <1>8, <1>9, <1>13, <2>1, <2>2, <2>3, <2>4, AboveLockKeeps
<1>15. Cast = Sent \cup Own /\ Cast' = Sent' \cup Own' /\ Sent' = Sent
  BY <1>4 DEF Cast, Sent, Own
\* The block is not above vheight, or the commit failed: r stops.
<1>16. ASSUME ~(u.halted = "no" /\ MayBroadcast(u, n))
       PROVE  CoreInv' /\ VP!Next /\ [Feed!Next]_<<Created, Seen>>
  <2> DEFINE w == IF u.halted = "no" THEN [u EXCEPT !.halted = "not_above_vheight"] ELSE u
  <2>1. rep' = [rep EXCEPT ![r] = w] /\ proposals' = proposals
    BY <1>5, <1>16
  <2>2. w \in Replica
    BY <1>9 DEF Replica
  <2>3. /\ w.delivered = u.delivered /\ w.tails = u.tails /\ w.decision = u.decision
        /\ w.voted = u.voted /\ w.vheight = u.vheight /\ w.hqc = u.hqc
        /\ w.hqc_tail = u.hqc_tail /\ w.b_lock = u.b_lock /\ w.b_exec = u.b_exec
    BY <1>9 DEF Replica
  <2>4. w.halted = "safety_breached" <=> Fails(s, n)
    BY <1>9, <1>12 DEF Replica
  <2> HIDE DEF w
  <2>5. RepInv(w) /\ AboveLock(w)
    BY <1>9, <1>14, <2>3 DEF RepInv, AboveLock
  <2>6. Cast' = Cast
    <3>1. \A q \in Replicas : rep'[q].voted = rep[q].voted
      BY <1>1, <1>10, <2>1, <2>3 DEF s
    <3>2. Own' = Own
      BY <3>1 DEF Own
    <3> QED BY <1>15, <3>2
  <2>7. ~Votes(s, n)
    BY <1>10, <1>12, <1>16 DEF Votes, MayBroadcast
  <2>8. VP!Handle(r, n)
    <3>1. w.b_lock = LockAfter(s, n) /\ w.b_exec = ExecAfter(s, n) /\ w.vheight = s.vheight
      BY <1>10, <1>11, <2>3
    <3> QED BY <1>1, <1>2, <2>1, <2>2, <2>4, <2>6, <2>7, <3>1, HandleMaps DEF s
  <2>9. VP!Next /\ [Feed!Next]_<<Created, Seen>>
    <3>1. w.delivered = rep[r].delivered \cup {n}
      BY <1>10, <2>3 DEF s
    <3> QED BY <1>1, <1>2, <1>6, <1>7, <2>1, <2>2, <2>8, <3>1, CreateMaps DEF s
  <2>10. CoreInv'
    <3>1. /\ rep[r].delivered \subseteq w.delivered /\ rep[r].vheight <= w.vheight
          /\ w.hqc = rep[r].hqc /\ w.voted = rep[r].voted
      BY <1>1, <1>10, <1>13, <2>3 DEF s
    <3> QED BY <1>1, <1>4, <2>1, <2>2, <2>5, <2>6, <3>1, CoreInvKeeps
  <2> QED BY <2>9, <2>10
\* The proposer receives its block, votes for it and broadcasts it.
<1>17. ASSUME u.halted = "no", MayBroadcast(u, n)
       PROVE  CoreInv' /\ VP!Next /\ [Feed!Next]_<<Created, Seen>>
  <2> DEFINE t == Consider(u, n)
  <2>1. ~Fails(s, n) /\ Height(n) > s.vheight /\ Votes(s, n)
    BY <1>1, <1>2, <1>10, <1>12, <1>17, OwnVote DEF MayBroadcast
  <2>2. Opinion(u, n)
    BY <1>10, <1>11, <2>1 DEF Votes, Opinion
  <2>3. PICK v \in on_receive_vote(t, r, n) :
          rep' = [rep EXCEPT ![r] = [v EXCEPT !.hqc_tail = n]]
    BY <1>5, <1>17, <2>2
  <2>4. proposals' = proposals \cup {<<r, n>>}
    BY <1>5, <1>17
  <2>5. n \in u.delivered
    BY <1>10
  <2>6. t \in Replica /\ RepInv(t)
    BY <1>9, <2>5, ConsiderKeeps
  <2>7. t.delivered = u.delivered /\ t.voted = u.voted /\ t.halted = u.halted
    BY <1>9, <2>5, ConsiderKeeps
  <2>8. t.b_lock = u.b_lock /\ t.b_exec = u.b_exec /\ t.hqc = u.hqc
    BY <1>9, <2>5, ConsiderKeeps
  <2>9. t.vheight = Height(n)
    BY <1>9, <2>2, <2>5, ConsiderKeeps
  <2> HIDE DEF t
  <2>10. AboveLock(t)
    BY <1>14, <2>8 DEF AboveLock
  <2>11. ~Authorized(VotersAt(t, n))
    <3>1. VotersAt(t, n) = VotersAt(s, n)
      BY <1>10, <2>7 DEF VotersAt
    <3> QED BY <1>1, <1>2, <2>1, <3>1, NoVotesYet
  <2>12. /\ check_ancestry(t.hqc, n) /\ n \in t.delivered /\ Height(n) <= t.vheight
         /\ r \in Replicas
    BY <1>1, <1>2, <1>13, <2>5, <2>7, <2>8, <2>9, QcRefFacts
  <2> DEFINE w == [v EXCEPT !.hqc_tail = n]
  <2>w. w = [v EXCEPT !.hqc_tail = n]
    OBVIOUS
  <2> HIDE DEF w
  <2>13. OwnCounted(w, t, r, n)
    BY <2>6, <2>10, <2>11, <2>12, <2>w, OwnCount
  <2>14. w \in Replica /\ RepInv(w) /\ AboveLock(w)
    BY <2>13 DEF OwnCounted
  <2>15. w.delivered = t.delivered /\ w.halted = t.halted /\ w.vheight = t.vheight
    BY <2>13 DEF OwnCounted
  <2>16. w.b_lock = t.b_lock /\ w.b_exec = t.b_exec
    BY <2>13 DEF OwnCounted
  <2>17. /\ w.voted = t.voted \cup {<<n, r>>}
         /\ w.hqc = t.hqc \/ (w.hqc = n /\ Authorized(VotersAt(w, n)))
    BY <2>13 DEF OwnCounted
  <2>18. rep' = [rep EXCEPT ![r] = w]
    BY <2>3, <2>w
  <2>19. Cast' = Cast \cup {<<r, n>>}
    <3>1. rep[r].voted \subseteq w.voted /\ w.voted \subseteq rep[r].voted \cup {<<n, r>>}
          /\ <<n, r>> \in w.voted
      BY <1>10, <2>7, <2>17 DEF s
    <3>2. Own \subseteq Own' /\ Own' \subseteq Own \cup {<<r, n>>} /\ <<r, n>> \in Own'
      BY <1>1, <2>14, <2>18, <3>1, OwnVotes
    <3> QED BY <1>15, <3>2
  <2>20. VP!Handle(r, n)
    <3>1. w.b_lock = LockAfter(s, n) /\ w.b_exec = ExecAfter(s, n) /\ w.vheight = Height(n)
          /\ (w.halted = "safety_breached" <=> Fails(s, n))
      BY <1>11, <1>17, <2>1, <2>7, <2>8, <2>9, <2>15, <2>16
    <3> QED BY <1>1, <1>2, <2>1, <2>14, <2>18, <2>19, <3>1, HandleMaps DEF s
  <2>21. VP!Next /\ [Feed!Next]_<<Created, Seen>>
    <3>1. w.delivered = rep[r].delivered \cup {n}
      BY <1>10, <2>7, <2>15 DEF s
    <3> QED BY <1>1, <1>2, <1>6, <1>7, <2>14, <2>18, <2>20, <3>1, CreateMaps DEF s
  <2>22. w.hqc = rep[r].hqc \/ Cert(w.hqc, Cast')
    <3>1. ASSUME Authorized(VotersAt(w, n))
          PROVE  Cert(n, Cast')
      <4>1. VotersAt(w, n) \subseteq {q \in Replicas : <<q, n>> \in Cast'}
        <5> SUFFICES ASSUME NEW q \in Replicas, <<n, q>> \in w.voted
                     PROVE  <<q, n>> \in Cast'
          BY DEF VotersAt
        <5>1. <<n, q>> \notin s.voted
          BY <1>1, <1>2, <2>1 DEF RepInv
        <5>2. <<n, q>> = <<n, r>>
          BY <1>10, <2>7, <2>17, <5>1
        <5> QED BY <2>19, <5>2
      <4> QED BY <3>1, <4>1 DEF Cert, Authorized
    <3> QED BY <1>13, <2>8, <2>17, <3>1 DEF s
  <2>23. CoreInv'
    <3>1. rep[r].delivered \subseteq w.delivered /\ rep[r].vheight <= w.vheight
      BY <1>1, <1>2, <1>10, <2>1, <2>7, <2>9, <2>15 DEF s
    <3>2. \A x \in w.voted : x \in rep[r].voted \/ <<x[2], x[1]>> \in Cast'
      BY <1>10, <2>7, <2>17, <2>19 DEF s
    <3>3. /\ {<<r, n>>} \in SUBSET (Proposers \X Blocks)
          /\ \A p, q \in {<<r, n>>} : p = q
          /\ \A p \in {<<r, n>>} : /\ p[1] = r /\ p[2] \in w.delivered
                                   /\ rep[r].vheight < Height(p[2]) /\ Height(p[2]) <= w.vheight
      BY <1>1, <1>2, <2>1, <2>9, <2>12, <2>15 DEF s
    <3>4. Cast \subseteq Cast'
      BY <2>19
    <3> QED BY <1>1, <1>4, <2>4, <2>14, <2>18, <2>22, <3>1, <3>2, <3>3, <3>4, CoreInvStep
  <2> QED BY <2>21, <2>23
<1> QED BY <1>16, <1>17

LEMMA InitFullInv ==
  ASSUME Init
  PROVE  FullInv /\ VP!Init /\ Feed!Init
<1> DEFINE s0 == [delivered |-> {b0}, decision |-> {b0}, voted |-> {b0} \X Replicas,
                  tails |-> {b0}, vheight |-> 0, hqc |-> b0, b_lock |-> b0,
                  b_exec |-> b0, hqc_tail |-> b0, halted |-> "no"]
<1>1. rep = [r \in Replicas |-> s0] /\ proposals = {} /\ votemsgs = {}
  BY DEF Init
<1>2. s0 \in Replica
  BY BlockFacts DEF Replica
<1>3. /\ s0.delivered = {b0} /\ s0.decision = {b0} /\ s0.voted = {b0} \X Replicas
      /\ s0.tails = {b0} /\ s0.vheight = 0 /\ s0.hqc = b0 /\ s0.b_lock = b0
      /\ s0.b_exec = b0 /\ s0.hqc_tail = b0 /\ s0.halted = "no"
  OBVIOUS
<1> HIDE DEF s0
<1>4. rep \in [Replicas -> Replica] /\ \A r \in Replicas : rep[r] = s0
  BY <1>1, <1>2
<1>5. RepInv(s0)
  <2>1. Branch(b0) = {b0} /\ check_ancestry(b0, b0) /\ Height(b0) = 0
    BY GenesisBranch, AncestryOrder
  <2>2. Leaves({b0}) = {b0}
    BY DEF Leaves
  <2>3. \A v \in s0.voted : v[1] \in s0.delivered /\ Height(v[1]) <= s0.vheight
    BY <1>3, <2>1
  <2> QED BY <1>3, <2>1, <2>2, <2>3 DEF RepInv
<1>6. CoreInv
  <2>1. TypeOK
    BY <1>1, <1>4 DEF TypeOK
  <2>2. MessageInv
    <3>1. \A v \in s0.voted : v[1] = b0
      BY <1>3
    <3> QED BY <1>1, <1>4, <3>1 DEF MessageInv
  <2>3. HqcCertified /\ HqcAboveLock /\ NoEquivocation
    BY <1>1, <1>3, <1>4, CertFacts DEF HqcAboveLock, AboveLock, NoEquivocation, Cert
  <2>4. \A r \in Replicas : RepInv(rep[r])
    BY <1>4, <1>5
  <2> QED BY <2>1, <2>2, <2>3, <2>4 DEF CoreInv
<1>7. Replicas # {}
  BY QuorumAssumption
<1>8. Created = {b0}
  BY <1>3, <1>4, <1>7 DEF Created
<1>9. Cast = {}
  <2> SUFFICES ASSUME NEW v \in Replicas \X Blocks, <<v[2], v[1]>> \in rep[v[1]].voted
               PROVE  FALSE
    BY <1>1 DEF Cast
  <2>1. v[2] = b0
    BY <1>3, <1>4
  <2> QED BY <2>1, BlockFacts
<1>10. VP!Init
  <2>1. /\ VHeights = [r \in VP!Correct |-> 0] /\ Locks = [r \in VP!Correct |-> VP!b0]
        /\ Execs = [r \in VP!Correct |-> VP!b0]
    BY <1>3, <1>4, SameTree DEF VHeights, Locks, Execs
  <2>2. Breached = {}
    BY <1>3, <1>4 DEF Breached
  <2> QED BY <1>8, <1>9, <2>1, <2>2, SameTree DEF VP!Init
<1>11. VP!IInv
  <2>1. Blocks \subseteq VP!Tree
    BY SameTree, BlocksAssumption
  <2>2. /\ \A Q \in Quorums : Q \subseteq Replicas
        /\ \A Q1, Q2 \in Quorums : Q1 \cap Q2 \cap VP!Correct # {}
    BY SameTree, QuorumAssumption
  <2> QED BY <1>10, <2>1, <2>2, TwoStepAssumption, VP!InitIInv
<1>12. Feed!Init
  <2>1. Seen = [r \in Replicas |-> {b0}]
    BY <1>3, <1>4 DEF Seen
  <2> QED BY <1>8, <2>1 DEF Feed!Init, Feed!b0, b0
<1> QED BY <1>6, <1>10, <1>11, <1>12 DEF FullInv

LEMMA NextFullInv ==
  ASSUME FullInv, [Next]_vars
  PROVE  FullInv' /\ [VP!Next]_(VP!vars) /\ [Feed!Next]_<<Created, Seen>>
<1>1. ASSUME Next
      PROVE  CoreInv' /\ [VP!Next]_(VP!vars) /\ [Feed!Next]_<<Created, Seen>>
  <2>1. PICK r \in Replicas :
          \/ r \in Proposers /\ \E cmds \in Payloads : Propose(r, cmds)
          \/ \E p \in proposals : ReceiveProposal(r, p[1], p[2])
          \/ \E p \in proposals : \E b \in Branch(p[2]) \ {b0, p[2]} : DeliverBlk(r, b)
          \/ \E m \in votemsgs : ReceiveVote(r, m)
    BY <1>1 DEF Next
  <2>2. CASE r \in Proposers /\ \E cmds \in Payloads : Propose(r, cmds)
    BY <2>2, ProposeStep
  <2>3. CASE \E p \in proposals : ReceiveProposal(r, p[1], p[2])
    BY <2>3, ReceiveProposalStep
  <2>4. CASE \E p \in proposals : \E b \in Branch(p[2]) \ {b0, p[2]} : DeliverBlk(r, b)
    BY <2>4, DeliverBlkStep
  <2>5. CASE \E m \in votemsgs : ReceiveVote(r, m)
    BY <2>5, ReceiveVoteStep
  <2> QED BY <2>1, <2>2, <2>3, <2>4, <2>5
<1>2. ASSUME UNCHANGED vars
      PROVE  CoreInv' /\ [VP!Next]_(VP!vars) /\ [Feed!Next]_<<Created, Seen>>
  <2>1. rep' = rep /\ proposals' = proposals /\ votemsgs' = votemsgs
    BY <1>2 DEF vars
  <2>2. Created' = Created /\ Seen' = Seen /\ Cast' = Cast
    BY <2>1 DEF Created, Seen, Cast
  <2>3. VHeights' = VHeights /\ Locks' = Locks /\ Execs' = Execs /\ Breached' = Breached
    BY <2>1 DEF VHeights, Locks, Execs, Breached
  <2>4. UNCHANGED VP!vars
    BY <2>2, <2>3 DEF VP!vars
  <2>5. CoreInv'
    <3>1. /\ TypeOK /\ \A r \in Replicas : RepInv(rep[r])
          /\ MessageInv /\ HqcCertified /\ HqcAboveLock /\ NoEquivocation
      BY DEF FullInv, CoreInv
    <3>2. TypeOK' /\ \A r \in Replicas : RepInv(rep'[r])
      BY <2>1, <3>1 DEF TypeOK
    <3>3. MessageInv' /\ HqcAboveLock' /\ NoEquivocation'
      BY <2>1, <2>2, <3>1 DEF MessageInv, HqcAboveLock, NoEquivocation
    <3>4. HqcCertified'
      BY <2>1, <2>2, <3>1, CertFacts
    <3> QED BY <3>2, <3>3, <3>4 DEF CoreInv
  <2> QED BY <2>2, <2>4, <2>5
<1>3. CoreInv' /\ [VP!Next]_(VP!vars) /\ [Feed!Next]_<<Created, Seen>>
  BY <1>1, <1>2
<1>4. VP!IInv'
  <2>1. Blocks \subseteq VP!Tree
    BY SameTree, BlocksAssumption
  <2>2. /\ \A Q \in Quorums : Q \subseteq Replicas
        /\ \A Q1, Q2 \in Quorums : Q1 \cap Q2 \cap VP!Correct # {}
    BY SameTree, QuorumAssumption
  <2>3. VP!IInv
    BY DEF FullInv
  <2> QED BY <1>3, <2>1, <2>2, <2>3, TwoStepAssumption, VP!NextIInv
<1> QED BY <1>3, <1>4 DEF FullInv

\* Voting, the instance that HotStuffCore states its property with, and VP are
\* the same module under the same substitution.
LEMMA SameRules ==
  /\ VP!vars = Voting!vars
  /\ VP!Init <=> Voting!Init
  /\ \A r, n : VP!NewLock(r, n) = Voting!NewLock(r, n)
  /\ \A r, n : VP!Commits(r, n) <=> Voting!Commits(r, n)
  /\ \A r, n : VP!Breaches(r, n) <=> Voting!Breaches(r, n)
  /\ \A r, n : VP!VotesFor(r, n) <=> Voting!VotesFor(r, n)
  /\ \A n : VP!Proposable(n) <=> Voting!Proposable(n)
  /\ VP!b0 = Voting!b0 /\ VP!Correct = Voting!Correct
  /\ \A b : VP!Height(b) = Voting!Height(b) /\ VP!CommitOf(b) = Voting!CommitOf(b)
<1>1. VP!b0 = Voting!b0 /\ VP!Correct = Voting!Correct /\ VP!vars = Voting!vars
  BY DEF VP!b0, Voting!b0, VP!Correct, Voting!Correct, VP!vars, Voting!vars
<1>2. /\ \A b : VP!Height(b) = Voting!Height(b)
      /\ \A b, h : VP!WalkDown(b, h) = Voting!WalkDown(b, h)
  BY DEF VP!Height, Voting!Height, VP!WalkDown, Voting!WalkDown
<1>3. /\ \A b : VP!Parent(b) = Voting!Parent(b) /\ VP!QcRef(b) = Voting!QcRef(b)
      /\ \A a, b : VP!check_ancestry(a, b) <=> Voting!check_ancestry(a, b)
  BY <1>1, <1>2 DEF VP!Parent, Voting!Parent, VP!QcRef, Voting!QcRef,
                    VP!check_ancestry, Voting!check_ancestry
<1>4. \A b : VP!LockOf(b) = Voting!LockOf(b)
  BY <1>3 DEF VP!LockOf, Voting!LockOf
<1>5. \A b : VP!CommitOf(b) = Voting!CommitOf(b)
  BY <1>3, <1>4 DEF VP!CommitOf, Voting!CommitOf
<1>6. \A b : VP!DirectParents(b) <=> Voting!DirectParents(b)
  BY <1>3, <1>4, <1>5 DEF VP!DirectParents, Voting!DirectParents
<1>7. \A r, b : VP!Decided(r, b) <=> Voting!Decided(r, b)
  BY <1>3 DEF VP!Decided, Voting!Decided
<1>8. \A r, n : VP!NewLock(r, n) = Voting!NewLock(r, n)
  BY <1>2, <1>3, <1>4, <1>7 DEF VP!NewLock, Voting!NewLock
<1>9. \A r, n : VP!Commits(r, n) <=> Voting!Commits(r, n)
  BY <1>3, <1>4, <1>5, <1>6, <1>7 DEF VP!Commits, Voting!Commits
<1>10. \A r, n : VP!Breaches(r, n) <=> Voting!Breaches(r, n)
  BY <1>3, <1>5, <1>9 DEF VP!Breaches, Voting!Breaches
<1>11. \A r, n : VP!VotesFor(r, n) <=> Voting!VotesFor(r, n)
  BY <1>2, <1>3, <1>8, <1>10 DEF VP!VotesFor, Voting!VotesFor
<1>12. \A b : VP!Certified(b) <=> Voting!Certified(b)
  BY <1>1 DEF VP!Certified, Voting!Certified, VP!Authorized, Voting!Authorized,
              VP!Voters, Voting!Voters
<1>13. \A n : VP!Proposable(n) <=> Voting!Proposable(n)
  BY <1>1, <1>3, <1>12 DEF VP!Proposable, Voting!Proposable
<1>14. VP!Init <=> Voting!Init
  BY <1>1 DEF VP!Init, Voting!Init
<1> QED BY <1>1, <1>2, <1>5, <1>8, <1>9, <1>10, <1>11, <1>13, <1>14

LEMMA SameStep ==
  ASSUME VP!Next
  PROVE  Voting!Next
<1>1. ASSUME NEW r, NEW n, VP!Handle(r, n)
      PROVE  Voting!Handle(r, n)
  <2>1. Voting!Update(r, n)
    BY <1>1, SameRules DEF VP!Handle, VP!Update, Voting!Update
  <2> QED BY <1>1, <2>1, SameRules DEF VP!Handle, Voting!Handle
<1>2. ASSUME NEW r, NEW n, VP!Propose(r, n)
      PROVE  Voting!Propose(r, n)
  BY <1>1, <1>2, SameRules DEF VP!Propose, Voting!Propose
<1>3. ASSUME NEW r, NEW n, VP!Receive(r, n)
      PROVE  Voting!Receive(r, n)
  BY <1>1, <1>3, SameRules DEF VP!Receive, Voting!Receive
<1> QED BY <1>2, <1>3 DEF VP!Next, Voting!Next, VP!FaultyPropose, VP!FaultyVote

-----------------------------------------------------------------------------
LEMMA FullInvariance == Spec => []FullInv
<1>1. Init => FullInv
  BY InitFullInv
<1>2. FullInv /\ [Next]_vars => FullInv'
  BY NextFullInv
<1> QED BY <1>1, <1>2, PTL DEF Spec

\* The fields of a replica, the messages and the certificates fit together in
\* every reachable state: the counting of votes, the delivery of branches and
\* the bookkeeping of PMHighTail are consistent (consensus.cpp, liveness.h).
THEOREM CoreInvariance == Spec => []CoreInv
<1>1. FullInv => CoreInv
  BY DEF FullInv
<1> QED BY <1>1, FullInvariance, PTL

\* Every hqc has been voted for by a quorum (on_receive_vote).
THEOREM HqcCertifiedHolds == Spec => []HqcCertified
<1>1. CoreInv => HqcCertified
  BY DEF CoreInv
<1> QED BY <1>1, CoreInvariance, PTL

\* No replica broadcasts two blocks of one height (on_propose).
THEOREM NoEquivocationHolds == Spec => []NoEquivocation
<1>1. CoreInv => NoEquivocation
  BY DEF CoreInv
<1> QED BY <1>1, CoreInvariance, PTL

\* A proposer's certificate is above its lock (update, on_receive_vote).
THEOREM HqcAboveLockHolds == Spec => []HqcAboveLock
<1>1. CoreInv => HqcAboveLock
  BY DEF CoreInv
<1> QED BY <1>1, CoreInvariance, PTL

\* The selected parent is on the branch of hqc (PMHighTail).
THEOREM TailFollowsHqcHolds == Spec => []TailFollowsHqc
<1>1. CoreInv => TailFollowsHqc
  BY DEF CoreInv, RepInv, TailFollowsHqc
<1> QED BY <1>1, CoreInvariance, PTL

\* tails holds exactly the leaves of what is delivered (on_deliver_blk).
THEOREM TailsAreLeavesHolds == Spec => []TailsAreLeaves
<1>1. CoreInv => TailsAreLeaves
  BY DEF CoreInv, RepInv, TailsAreLeaves
<1> QED BY <1>1, CoreInvariance, PTL

\* The decided blocks are the branch of b_exec (update).
THEOREM DecisionIsBranchHolds == Spec => []DecisionIsBranch
<1>1. CoreInv => DecisionIsBranch
  BY DEF CoreInv, RepInv, DecisionIsBranch
<1> QED BY <1>1, CoreInvariance, PTL

\* update() never throws "safety breached", whatever happens to the messages.
THEOREM NoSafetyBreachHolds == Spec => []NoSafetyBreach
<1>1. FullInv => NoSafetyBreach
  BY VotingFacts DEF Breached, NoSafetyBreach
<1> QED BY <1>1, FullInvariance, PTL

\* The replicas with their messages, tails and counted votes implement the
\* voting rules of ChainVoting, and with them agreement on one ledger.
THEOREM VotingImplemented == Spec => ImplementsVoting
<1>1. Init => Voting!Init
  BY InitFullInv, SameRules
<1>2. FullInv /\ [Next]_vars => [Voting!Next]_(Voting!vars)
  <2> SUFFICES ASSUME FullInv, [Next]_vars
               PROVE  [Voting!Next]_(Voting!vars)
    OBVIOUS
  <2>1. CASE VP!Next
    BY <2>1, SameStep
  <2>2. CASE UNCHANGED VP!vars
    BY <2>2 DEF VP!vars, Voting!vars
  <2> QED BY <2>1, <2>2, NextFullInv
<1> QED BY <1>1, <1>2, FullInvariance, PTL DEF Spec, Voting!Spec, ImplementsVoting

\* Consensus uses delivered blocks only as BlockFeed promises them: each after
\* its parent, and created by a replica that had the parent.
THEOREM FeedUsed == Spec => ImplementsFeed
<1>1. Init => Feed!Init
  BY InitFullInv
<1>2. FullInv /\ [Next]_vars => [Feed!Next]_<<Created, Seen>>
  BY NextFullInv
<1> QED BY <1>1, <1>2, FullInvariance, PTL DEF Spec, Feed!Spec, ImplementsFeed

\* The handlers on all replicas together keep one append-only ledger: agreement,
\* for the code's own state.
THEOREM LedgerImplemented == Spec => ImplementsLedger
<1> DEFINE Rules == /\ Blocks \subseteq VP!Tree /\ {} \subseteq Replicas
                    /\ \A Q \in Quorums : Q \subseteq Replicas
                    /\ \A Q1, Q2 \in Quorums : Q1 \cap Q2 \cap VP!Correct # {}
<1>1. Rules
  BY SameTree, BlocksAssumption, QuorumAssumption
<1> HIDE DEF Rules
<1>2. Init => TheLedger!Init
  BY DEF Init, TheLedger!Init, Execs, b0
<1>3. FullInv => VP!Agreement
  BY <1>1, VP!AgreementLemma, TwoStepAssumption DEF FullInv, Rules
<1>4. FullInv /\ FullInv' /\ VP!Agreement' /\ [Next]_vars => [TheLedger!Next]_Execs
  <2> SUFFICES ASSUME FullInv, FullInv', VP!Agreement', [Next]_vars
               PROVE  [TheLedger!Next]_Execs
    OBVIOUS
  <2>1. VP!IInv /\ VP!IInv' /\ [VP!Next]_(VP!vars)
    BY NextFullInv DEF FullInv
  <2>2. [VP!TheLedger!Next]_Execs
    BY <2>1, <1>1, VP!StepLedger, TwoStepAssumption DEF Rules
  <2>3. VP!Correct = Replicas /\ VP!Content = Content
    BY SameTree DEF VP!Content, Content
  <2>4. \A a, b : VP!TheLedger!IsPrefix(a, b) <=> TheLedger!IsPrefix(a, b)
    BY DEF VP!TheLedger!IsPrefix, TheLedger!IsPrefix
  <2>5. \A a, b : VP!TheLedger!Consistent(a, b) <=> TheLedger!Consistent(a, b)
    BY <2>4 DEF VP!TheLedger!Consistent, TheLedger!Consistent
  <2>6. CASE UNCHANGED Execs
    BY <2>6
  <2>7. CASE VP!TheLedger!Next
    <3>1. PICK n \in VP!Correct : VP!TheLedger!Execute(n)
      BY <2>7 DEF VP!TheLedger!Next
    <3>2. TheLedger!Execute(n)
      BY <3>1, <2>3, <2>4, <2>5 DEF TheLedger!Execute, VP!TheLedger!Execute
    <3> QED BY <3>1, <3>2, <2>3 DEF TheLedger!Next
  <2> QED BY <2>2, <2>6, <2>7
<1> QED BY <1>2, <1>3, <1>4, FullInvariance, PTL DEF Spec, TheLedger!Spec, ImplementsLedger
=============================================================================
