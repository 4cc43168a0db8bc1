------------------------- MODULE ChainVotingProofs -------------------------
(***************************************************************************)
(* Safety of the voting rules for any number of replicas, any quorums that *)
(* meet in a correct replica, any blocks, and both builds (TwoStep).       *)
(***************************************************************************)
EXTENDS ChainVoting, BlockTreeProofs, WellFoundedInduction

-----------------------------------------------------------------------------
(* Consequences of the invariant in one state. *)

\* A non-empty set of naturals has a least element.
LEMMA LeastNatural ==
  ASSUME NEW T \in SUBSET Nat, T # {}
  PROVE  \E m \in T : \A k \in T : m <= k
<1> DEFINE R == {p \in Nat \X Nat : p[1] < p[2]}
<1>1. IsWellFoundedOn(R, Nat)
  BY NatLessThanWellFounded DEF OpToRel
<1>2. PICK m \in T : \A k \in T : ~(<<k, m>> \in R)
  <2> HIDE DEF R
  <2> QED BY <1>1, WFMin
<1>3. ASSUME NEW k \in T PROVE m <= k
  <2>1. k \in Nat /\ m \in Nat
    OBVIOUS
  <2>2. <<k, m>> \in Nat \X Nat /\ <<k, m>>[1] = k /\ <<k, m>>[2] = m
    BY <2>1
  <2>3. ~(k < m)
    BY <1>2, <2>2
  <2> QED BY <2>1, <2>3
<1> QED BY <1>3

\* The blocks of a state are blocks of the tree.
LEMMA BlocksInTree ==
  ASSUME TypeOK
  PROVE  /\ proposed \subseteq Tree
         /\ \A r \in Correct : b_lock[r] \in Tree /\ b_exec[r] \in Tree /\ vheight[r] \in Nat
<1>1. Blocks \cup {b0} \subseteq Tree
  BY BlocksAssumption, AncestryOrder
<1> QED BY <1>1 DEF TypeOK

\* A block with a quorum has been voted for by a correct replica, in common
\* with any other such block.
LEMMA CommonVoter ==
  ASSUME NEW b, NEW c, Authorized(Voters(b)), Authorized(Voters(c))
  PROVE  \E r \in Correct : <<r, b>> \in votes /\ <<r, c>> \in votes
<1>1. PICK Q1 \in Quorums : Q1 \subseteq Voters(b)
  BY DEF Authorized
<1>2. PICK Q2 \in Quorums : Q2 \subseteq Voters(c)
  BY DEF Authorized
<1>3. PICK r \in Q1 \cap Q2 : r \in Correct
  BY QuorumAssumption
<1> QED BY <1>1, <1>2, <1>3 DEF Voters

\* Certified blocks have been created, and so has what they refer to.
LEMMA CertifiedFacts ==
  ASSUME TypeOK, ChainInv, VoteInv, NEW b \in Tree, Certified(b)
  PROVE  /\ b \in proposed
         /\ QcRef(b) \in proposed /\ Certified(QcRef(b))
         /\ LockOf(b) \in proposed /\ Certified(LockOf(b))
         /\ CommitOf(b) \in proposed /\ Certified(CommitOf(b))
<1>1. ASSUME NEW c \in Tree, Certified(c)
      PROVE  c \in proposed /\ QcRef(c) \in Tree /\ Certified(QcRef(c))
  <2>1. c \in proposed
    <3>1. CASE c = b0
      BY <3>1 DEF ChainInv
    <3>2. CASE Authorized(Voters(c))
      <4>1. PICK r \in Correct : <<r, c>> \in votes
        BY <3>2, CommonVoter
      <4> QED BY <4>1 DEF VoteInv
    <3> QED BY <1>1, <3>1, <3>2 DEF Certified
  <2>2. Certified(QcRef(c))
    <3>1. CASE c = b0
      BY <3>1 DEF QcRef, Certified
    <3>2. CASE c # b0
      BY <2>1, <3>2 DEF ChainInv
    <3> QED BY <3>1, <3>2
  <2> QED BY <2>1, <2>2, QcRefFacts
<1>2. /\ b \in proposed
      /\ QcRef(b) \in Tree /\ QcRef(b) \in proposed /\ Certified(QcRef(b))
  BY <1>1
<1>3. LockOf(b) \in Tree /\ LockOf(b) \in proposed /\ Certified(LockOf(b))
  BY <1>1, <1>2 DEF LockOf
<1> QED BY <1>1, <1>2, <1>3 DEF CommitOf

LEMMA UniqueCertificateLemma ==
  ASSUME TypeOK, VoteInv
  PROVE  UniqueCertificate
<1> SUFFICES ASSUME NEW b \in proposed, NEW c \in proposed,
                    Certified(b), Certified(c), Height(b) = Height(c)
             PROVE  b = c
  BY DEF UniqueCertificate
<1>1. b \in Tree /\ c \in Tree
  BY BlocksInTree
<1>2. CASE b = b0 \/ c = b0
  BY <1>1, <1>2, AncestryOrder
<1>3. CASE b # b0 /\ c # b0
  <2>1. PICK r \in Correct : <<r, b>> \in votes /\ <<r, c>> \in votes
    BY <1>3, CommonVoter DEF Certified
  <2> QED BY <2>1 DEF VoteInv
<1> QED BY <1>2, <1>3

\* The heart of the argument: by the least height at which it could fail.
LEMMA FinalLemma ==
  ASSUME TypeOK, ChainInv, VoteInv, VoteOrderInv,
         NEW z \in proposed, NEW b, Finalizes(z, b),
         NEW w \in proposed, Certified(w), Height(w) >= Height(b)
  PROVE  check_ancestry(b, w)
<1> DEFINE Bad == {v \in proposed : /\ Certified(v)
                                    /\ Height(v) >= Height(b)
                                    /\ ~check_ancestry(b, v)}
<1> SUFFICES ASSUME Bad # {} PROVE FALSE
  OBVIOUS
<1>1. /\ proposed \subseteq Tree
      /\ \A v \in proposed : Height(v) \in Nat
  BY BlocksInTree, AncestryOrder
<1>2. PICK u \in Bad : \A v \in Bad : Height(u) <= Height(v)
  <2> DEFINE T == {Height(v) : v \in Bad}
  <2>1. T \in SUBSET Nat /\ T # {}
    BY <1>1
  <2>2. PICK m \in T : \A k \in T : m <= k
    <3> HIDE DEF T
    <3> QED BY <2>1, LeastNatural
  <2> QED BY <2>2
<1>3. /\ b = LockOf(z) /\ Certified(z)
      /\ z \in Tree /\ b \in Tree /\ b \in proposed /\ Certified(b)
      /\ QcRef(z) \in proposed /\ Certified(QcRef(z))
  BY <1>1, CertifiedFacts, LockOfFacts DEF Finalizes
<1>4. b # b0 /\ z # b0
  BY <1>1, <1>3, AncestryOrder DEF LockOf, QcRef
<1>5. ASSUME NEW v \in proposed, Certified(v),
             Height(v) >= Height(b), Height(v) < Height(u)
      PROVE  check_ancestry(b, v)
  BY <1>1, <1>2, <1>5
<1>6. CASE Height(u) <= Height(z)
  <2>1. u = b \/ u = QcRef(z) \/ u = z
    <3>1. UniqueCertificate
      BY UniqueCertificateLemma
    <3>2. Height(u) = Height(b) \/ Height(u) = Height(QcRef(z)) \/ Height(u) = Height(z)
      <4>1. CASE TwoStep
        <5>1. Height(b) = Height(z) - 1
          BY <1>3, <1>4, <4>1, ParentFacts DEF Finalizes
        <5> QED BY <1>1, <1>2, <1>3, <1>6, <5>1
      <4>2. CASE ~TwoStep
        <5>1. Height(QcRef(z)) = Height(z) - 1
          BY <1>3, <1>4, <4>2, ParentFacts DEF Finalizes
        <5>2. QcRef(z) # b0
          BY <1>3, <1>4, <4>2 DEF LockOf, QcRef
        <5>3. Height(b) = Height(QcRef(z)) - 1
          BY <1>1, <1>3, <4>2, <5>2, ParentFacts DEF Finalizes
        <5> QED BY <1>1, <1>2, <1>3, <1>6, <5>1, <5>3
      <4> QED BY <4>1, <4>2
    <3> QED BY <1>2, <1>3, <3>1, <3>2 DEF UniqueCertificate
  <2>2. check_ancestry(b, b) /\ check_ancestry(b, QcRef(z)) /\ check_ancestry(b, z)
    BY <1>3, LockOfFacts, AncestryOrder
  <2> QED BY <1>2, <2>1, <2>2
<1>7. CASE Height(z) < Height(u)
  <2>1. u # b0 /\ u \in Tree /\ u \in proposed /\ Certified(u)
    BY <1>1, <1>2, <1>7, AncestryOrder
  <2>2. PICK r \in Correct : <<r, z>> \in votes /\ <<r, u>> \in votes
    BY <1>3, <1>4, <2>1, CommonVoter DEF Certified
  <2>3. CASE Height(QcRef(u)) > Height(b)
    <3>1. QcRef(u) \in proposed /\ Certified(QcRef(u))
      BY <2>1, CertifiedFacts
    <3>2. Height(QcRef(u)) < Height(u) /\ check_ancestry(QcRef(u), u)
      BY <2>1, QcRefFacts DEF ChainInv
    <3>3. check_ancestry(b, QcRef(u))
      BY <1>1, <1>3, <1>5, <2>3, <3>1, <3>2
    <3>4. check_ancestry(b, u)
      BY <1>1, <1>3, <2>1, <3>1, <3>2, <3>3, AncestryOrder
    <3> QED BY <1>2, <3>4
  <2>4. CASE \E l \in proposed : /\ Certified(l)
                                 /\ check_ancestry(l, u)
                                 /\ Height(b) <= Height(l)
                                 /\ Height(l) < Height(u)
    <3>1. PICK l \in proposed : /\ Certified(l)
                                /\ check_ancestry(l, u)
                                /\ Height(b) <= Height(l)
                                /\ Height(l) < Height(u)
      BY <2>4
    <3>2. check_ancestry(b, l)
      BY <1>1, <1>3, <1>5, <3>1
    <3>3. check_ancestry(b, u)
      BY <1>1, <1>3, <2>1, <3>1, <3>2, AncestryOrder
    <3> QED BY <1>2, <3>3
  <2> QED BY <1>3, <1>7, <2>1, <2>2, <2>3, <2>4 DEF VoteOrderInv
<1>8. Height(u) <= Height(z) \/ Height(z) < Height(u)
  BY <1>1, <1>2
<1> QED BY <1>6, <1>7, <1>8

LEMMA AgreementLemma ==
  ASSUME IInv
  PROVE  Agreement /\ DecisionIsFinal
<1>1. TypeOK /\ ChainInv /\ VoteInv /\ VoteOrderInv /\ ExecInv
  BY DEF IInv
<1>2. ASSUME NEW r \in Correct, NEW s \in Correct,
             Height(b_exec[r]) <= Height(b_exec[s])
      PROVE  check_ancestry(b_exec[r], b_exec[s])
  <2>1. b_exec[r] \in Tree /\ b_exec[s] \in Tree
    BY <1>1, BlocksInTree
  <2>2. CASE b_exec[r] = b0
    BY <2>1, <2>2, AncestryOrder
  <2>3. CASE b_exec[r] # b0
    <3>1. PICK z \in proposed : Finalizes(z, b_exec[r])
      BY <1>1, <2>3 DEF ExecInv
    <3>2. b_exec[s] \in proposed /\ Certified(b_exec[s])
      BY <1>1, <2>1, CertifiedFacts DEF ExecInv
    <3>3. Height(b_exec[s]) >= Height(b_exec[r])
      BY <1>2, <2>1, AncestryOrder
    <3> QED BY <1>1, <3>1, <3>2, <3>3, FinalLemma
  <2> QED BY <2>2, <2>3
<1>3. Agreement
  <2>1. \A r \in Correct : Height(b_exec[r]) \in Nat
    BY <1>1, BlocksInTree, AncestryOrder
  <2> QED BY <1>2, <2>1 DEF Agreement
<1>4. DecisionIsFinal
  BY <1>1, FinalLemma DEF DecisionIsFinal
<1> QED BY <1>3, <1>4

-----------------------------------------------------------------------------
(* One step of the system. *)

\* More votes never take a certificate away.
LEMMA CertifiedGrows ==
  ASSUME votes \subseteq votes', NEW b, Certified(b)
  PROVE  Certified(b)'
BY DEF Certified, Authorized, Voters

\* update(n) at r, for a block n that may have been proposed: the lock only
\* rises, covers what n locks, and stays below n; the commit walk meets b_exec.
LEMMA UpdateFacts ==
  ASSUME IInv, NEW r \in Correct, NEW n \in Tree, n # b0,
         n[Len(n)].qc < Len(n), Certified(QcRef(n))
  PROVE  /\ ~Breaches(r, n)
         /\ NewLock(r, n) \in proposed /\ Certified(NewLock(r, n))
         /\ Height(b_lock[r]) <= Height(NewLock(r, n))
         /\ Height(LockOf(n)) <= Height(NewLock(r, n))
         /\ NewLock(r, n) = b_lock[r] \/ NewLock(r, n) = LockOf(n)
         /\ Height(LockOf(n)) <= Height(QcRef(n)) /\ Height(QcRef(n)) < Height(n)
         /\ Commits(r, n) => /\ CommitOf(n) \in proposed
                             /\ Certified(CommitOf(n))
                             /\ QcRef(n) \in proposed
                             /\ Finalizes(QcRef(n), CommitOf(n))
                             /\ Height(CommitOf(n)) <= Height(LockOf(n))
                             /\ check_ancestry(b_exec[r], CommitOf(n))
<1> DEFINE q == QcRef(n)
           l == LockOf(n)
           c == CommitOf(n)
           e == b_exec[r]
<1>1. TypeOK /\ ChainInv /\ VoteInv /\ VoteOrderInv /\ LockInv /\ ExecInv
  BY DEF IInv
<1>2. /\ q \in Tree /\ l \in Tree /\ c \in Tree
      /\ check_ancestry(q, n) /\ check_ancestry(l, q) /\ check_ancestry(c, l)
      /\ Height(q) < Height(n)
  BY QcRefFacts, LockOfFacts
<1>3. /\ e \in Tree /\ b_lock[r] \in Tree /\ vheight[r] \in Nat
      /\ Height(e) \in Nat /\ Height(b_lock[r]) \in Nat
      /\ Height(q) \in Nat /\ Height(l) \in Nat /\ Height(c) \in Nat
      /\ Height(n) \in Nat
  BY <1>1, <1>2, BlocksInTree, AncestryOrder
<1>4. Height(l) <= Height(q) /\ Height(c) <= Height(l)
  BY <1>2, AncestryOrder
<1>5. /\ q \in proposed
      /\ l \in proposed /\ Certified(l)
      /\ c \in proposed /\ Certified(c)
  <2>1. /\ q \in proposed
        /\ QcRef(q) \in proposed /\ Certified(QcRef(q))
        /\ LockOf(q) \in proposed /\ Certified(LockOf(q))
    BY <1>1, <1>2, CertifiedFacts
  <2>2. l = q \/ l = QcRef(q)
    BY DEF LockOf
  <2>3. l \in proposed /\ Certified(l)
    BY <2>1, <2>2
  <2>4. QcRef(l) \in proposed /\ Certified(QcRef(l))
    BY <1>1, <1>2, <2>3, CertifiedFacts
  <2> QED BY <2>1, <2>3, <2>4 DEF CommitOf
<1>6. /\ Certified(b_lock[r]) /\ b_lock[r] \in proposed
      /\ Height(e) <= Height(b_lock[r])
  BY <1>1, <1>3, CertifiedFacts DEF LockInv
<1>7. NewLock(r, n) = b_lock[r] \/ NewLock(r, n) = l
  BY DEF NewLock
<1>8. /\ Height(b_lock[r]) <= Height(NewLock(r, n))
      /\ Height(l) <= Height(NewLock(r, n))
  <2>1. CASE Decided(r, q) \/ Decided(r, l)
    <3>1. Height(l) <= Height(e)
      BY <1>2, <1>3, <1>4, <2>1, AncestryOrder DEF Decided
    <3> QED BY <1>3, <1>6, <2>1, <3>1 DEF NewLock
  <2>2. CASE ~(Decided(r, q) \/ Decided(r, l))
    BY <1>3, <2>2 DEF NewLock
  <2> QED BY <2>1, <2>2
<1>9. ASSUME Commits(r, n)
      PROVE  Finalizes(q, c) /\ check_ancestry(e, c)
  <2>1. Finalizes(q, c)
    BY <1>9 DEF Commits, DirectParents, CommitOf, LockOf, Finalizes
  <2>2. ~check_ancestry(c, e)
    BY <1>9 DEF Commits, Decided
  <2>3. e \in proposed /\ Certified(e)
    BY <1>1, <1>3, CertifiedFacts DEF ExecInv
  <2>4. Height(e) < Height(c)
    BY <1>1, <1>3, <1>5, <2>1, <2>2, <2>3, FinalLemma
  <2>5. CASE e = b0
    BY <1>2, <2>1, <2>5, AncestryOrder
  <2>6. CASE e # b0
    <3>1. PICK z \in proposed : Finalizes(z, e)
      BY <1>1, <2>6 DEF ExecInv
    <3>2. Height(c) >= Height(e)
      BY <1>3, <2>4
    <3> QED BY <1>1, <1>5, <2>1, <3>1, <3>2, FinalLemma
  <2> QED BY <2>5, <2>6
<1> QED BY <1>2, <1>4, <1>5, <1>6, <1>7, <1>8, <1>9 DEF Breaches

\* A correct replica handles a block.
LEMMA HandleStep ==
  ASSUME IInv, NEW r \in Correct, NEW n \in Blocks, n # b0,
         n[Len(n)].qc < Len(n), Certified(QcRef(n)),
         Handle(r, n), proposed' = proposed \cup {n}
  PROVE  IInv'
<1> DEFINE lock == NewLock(r, n)
<1>1. TypeOK /\ ChainInv /\ VoteInv /\ VoteOrderInv /\ LockInv /\ ExecInv /\ NoBreach
  BY DEF IInv
<1>2. n \in Tree /\ n \in Blocks
  BY BlocksAssumption
<1>3. /\ ~Breaches(r, n)
      /\ lock \in proposed /\ Certified(lock)
      /\ Height(b_lock[r]) <= Height(lock)
      /\ Height(LockOf(n)) <= Height(lock)
      /\ lock = b_lock[r] \/ lock = LockOf(n)
      /\ Height(LockOf(n)) <= Height(QcRef(n)) /\ Height(QcRef(n)) < Height(n)
      /\ Commits(r, n) => /\ CommitOf(n) \in proposed
                          /\ Certified(CommitOf(n))
                          /\ QcRef(n) \in proposed
                          /\ Finalizes(QcRef(n), CommitOf(n))
                          /\ Height(CommitOf(n)) <= Height(LockOf(n))
                          /\ check_ancestry(b_exec[r], CommitOf(n))
  BY <1>2, UpdateFacts
<1>4. /\ b_lock' = [b_lock EXCEPT ![r] = lock]
      /\ b_exec' = IF Commits(r, n) THEN [b_exec EXCEPT ![r] = CommitOf(n)] ELSE b_exec
      /\ breached' = breached
  BY <1>3 DEF Handle, Update
<1>5. \/ /\ VotesFor(r, n)
         /\ vheight' = [vheight EXCEPT ![r] = Height(n)]
         /\ votes' = votes \cup {<<r, n>>}
      \/ /\ ~VotesFor(r, n)
         /\ vheight' = vheight /\ votes' = votes
  BY DEF Handle
<1>6. votes \subseteq votes'
  BY <1>5
<1>7. /\ proposed \subseteq Tree
      /\ \A b \in Tree : Height(b) \in Nat
      /\ \A s \in Correct : b_lock[s] \in Tree /\ b_exec[s] \in Tree /\ vheight[s] \in Nat
  BY <1>1, BlocksInTree, AncestryOrder
<1>8. LockOf(n) \in Tree /\ QcRef(n) \in Tree /\ CommitOf(n) \in Tree
  BY <1>2, QcRefFacts, LockOfFacts
<1>9. TypeOK'
  <2>1. votes' \in SUBSET (Replicas \X Blocks)
    BY <1>1, <1>2, <1>5 DEF TypeOK, Correct
  <2>2. vheight' \in [Correct -> Nat]
    BY <1>1, <1>2, <1>5, <1>7 DEF TypeOK
  <2>3. b_lock' \in [Correct -> Blocks \cup {b0}]
    BY <1>1, <1>3, <1>4 DEF TypeOK
  <2>4. b_exec' \in [Correct -> Blocks \cup {b0}]
    BY <1>1, <1>3, <1>4 DEF TypeOK
  <2>5. proposed' \in SUBSET (Blocks \cup {b0}) /\ breached' \in SUBSET Correct
    BY <1>1, <1>2, <1>4 DEF TypeOK
  <2> QED BY <2>1, <2>2, <2>3, <2>4, <2>5 DEF TypeOK
<1>10. ChainInv'
  <2>1. \A b \in proposed \ {b0} : b[Len(b)].qc < Len(b) /\ Certified(QcRef(b))
    BY <1>1 DEF ChainInv
  <2>2. \A b : Certified(b) => Certified(b)'
    BY <1>6, CertifiedGrows
  <2>3. \A b \in proposed' \ {b0} : b[Len(b)].qc < Len(b) /\ Certified(QcRef(b))'
    BY <2>1, <2>2
  <2>4. b0 \in proposed'
    BY <1>1 DEF ChainInv
  <2> QED BY <2>3, <2>4 DEF ChainInv, Certified, Authorized, Voters
<1>11. VoteInv'
  <2>1. \A v \in votes' : v[2] \in proposed' \ {b0}
    BY <1>1, <1>5 DEF VoteInv
  <2>2. ASSUME NEW s \in Correct, NEW b \in proposed', <<s, b>> \in votes'
        PROVE  /\ Height(b) <= vheight'[s]
               /\ Height(LockOf(b)) <= Height(b_lock'[s])
    <3>1. CASE <<s, b>> \in votes
      <4>1. b \in proposed
        BY <1>1, <3>1 DEF VoteInv
      <4>2. b \in Tree /\ LockOf(b) \in Tree
        BY <1>7, <4>1, LockOfFacts
      <4>3. Height(b) <= vheight[s] /\ Height(LockOf(b)) <= Height(b_lock[s])
        BY <1>1, <3>1, <4>1 DEF VoteInv
      <4>4. vheight[s] <= vheight'[s]
        <5>1. vheight'[s] = vheight[s] \/ (VotesFor(r, n) /\ s = r /\ vheight'[s] = Height(n))
          BY <1>1, <1>5 DEF TypeOK
        <5>2. VotesFor(r, n) => Height(n) > vheight[r]
          BY DEF VotesFor
        <5> QED BY <1>2, <1>7, <5>1, <5>2
      <4>5. Height(b_lock[s]) <= Height(b_lock'[s]) /\ b_lock'[s] \in Tree
        BY <1>1, <1>3, <1>4, <1>7 DEF TypeOK
      <4>6. vheight'[s] \in Nat
        BY <1>9 DEF TypeOK
      <4> QED BY <1>7, <4>2, <4>3, <4>4, <4>5, <4>6
    <3>2. CASE <<s, b>> \notin votes
      <4>1. s = r /\ b = n /\ vheight' = [vheight EXCEPT ![r] = Height(n)]
        BY <1>5, <2>2, <3>2
      <4> QED BY <1>1, <1>2, <1>3, <1>4, <1>7, <4>1 DEF TypeOK
    <3> QED BY <3>1, <3>2
  <2>3. ASSUME NEW s \in Correct, NEW b \in proposed', NEW c \in proposed',
               <<s, b>> \in votes', <<s, c>> \in votes', Height(b) = Height(c)
        PROVE  b = c
    <3>1. CASE <<s, b>> \in votes /\ <<s, c>> \in votes
      BY <1>1, <2>3, <3>1 DEF VoteInv
    <3>2. CASE <<s, b>> \notin votes \/ <<s, c>> \notin votes
      <4>1. s = r /\ VotesFor(r, n) /\ (b = n \/ c = n)
        BY <1>5, <2>3, <3>2
      <4>2. Height(n) > vheight[r]
        BY <4>1 DEF VotesFor
      <4>3. \A a \in proposed : <<r, a>> \in votes => Height(a) < Height(n)
        BY <1>1, <1>2, <1>7, <4>2 DEF VoteInv
      <4>4. \A a : <<r, a>> \in votes => a \in proposed
        BY <1>1 DEF VoteInv
      <4>5. \A a : <<r, a>> \in votes' => a = n \/ <<r, a>> \in votes
        BY <1>5
      <4> QED BY <1>2, <1>7, <2>3, <4>1, <4>3, <4>4, <4>5
    <3> QED BY <3>1, <3>2
  <2> QED BY <2>1, <2>2, <2>3 DEF VoteInv
<1>12. VoteOrderInv'
  <2> SUFFICES ASSUME NEW s \in Correct, NEW z \in proposed', NEW w \in proposed',
                      <<s, z>> \in votes', <<s, w>> \in votes', Height(z) < Height(w)
               PROVE  \/ Height(QcRef(w)) > Height(LockOf(z))
                      \/ \E l \in proposed' :
                           /\ Certified(l)'
                           /\ check_ancestry(l, w)
                           /\ Height(LockOf(z)) <= Height(l)
                           /\ Height(l) < Height(w)
    BY DEF VoteOrderInv, Certified, Authorized, Voters
  <2>1. \A l : Certified(l) => Certified(l)'
    BY <1>6, CertifiedGrows
  <2>2. \A a : <<r, a>> \in votes => a \in proposed
    BY <1>1 DEF VoteInv
  <2>3. CASE <<s, z>> \in votes /\ <<s, w>> \in votes
    <3>1. z \in proposed /\ w \in proposed
      BY <1>1, <2>3 DEF VoteInv
    <3>2. \/ Height(QcRef(w)) > Height(LockOf(z))
          \/ \E l \in proposed :
               /\ Certified(l)
               /\ check_ancestry(l, w)
               /\ Height(LockOf(z)) <= Height(l)
               /\ Height(l) < Height(w)
      BY <1>1, <2>3, <3>1 DEF VoteOrderInv
    <3> QED BY <2>1, <3>2
  <2>4. CASE <<s, z>> \in votes /\ <<s, w>> \notin votes
    <3>1. s = r /\ w = n /\ VotesFor(r, n)
      BY <1>5, <2>4
    <3>2. z \in proposed /\ Height(LockOf(z)) <= Height(b_lock[r])
      BY <1>1, <2>2, <2>4, <3>1 DEF VoteInv
    <3>3. /\ Height(LockOf(z)) \in Nat /\ Height(lock) \in Nat
          /\ Height(b_lock[r]) \in Nat /\ Height(QcRef(n)) \in Nat
          /\ Height(n) \in Nat /\ Height(LockOf(n)) \in Nat
      BY <1>2, <1>3, <1>7, <1>8, <3>2, LockOfFacts
    <3>4. Height(LockOf(z)) <= Height(lock)
      BY <1>3, <3>2, <3>3
    <3>5. CASE Height(QcRef(n)) > Height(lock)
      BY <3>1, <3>3, <3>4, <3>5
    <3>6. CASE check_ancestry(lock, n)
      <4>1. Height(lock) < Height(n)
        <5>1. Height(b_lock[r]) <= vheight[r] /\ Height(n) > vheight[r]
          BY <1>1, <3>1 DEF LockInv, VotesFor
        <5> QED BY <1>3, <1>7, <3>3, <5>1
      <4> QED BY <1>3, <2>1, <3>1, <3>4, <3>6, <4>1
    <3> QED BY <3>1, <3>5, <3>6 DEF VotesFor
  <2>5. CASE <<s, z>> \notin votes
    <3>1. s = r /\ z = n /\ VotesFor(r, n)
      BY <1>5, <2>5
    <3>2. w = n \/ <<r, w>> \in votes
      BY <1>5, <3>1
    <3>3. w # n
      BY <1>2, <1>7, <3>1
    <3>4. w \in proposed /\ Height(w) <= vheight[r]
      BY <1>1, <2>2, <3>2, <3>3 DEF VoteInv
    <3>5. Height(n) > vheight[r]
      BY <3>1 DEF VotesFor
    <3> QED BY <1>2, <1>7, <3>1, <3>4, <3>5
  <2> QED BY <2>3, <2>4, <2>5
<1>13. LockInv'
  <2> SUFFICES ASSUME NEW s \in Correct
               PROVE  /\ Certified(b_lock[s])'
                      /\ Height(b_exec'[s]) <= Height(b_lock'[s])
                      /\ Height(b_lock'[s]) <= vheight'[s]
    BY DEF LockInv
  <2>1. /\ Certified(b_lock[s])
        /\ Height(b_exec[s]) <= Height(b_lock[s])
        /\ Height(b_lock[s]) <= vheight[s]
    BY <1>1 DEF LockInv
  <2>2. CASE s # r
    <3>1. b_lock'[s] = b_lock[s] /\ b_exec'[s] = b_exec[s] /\ vheight'[s] = vheight[s]
      BY <1>1, <1>4, <1>5, <2>2 DEF TypeOK
    <3>2. Certified(b_lock[s])'
      BY <1>6, <2>1, <3>1 DEF Certified, Authorized, Voters
    <3> QED BY <2>1, <3>1, <3>2
  <2>3. CASE s = r
    <3>1. b_lock'[r] = lock
      BY <1>1, <1>4 DEF TypeOK
    <3>2. Certified(b_lock[r])'
      <4> HIDE DEF lock
      <4> QED BY <1>3, <1>6, <3>1 DEF Certified, Authorized, Voters
    <3>3. Height(b_exec'[r]) <= Height(lock)
      <4>1. Height(b_exec[r]) <= Height(lock)
        BY <1>3, <1>7, <2>1, <2>3
      <4>2. Commits(r, n) => Height(CommitOf(n)) <= Height(lock)
        BY <1>3, <1>7, <1>8
      <4> QED BY <1>1, <1>4, <4>1, <4>2 DEF TypeOK
    <3>4. Height(lock) <= vheight'[r]
      <4>1. CASE VotesFor(r, n)
        <5>1. vheight'[r] = Height(n) /\ Height(n) > vheight[r]
          BY <1>1, <1>5, <4>1 DEF TypeOK, VotesFor
        <5> QED BY <1>2, <1>3, <1>7, <1>8, <2>1, <2>3, <5>1
      <4>2. CASE ~VotesFor(r, n)
        <5>1. vheight'[r] = vheight[r]
          BY <1>5, <4>2
        <5>2. CASE Height(n) <= vheight[r]
          BY <1>2, <1>3, <1>7, <1>8, <2>1, <2>3, <5>1, <5>2
        <5>3. CASE ~(Height(n) <= vheight[r])
          <6>1. /\ ~(Height(QcRef(n)) > Height(lock))
                /\ ~check_ancestry(lock, n)
            BY <1>2, <1>3, <1>7, <4>2, <5>3 DEF VotesFor
          <6>2. lock # LockOf(n)
            BY <1>2, <6>1, LockOfFacts
          <6> QED BY <1>3, <2>1, <2>3, <5>1, <6>2
        <5> QED BY <5>2, <5>3
      <4> QED BY <4>1, <4>2
    <3> QED BY <2>3, <3>1, <3>2, <3>3, <3>4
  <2> QED BY <2>2, <2>3
<1>14. ExecInv'
  <2> SUFFICES ASSUME NEW s \in Correct
               PROVE  /\ Certified(b_exec[s])'
                      /\ b_exec'[s] # b0 => \E z \in proposed' : Finalizes(z, b_exec[s])'
    BY DEF ExecInv
  <2>1. ASSUME Certified(b_exec'[s]) PROVE Certified(b_exec[s])'
    BY <1>6, <2>1 DEF Certified, Authorized, Voters
  <2>2. ASSUME NEW z \in proposed, Finalizes(z, b_exec'[s])
        PROVE  \E y \in proposed' : Finalizes(y, b_exec[s])'
    <3>1. Certified(z)'
      BY <1>6, <2>2, CertifiedGrows DEF Finalizes
    <3> QED BY <2>2, <3>1 DEF Finalizes
  <2>3. CASE b_exec'[s] = b_exec[s]
    <3>1. Certified(b_exec[s]) /\ (b_exec[s] # b0 => \E z \in proposed : Finalizes(z, b_exec[s]))
      BY <1>1 DEF ExecInv
    <3> QED BY <2>1, <2>2, <2>3, <3>1
  <2>4. CASE b_exec'[s] # b_exec[s]
    <3>1. s = r /\ Commits(r, n) /\ b_exec'[s] = CommitOf(n)
      BY <1>1, <1>4, <2>4 DEF TypeOK
    <3>2. /\ Certified(CommitOf(n)) /\ QcRef(n) \in proposed
          /\ Finalizes(QcRef(n), CommitOf(n))
      BY <1>3, <3>1
    <3> QED BY <2>1, <2>2, <3>1, <3>2
  <2> QED BY <2>3, <2>4
<1>15. NoBreach'
  BY <1>1, <1>4 DEF NoBreach
<1> QED BY <1>9, <1>10, <1>11, <1>12, <1>13, <1>14, <1>15 DEF IInv
-----------------------------------------------------------------------------
\* A faulty replica creates a block.
LEMMA FaultyProposeStep ==
  ASSUME IInv, NEW r \in Faulty, NEW n \in Blocks, FaultyPropose(r, n)
  PROVE  IInv'
<1>1. /\ proposed' = proposed \cup {n}
      /\ UNCHANGED <<votes, vheight, b_lock, b_exec, breached>>
      /\ n # b0 /\ n[Len(n)].qc < Len(n) /\ Certified(QcRef(n))
  BY DEF FaultyPropose, Proposable
<1>2. TypeOK /\ ChainInv /\ VoteInv /\ VoteOrderInv /\ LockInv /\ ExecInv /\ NoBreach
  BY DEF IInv
<1>3. \A b : Certified(b)' <=> Certified(b)
  BY <1>1 DEF Certified, Authorized, Voters
<1>4. \A s, b : <<s, b>> \in votes => b \in proposed
  BY <1>2 DEF VoteInv
<1>5. TypeOK'
  BY <1>1, <1>2 DEF TypeOK
<1>6. ChainInv'
  <2>1. \A b \in proposed' \ {b0} : b[Len(b)].qc < Len(b) /\ Certified(QcRef(b))
    BY <1>1, <1>2 DEF ChainInv
  <2>2. b0 \in proposed'
    BY <1>1, <1>2 DEF ChainInv
  <2> QED BY <1>1, <2>1, <2>2 DEF ChainInv, Certified, Authorized, Voters
<1>7. VoteInv'
  BY <1>1, <1>2, <1>4 DEF VoteInv
<1>8. VoteOrderInv'
  <2> SUFFICES ASSUME NEW s \in Correct, NEW z \in proposed', NEW w \in proposed',
                      <<s, z>> \in votes, <<s, w>> \in votes, Height(z) < Height(w)
               PROVE  \/ Height(QcRef(w)) > Height(LockOf(z))
                      \/ \E l \in proposed' :
                           /\ Certified(l)'
                           /\ check_ancestry(l, w)
                           /\ Height(LockOf(z)) <= Height(l)
                           /\ Height(l) < Height(w)
    BY <1>1 DEF VoteOrderInv
  <2>1. z \in proposed /\ w \in proposed
    BY <1>4
  <2> QED BY <1>1, <1>2, <1>3, <2>1 DEF VoteOrderInv
<1>9. LockInv'
  BY <1>1, <1>2 DEF LockInv, Certified, Authorized, Voters
<1>10. ExecInv'
  BY <1>1, <1>2 DEF ExecInv, Finalizes, Certified, Authorized, Voters
<1>11. NoBreach'
  BY <1>1, <1>2 DEF NoBreach
<1> QED BY <1>5, <1>6, <1>7, <1>8, <1>9, <1>10, <1>11 DEF IInv

\* A faulty replica votes.
LEMMA FaultyVoteStep ==
  ASSUME IInv, NEW r \in Faulty, NEW n \in proposed, FaultyVote(r, n)
  PROVE  IInv'
<1>1. /\ votes' = votes \cup {<<r, n>>} /\ n # b0
      /\ UNCHANGED <<proposed, vheight, b_lock, b_exec, breached>>
  BY DEF FaultyVote
<1>2. TypeOK /\ ChainInv /\ VoteInv /\ VoteOrderInv /\ LockInv /\ ExecInv /\ NoBreach
  BY DEF IInv
<1>3. \A b : Certified(b) => Certified(b)'
  BY <1>1, CertifiedGrows
<1>4. \A s \in Correct : \A b : <<s, b>> \in votes' => <<s, b>> \in votes
  BY <1>1 DEF Correct
<1>5. TypeOK'
  BY <1>1, <1>2, FaultyAssumption DEF TypeOK
<1>6. ChainInv'
  <2>1. \A b \in proposed \ {b0} : b[Len(b)].qc < Len(b) /\ Certified(QcRef(b))'
    BY <1>2, <1>3 DEF ChainInv
  <2> QED BY <1>1, <1>2, <2>1 DEF ChainInv
<1>7. VoteInv'
  BY <1>1, <1>2, <1>4 DEF VoteInv
<1>8. VoteOrderInv'
  <2> SUFFICES ASSUME NEW s \in Correct, NEW z \in proposed, NEW w \in proposed,
                      <<s, z>> \in votes, <<s, w>> \in votes, Height(z) < Height(w)
               PROVE  \/ Height(QcRef(w)) > Height(LockOf(z))
                      \/ \E l \in proposed :
                           /\ Certified(l)'
                           /\ check_ancestry(l, w)
                           /\ Height(LockOf(z)) <= Height(l)
                           /\ Height(l) < Height(w)
    BY <1>1, <1>4 DEF VoteOrderInv
  <2> QED BY <1>2, <1>3 DEF VoteOrderInv
<1>9. LockInv'
  BY <1>1, <1>2 DEF LockInv, Certified, Authorized, Voters
<1>10. ExecInv'
  <2> SUFFICES ASSUME NEW s \in Correct
               PROVE  /\ Certified(b_exec[s])'
                      /\ b_exec[s] # b0 => \E z \in proposed : Finalizes(z, b_exec[s])'
    BY <1>1 DEF ExecInv
  <2>1. Certified(b_exec[s])'
    BY <1>1, <1>2 DEF ExecInv, Certified, Authorized, Voters
  <2>2. ASSUME NEW z \in proposed, Finalizes(z, b_exec[s])
        PROVE  Finalizes(z, b_exec[s])'
    BY <1>1, <1>3, <2>2 DEF Finalizes
  <2> QED BY <1>2, <2>1, <2>2 DEF ExecInv
<1>11. NoBreach'
  BY <1>1, <1>2 DEF NoBreach
<1> QED BY <1>5, <1>6, <1>7, <1>8, <1>9, <1>10, <1>11 DEF IInv

-----------------------------------------------------------------------------
(* The theorems. *)

LEMMA InitIInv == Init => IInv
<1> SUFFICES ASSUME Init PROVE IInv
  OBVIOUS
<1>1. Height(b0) = 0
  BY AncestryOrder
<1>2. TypeOK
  BY DEF Init, TypeOK
<1>3. ChainInv /\ VoteInv /\ VoteOrderInv /\ NoBreach
  BY DEF Init, ChainInv, VoteInv, VoteOrderInv, NoBreach
<1>4. LockInv /\ ExecInv
  BY <1>1 DEF Init, LockInv, ExecInv, Certified
<1> QED BY <1>2, <1>3, <1>4 DEF IInv

LEMMA NextIInv == IInv /\ [Next]_vars => IInv'
<1> SUFFICES ASSUME IInv, [Next]_vars PROVE IInv'
  OBVIOUS
<1>1. ASSUME NEW r \in Replicas, NEW n \in Blocks, Propose(r, n)
      PROVE  IInv'
  <2>1. r \in Correct /\ Handle(r, n)
    BY <1>1 DEF Propose, Handle
  <2> QED BY <1>1, <2>1, HandleStep DEF Propose, Proposable
<1>2. ASSUME NEW r \in Replicas, NEW n \in Blocks, FaultyPropose(r, n)
      PROVE  IInv'
  BY <1>2, FaultyProposeStep DEF FaultyPropose
<1>3. ASSUME NEW r \in Replicas, NEW n \in proposed, Receive(r, n)
      PROVE  IInv'
  <2>1. r \in Correct /\ Handle(r, n) /\ n # b0 /\ proposed' = proposed \cup {n}
    BY <1>3 DEF Receive, Handle
  <2>2. n \in Blocks /\ n[Len(n)].qc < Len(n) /\ Certified(QcRef(n))
    BY <2>1 DEF IInv, TypeOK, ChainInv
  <2> QED BY <2>1, <2>2, HandleStep
<1>4. ASSUME NEW r \in Replicas, NEW n \in proposed, FaultyVote(r, n)
      PROVE  IInv'
  BY <1>4, FaultyVoteStep DEF FaultyVote
<1>5. CASE UNCHANGED vars
  BY <1>5 DEF vars, IInv, TypeOK, ChainInv, VoteInv, VoteOrderInv, LockInv,
              ExecInv, NoBreach, Finalizes, Certified, Authorized, Voters
<1> QED BY <1>1, <1>2, <1>3, <1>4, <1>5 DEF Next

\* The invariant holds in every reachable state; it contains the types.
THEOREM Invariance == Spec => []IInv
BY InitIInv, NextIInv, PTL DEF Spec

\* Types of the state of the voting rules.
THEOREM TypeCorrect == Spec => []TypeOK
<1>1. IInv => TypeOK
  BY DEF IInv
<1> QED BY <1>1, Invariance, PTL

\* No two correct replicas ever execute conflicting blocks: update() and
\* on_receive_proposal() keep their b_exec on one branch.
THEOREM AgreementHolds == Spec => []Agreement
<1>1. IInv => Agreement
  BY AgreementLemma
<1> QED BY <1>1, Invariance, PTL

\* update() never throws "safety breached".
THEOREM NoBreachHolds == Spec => []NoBreach
<1>1. IInv => NoBreach
  BY DEF IInv
<1> QED BY <1>1, Invariance, PTL

\* At most one block per height gets a quorum of votes.
THEOREM UniqueCertificateHolds == Spec => []UniqueCertificate
<1>1. IInv => UniqueCertificate
  BY UniqueCertificateLemma DEF IInv
<1> QED BY <1>1, Invariance, PTL

\* A certified chain of direct parents makes its first block final, whether
\* or not anybody has committed it.
THEOREM DecisionIsFinalHolds == Spec => []DecisionIsFinal
<1>1. IInv => DecisionIsFinal
  BY AgreementLemma
<1> QED BY <1>1, Invariance, PTL

\* Locks are certified and above what is executed.
THEOREM LockInvHolds == Spec => []LockInv
<1>1. IInv => LockInv
  BY DEF IInv
<1> QED BY <1>1, Invariance, PTL
-----------------------------------------------------------------------------
(* The voting rules implement the ledger. *)

LEMMA AncestorIsPrefix ==
  ASSUME NEW a \in Tree, NEW b \in Tree, check_ancestry(a, b)
  PROVE  TheLedger!IsPrefix(a, b)
<1>1. a \in Seq(Content) /\ b \in Seq(Content) /\ Len(a) \in Nat /\ Len(b) \in Nat
  BY LenProperties DEF Tree
<1>2. Len(a) <= Len(b)
  BY AncestryOrder DEF Height
<1>3. SubSeq(a, 1, Len(a)) = a /\ SubSeq(b, 1, Len(b)) = b
  BY <1>1, SubSeqFull
<1>4. SubSeq(b, 1, Len(a)) = a
  BY <1>1, <1>2, <1>3 DEF check_ancestry, WalkDown, Height
<1> QED BY <1>2, <1>3, <1>4 DEF TheLedger!IsPrefix

\* What a step does to b_exec, for the replica that handles a block.
LEMMA ExecStep ==
  ASSUME IInv, NEW r \in Correct, NEW n \in Blocks, n # b0,
         n[Len(n)].qc < Len(n), Certified(QcRef(n)), Handle(r, n)
  PROVE  \/ b_exec' = b_exec
         \/ \E c \in proposed : /\ b_exec' = [b_exec EXCEPT ![r] = c]
                                /\ check_ancestry(b_exec[r], c)
<1>1. n \in Tree
  BY BlocksAssumption
<1>2. ~Breaches(r, n) /\ (Commits(r, n) => /\ CommitOf(n) \in proposed
                                          /\ check_ancestry(b_exec[r], CommitOf(n)))
  BY <1>1, UpdateFacts
<1> QED BY <1>2 DEF Handle, Update

\* Every step of the voting rules extends at most one replica's ledger, and
\* nothing it executes conflicts with what another has executed.
LEMMA StepLedger ==
  ASSUME IInv, IInv', Agreement', [Next]_vars
  PROVE  [TheLedger!Next]_b_exec
<1> USE DEF TheLedger!Next
<1>1. TypeOK /\ TypeOK'
  BY DEF IInv
<1>2. ASSUME NEW r \in Correct, NEW c \in proposed,
             b_exec' = [b_exec EXCEPT ![r] = c], check_ancestry(b_exec[r], c)
      PROVE  TheLedger!Execute(r)
  <2>1. b_exec'[r] = c /\ \A m \in Correct \ {r} : b_exec'[m] = b_exec[m]
    BY <1>1, <1>2 DEF TypeOK
  <2>2. c \in Tree /\ \A m \in Correct : b_exec[m] \in Tree
    BY <1>1, BlocksInTree
  <2>3. \A m \in Correct : check_ancestry(c, b_exec[m]) \/ check_ancestry(b_exec[m], c)
    BY <1>1, <1>2, <2>1 DEF Agreement
  <2>4. \A m \in Correct : TheLedger!Consistent(c, b_exec[m])
    BY <2>2, <2>3, AncestorIsPrefix DEF TheLedger!Consistent
  <2>5. TheLedger!IsPrefix(b_exec[r], c)
    BY <1>2, <2>2, AncestorIsPrefix
  <2>6. c \in Seq(Content)
    BY <2>2 DEF Tree
  <2> QED BY <1>2, <2>1, <2>4, <2>5, <2>6 DEF TheLedger!Execute
<1>3. ASSUME NEW r \in Correct, NEW n \in Blocks, n # b0,
             n[Len(n)].qc < Len(n), Certified(QcRef(n)), Handle(r, n)
      PROVE  [TheLedger!Next]_b_exec
  BY <1>2, <1>3, ExecStep
<1>4. ASSUME NEW r \in Replicas, NEW n \in Blocks, Propose(r, n)
      PROVE  [TheLedger!Next]_b_exec
  <2>1. r \in Correct
    BY <1>4 DEF Propose, Handle
  <2> QED BY <1>3, <1>4, <2>1 DEF Propose, Proposable
<1>5. ASSUME NEW r \in Replicas, NEW n \in proposed, Receive(r, n)
      PROVE  [TheLedger!Next]_b_exec
  <2>1. r \in Correct /\ Handle(r, n) /\ n # b0
    BY <1>5 DEF Receive, Handle
  <2>2. n \in Blocks /\ n[Len(n)].qc < Len(n) /\ Certified(QcRef(n))
    BY <2>1 DEF IInv, TypeOK, ChainInv
  <2> QED BY <1>3, <2>1, <2>2
<1> QED BY <1>4, <1>5 DEF Next, FaultyPropose, FaultyVote, vars

\* Correct replicas execute one replicated, append-only ledger.
THEOREM LedgerImplemented == Spec => ImplementsLedger
<1>1. Init => TheLedger!Init
  BY DEF Init, TheLedger!Init, b0
<1>2. IInv /\ IInv' /\ Agreement' /\ [Next]_vars => [TheLedger!Next]_b_exec
  BY StepLedger
<1> QED BY <1>1, <1>2, Invariance, AgreementHolds, PTL DEF Spec, TheLedger!Spec, ImplementsLedger
=============================================================================
