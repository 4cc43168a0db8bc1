---------------------------- MODULE ChainVoting ----------------------------
(***************************************************************************)
(* The voting, locking and commit rules of HotStuffCore (consensus.cpp)    *)
(* without messages, delivery or leaders: the part that safety rests on.   *)
(* A quorum certificate for a block exists when a quorum has voted for it. *)
(*                                                                         *)
(* Replicas in Faulty may vote for anything.  What makes a replica of this *)
(* program faulty is a restart: nothing is persisted (TODO.rst), so it     *)
(* comes back with vheight = 0 and may vote again at a height it has       *)
(* already voted at.                                                       *)
(***************************************************************************)
EXTENDS BlockTree

CONSTANTS
  Replicas,   \* ids of the replicas
  Faulty,     \* the replicas whose votes follow no rule
  Quorums,    \* the minimal authorized groups
  Blocks      \* the blocks that may be proposed (a bound when model checking)

Correct == Replicas \ Faulty

ASSUME FaultyAssumption == Faulty \subseteq Replicas

\* Any two quorums share a replica that follows the rules.
ASSUME QuorumAssumption ==
  /\ \A Q \in Quorums : Q \subseteq Replicas
  /\ \A Q1, Q2 \in Quorums : Q1 \cap Q2 \cap Correct # {}

ASSUME BlocksAssumption == Blocks \subseteq Tree

VARIABLES
  proposed,   \* the blocks created so far, b0 included
  votes,      \* the votes cast so far: pairs <<replica, block>>
  vheight,    \* per replica: height of the last block voted for
  b_lock,     \* per replica: the locked block
  b_exec,     \* per replica: the last executed (committed) block
  breached    \* the replicas stopped by "safety breached"

vars == <<proposed, votes, vheight, b_lock, b_exec, breached>>

Voters(b) == {r \in Replicas : <<r, b>> \in votes}

\* (Changed: one vote less is enough.)
Authorized_OneLess(G) == \E Q \in Quorums : \E q \in Q : Q \ {q} \subseteq G

Authorized(G) == \E Q \in Quorums : Q \subseteq G

\* The certificate of the genesis block is never checked.
Certified(b) == b = b0 \/ Authorized(Voters(b))

\* Block::decision of b at r: the committed blocks are the branch of b_exec.
Decided(r, b) == check_ancestry(b, b_exec[r])

TypeOK ==
  /\ proposed \in SUBSET (Blocks \cup {b0})
  /\ votes \in SUBSET (Replicas \X Blocks)
  /\ vheight \in [Correct -> Nat]
  /\ b_lock \in [Correct -> Blocks \cup {b0}]
  /\ b_exec \in [Correct -> Blocks \cup {b0}]
  /\ breached \in SUBSET Correct

Init ==
  /\ proposed = {b0}
  /\ votes = {}
  /\ vheight = [r \in Correct |-> 0]
  /\ b_lock = [r \in Correct |-> b0]
  /\ b_exec = [r \in Correct |-> b0]
  /\ breached = {}

-----------------------------------------------------------------------------
\* (Changed: update(n) locks nothing.)
NewLock_Never(r, n) == b_lock[r]

\* (Changed: the lock may move down again.)
NewLock_AnyHeight(r, n) ==
  IF Decided(r, QcRef(n)) \/ Decided(r, LockOf(n)) THEN b_lock[r] ELSE LockOf(n)

\* b_lock of r once update(n) has passed the locking statement.
NewLock(r, n) ==
  IF \/ Decided(r, QcRef(n))
     \/ Decided(r, LockOf(n))
     \/ Height(LockOf(n)) <= Height(b_lock[r])
  THEN b_lock[r]
  ELSE LockOf(n)

\* Does update(n) reach the commit at r?
Commits(r, n) ==
  /\ ~Decided(r, QcRef(n))
  /\ ~Decided(r, LockOf(n))
  /\ ~Decided(r, CommitOf(n))
  /\ DirectParents(n)

\* The commit walk ends in a block other than b_exec: the exception.
Breaches(r, n) ==
  /\ Commits(r, n)
  /\ ~check_ancestry(b_exec[r], CommitOf(n))

\* update(n) at r.
Update(r, n) ==
  /\ b_lock' = [b_lock EXCEPT ![r] = NewLock(r, n)]
  /\ b_exec' = IF Commits(r, n) /\ ~Breaches(r, n)
               THEN [b_exec EXCEPT ![r] = CommitOf(n)]
               ELSE b_exec
  /\ breached' = IF Breaches(r, n) THEN breached \cup {r} ELSE breached

\* (Changed: the vote ignores vheight.)
VotesFor_AnyHeight(r, n) ==
  /\ ~Breaches(r, n)
  /\ \/ Height(QcRef(n)) > Height(NewLock(r, n))
     \/ check_ancestry(NewLock(r, n), n)

\* (Changed: the vote ignores the lock.)
VotesFor_Unlocked(r, n) == ~Breaches(r, n) /\ Height(n) > vheight[r]

\* on_receive_proposal's opinion on n, taken after update(n).
VotesFor(r, n) ==
  /\ ~Breaches(r, n)
  /\ Height(n) > vheight[r]
  /\ \/ Height(QcRef(n)) > Height(NewLock(r, n))
     \/ check_ancestry(NewLock(r, n), n)

\* r handles the proposal n: update, then the vote.
Handle(r, n) ==
  /\ r \in Correct \ breached
  /\ Update(r, n)
  /\ IF VotesFor(r, n)
     THEN /\ vheight' = [vheight EXCEPT ![r] = Height(n)]
          /\ votes' = votes \cup {<<r, n>>}
     ELSE UNCHANGED <<vheight, votes>>

\* n extends a created block and certifies an ancestor that has its quorum.
Proposable(n) ==
  /\ n # b0
  /\ Parent(n) \in proposed
  /\ n[Len(n)].qc < Len(n)
  /\ Certified(QcRef(n))

\* on_propose of a correct replica: it creates n and handles it itself.
Propose(r, n) ==
  /\ Proposable(n)
  /\ proposed' = proposed \cup {n}
  /\ Handle(r, n)

\* on_receive_proposal of a block created earlier.
Receive(r, n) ==
  /\ n # b0
  /\ Handle(r, n)
  /\ UNCHANGED proposed

\* A faulty replica creates a block, or votes for one against the rules.
FaultyPropose(r, n) ==
  /\ r \in Faulty
  /\ Proposable(n)
  /\ proposed' = proposed \cup {n}
  /\ UNCHANGED <<votes, vheight, b_lock, b_exec, breached>>

FaultyVote(r, n) ==
  /\ r \in Faulty
  /\ n # b0
  /\ <<r, n>> \notin votes
  /\ votes' = votes \cup {<<r, n>>}
  /\ UNCHANGED <<proposed, vheight, b_lock, b_exec, breached>>

\* Proposing a block that exists already has the effect of receiving it.
Next ==
  \/ \E n \in Blocks \ proposed : \E r \in Replicas : Propose(r, n) \/ FaultyPropose(r, n)
  \/ \E r \in Replicas, n \in proposed : Receive(r, n) \/ FaultyVote(r, n)

Spec == Init /\ [][Next]_vars

-----------------------------------------------------------------------------
(***************************************************************************)
(* Safety.                                                                 *)
(***************************************************************************)

\* Two correct replicas never execute conflicting blocks: the last executed
\* block of one lies on the branch of the other's (b_exec of update()).
Agreement ==
  \A r, s \in Correct :
    \/ check_ancestry(b_exec[r], b_exec[s])
    \/ check_ancestry(b_exec[s], b_exec[r])

\* The exception "safety breached" of update() is never thrown.
NoBreach == breached = {}

\* No two different blocks of one height both get a quorum of votes, which is
\* what the vheight test of on_receive_proposal is for.
UniqueCertificate ==
  \A b, c \in proposed :
    Certified(b) /\ Certified(c) /\ Height(b) = Height(c) => b = c

\* z is the certified top of a chain of direct parents that begins with b: the
\* condition for b to be final.
Finalizes(z, b) ==
  /\ Certified(z)
  /\ LockOf(z) = b
  /\ IF TwoStep
     THEN Parent(z) = b
     ELSE Parent(z) = QcRef(z) /\ Parent(QcRef(z)) = b

\* The block that such a chain begins with is an ancestor of every certified
\* block that is not lower: the locking rule makes it final before anybody has
\* committed it.
DecisionIsFinal ==
  \A z, w \in proposed :
    /\ Finalizes(z, LockOf(z))
    /\ Certified(w)
    /\ Height(w) >= Height(LockOf(z))
    => check_ancestry(LockOf(z), w)

\* A replica only locks a block that has its certificate, at most as high as
\* its last vote, and never executes beyond its lock; update() relies on the
\* latter when it skips the lock of a decided block.
LockInv ==
  \A r \in Correct :
    /\ Certified(b_lock[r])
    /\ Height(b_exec[r]) <= Height(b_lock[r])
    /\ Height(b_lock[r]) <= vheight[r]

\* The correct replicas keep one replicated, append-only ledger: what update()
\* executes extends what it executed before, and conflicts with nobody's.
TheLedger == INSTANCE Ledger WITH Nodes <- Correct, Entries <- Content, log <- b_exec

ImplementsLedger == TheLedger!Spec

-----------------------------------------------------------------------------
(***************************************************************************)
(* The inductive invariant behind these properties.                        *)
(***************************************************************************)

\* Every block certifies one of its proper ancestors.
ChainInv ==
  /\ b0 \in proposed
  /\ \A b \in proposed \ {b0} : b[Len(b)].qc < Len(b) /\ Certified(QcRef(b))

\* Votes are for created blocks; those of a correct replica are bounded by its
\* vheight, distinct in height, and each has locked what it had to lock.
VoteInv ==
  /\ \A v \in votes : v[2] \in proposed \ {b0}
  /\ \A r \in Correct, b \in proposed : <<r, b>> \in votes =>
       /\ Height(b) <= vheight[r]
       /\ Height(LockOf(b)) <= Height(b_lock[r])
  /\ \A r \in Correct, b, c \in proposed :
       <<r, b>> \in votes /\ <<r, c>> \in votes /\ Height(b) = Height(c) => b = c

\* Why a correct replica that voted for z could vote for the higher w: w
\* certifies, or extends, a certified block at least as high as the lock that
\* its vote for z required.
VoteOrderInv ==
  \A r \in Correct, z, w \in proposed :
    <<r, z>> \in votes /\ <<r, w>> \in votes /\ Height(z) < Height(w) =>
      \/ Height(QcRef(w)) > Height(LockOf(z))
      \/ \E l \in proposed :
           /\ Certified(l)
           /\ check_ancestry(l, w)
           /\ Height(LockOf(z)) <= Height(l)
           /\ Height(l) < Height(w)

\* What a replica has executed is final.
ExecInv ==
  \A r \in Correct :
    /\ Certified(b_exec[r])
    /\ b_exec[r] # b0 => \E z \in proposed : Finalizes(z, b_exec[r])

IInv ==
  TypeOK /\ ChainInv /\ VoteInv /\ VoteOrderInv /\ LockInv /\ ExecInv /\ NoBreach
=============================================================================
