---------------------------- MODULE HotStuffCore ----------------------------
(***************************************************************************)
(* HotStuffCore (consensus.cpp) with the parent selection of PMHighTail    *)
(* (liveness.h), one instance per replica, over an asynchronous network.   *)
(*                                                                         *)
(* The state of a replica is the record of its fields.  A handler calls    *)
(* several of the functions that follow, so these are operators on that    *)
(* record.  update_hqc runs the hqc callback of PMHighTail, which breaks   *)
(* ties between equally high tails in the order of a std::set of pointers: *)
(* any of them may win, so the operators that reach it return the SET of   *)
(* the records that they may leave.                                        *)
(*                                                                         *)
(* Any replica of Proposers may propose at any moment (liveness.h:195): a  *)
(* pacemaker only decides when.  The sets of messages only grow, so that a *)
(* message may be delayed, reordered, repeated or never handled; a replica *)
(* that crashes takes no more steps.                                       *)
(***************************************************************************)
EXTENDS BlockTree

CONSTANTS
  Replicas,   \* ids of the replicas
  Proposers,  \* those that propose (a bound: the code allows all)
  Quorums,    \* the minimal authorized groups
  Blocks      \* the blocks that may be proposed (a bound)

ASSUME ProposersAssumption == Proposers \subseteq Replicas

ASSUME QuorumAssumption ==
  /\ Quorums # {}
  /\ \A Q \in Quorums : Q \subseteq Replicas
  /\ \A Q1, Q2 \in Quorums : Q1 \cap Q2 # {}

ASSUME BlocksAssumption == Blocks \subseteq Tree \ {b0}

VARIABLES
  rep,        \* the fields of every replica's HotStuffCore and PMHighTail
  proposals,  \* the proposals broadcast so far: pairs <<proposer, block>>
  votemsgs    \* the votes sent so far to another replica

vars == <<rep, proposals, votemsgs>>

Block == Blocks \cup {b0}

VoteMsg == [voter : Replicas, blk : Blocks, to : Replicas]

Replica ==
  [delivered : SUBSET Block,          \* blocks with Block::delivered
   decision  : SUBSET Block,          \* blocks with Block::decision = 1
   voted     : SUBSET (Block \X Replicas), \* Block::voted, all blocks
   tails     : SUBSET Block,
   vheight   : Nat,
   hqc       : Block,
   b_lock    : Block,
   b_exec    : Block,
   hqc_tail  : Block,                 \* PMHighTail's
   halted    : {"no", "safety_breached", "not_above_vheight"}]

Init ==
  /\ rep = [r \in Replicas |->
       [delivered |-> {b0}, decision |-> {b0}, voted |-> {b0} \X Replicas,
        tails |-> {b0}, vheight |-> 0, hqc |-> b0, b_lock |-> b0,
        b_exec |-> b0, hqc_tail |-> b0, halted |-> "no"]]
  /\ proposals = {}
  /\ votemsgs = {}

-----------------------------------------------------------------------------
(***************************************************************************)
(* The functions of HotStuffCore and PMHighTail, on the record s.          *)
(***************************************************************************)

\* (Changed: one vote less is enough.)
Authorized_OneLess(G) == \E Q \in Quorums : \E q \in Q : Q \ {q} \subseteq G

Authorized(G) == \E Q \in Quorums : Q \subseteq G

VotersAt(s, b) == {q \in Replicas : <<b, q>> \in s.voted}

\* (Changed: only the top of what is delivered takes its parent's place.)
on_deliver_blk_KeepsTails(s, b) ==
  LET new == Branch(b) \ s.delivered IN
    [s EXCEPT
       !.delivered = @ \cup new,
       !.tails = (@ \ {Parent(b)}) \cup (IF new = {} THEN {} ELSE {b})]

\* on_deliver_blk for b and those of its ancestors that are missing, parents
\* first: each takes the place of its parent among the tails.
on_deliver_blk(s, b) ==
  LET new == Branch(b) \ s.delivered IN
    [s EXCEPT
       !.delivered = @ \cup new,
       !.tails = (@ \ {Parent(n) : n \in new})
                   \cup (IF new = {} THEN {} ELSE {b})]

\* (Changed: the highest tail, on whatever branch.)
HighTails_AnyBranch(s, b) ==
  LET above == {t \in s.tails : Height(t) > Height(b)}
  IN  IF above = {} THEN {b}
      ELSE {t \in above : \A u \in above : Height(u) <= Height(t)}

\* PMHighTail's choice when hqc becomes b.
HighTails(s, b) ==
  LET above == {t \in s.tails : check_ancestry(b, t) /\ Height(t) > Height(b)}
  IN  IF above = {} THEN {b}
      ELSE {t \in above : \A u \in above : Height(u) <= Height(t)}

\* (Changed: any newly certified block replaces hqc.)
update_hqc_Always(s, b) == {[s EXCEPT !.hqc = b, !.hqc_tail = t] : t \in HighTails(s, b)}

update_hqc(s, b) ==
  IF Height(b) > Height(s.hqc)
  THEN {[s EXCEPT !.hqc = b, !.hqc_tail = t] : t \in HighTails(s, b)}
  ELSE {s}

Lock(s, b) == IF Height(b) > Height(s.b_lock) THEN [s EXCEPT !.b_lock = b] ELSE s

\* (Changed: only blk itself is committed, not what the walk passed.)
Commit_TopOnly(s, blk) ==
  IF check_ancestry(s.b_exec, blk)
  THEN [s EXCEPT !.b_exec = blk, !.decision = @ \cup {blk}]
  ELSE [s EXCEPT !.halted = "safety_breached"]

\* (Changed: the walk goes down one block only.)
Commit_OneStep(s, blk) ==
  IF Parent(blk) = s.b_exec
  THEN [s EXCEPT !.b_exec = blk, !.decision = @ \cup {blk}]
  ELSE [s EXCEPT !.halted = "safety_breached"]

\* The walk down from blk to b_exec, and the commit of what it passed.
Commit(s, blk) ==
  IF check_ancestry(s.b_exec, blk)
  THEN [s EXCEPT !.b_exec = blk, !.decision = @ \cup Branch(blk)]
  ELSE [s EXCEPT !.halted = "safety_breached"]

update(s, n) ==
  IF QcRef(n) \in s.decision THEN {s}
  ELSE {IF LockOf(n) \in s.decision THEN s1
        ELSE LET s2 == Lock(s1, LockOf(n)) IN
             IF CommitOf(n) \in s.decision \/ ~DirectParents(n) THEN s2
             ELSE Commit(s2, CommitOf(n))
        : s1 \in update_hqc(s, QcRef(n))}

\* on_receive_proposal's opinion.
Opinion(s, n) ==
  /\ Height(n) > s.vheight
  /\ \/ Height(QcRef(n)) > Height(s.b_lock)
     \/ check_ancestry(s.b_lock, n)

\* (Changed: a vote does not raise vheight.)
Consider_KeepsVheight(s, n) ==
  [s EXCEPT
     !.hqc_tail = IF check_ancestry(s.hqc, n) /\ Height(n) > Height(@)
                  THEN n ELSE @]

\* (Changed: a higher block becomes the tail, on whatever branch.)
Consider_AnyTail(s, n) ==
  [s EXCEPT
     !.vheight = IF Opinion(s, n) THEN Height(n) ELSE @,
     !.hqc_tail = IF Height(n) > Height(@) THEN n ELSE @]

\* vheight, then the callback of PMHighTail on a received proposal.
Consider(s, n) ==
  [s EXCEPT
     !.vheight = IF Opinion(s, n) THEN Height(n) ELSE @,
     !.hqc_tail = IF check_ancestry(s.hqc, n) /\ Height(n) > Height(@)
                  THEN n ELSE @]

\* (Changed: any block is shown.)
MayBroadcast_Always(s, n) == TRUE

\* The test that on_propose makes before it shows its block to anybody.
MayBroadcast(s, n) == Height(n) > s.vheight

on_receive_vote(s, voter, b) ==
  LET s1 == [s EXCEPT !.voted = @ \cup {<<b, voter>>}] IN
  IF Authorized(VotersAt(s, b)) \/ <<b, voter>> \in s.voted THEN {s}
  ELSE IF Authorized(VotersAt(s1, b)) THEN update_hqc(s1, b)
  ELSE {s1}

-----------------------------------------------------------------------------
(***************************************************************************)
(* The steps of the system.                                                *)
(***************************************************************************)

Running(r) == rep[r].halted = "no"

\* on_propose(cmds, pmaker->get_parents()): create, deliver and update, then
\* receive the own proposal and its vote, and broadcast it last.
Propose(r, cmds) ==
  LET s == rep[r]
      n == NewBlock(s.hqc_tail, cmds, s.hqc)
      created == on_deliver_blk([s EXCEPT !.tails = @ \ {s.hqc_tail}], n)
  IN
  /\ Running(r)
  /\ n \in Blocks
  /\ UNCHANGED votemsgs
  /\ \E u \in update(created, n) :
       IF u.halted = "no" /\ MayBroadcast(u, n)
       THEN /\ \E v \in IF Opinion(u, n) THEN on_receive_vote(Consider(u, n), r, n)
                        ELSE {Consider(u, n)} :
                 rep' = [rep EXCEPT ![r] = [v EXCEPT !.hqc_tail = n]]
            /\ proposals' = proposals \cup {<<r, n>>}
       ELSE /\ rep' = [rep EXCEPT ![r] =
                        IF u.halted = "no"
                        THEN [u EXCEPT !.halted = "not_above_vheight"]
                        ELSE u]
            /\ UNCHANGED proposals

\* (Changed: an ancestor does not wait for its own parent.)
DeliverBlk_AnyParent(r, b) ==
  /\ Running(r)
  /\ b \notin rep[r].delivered
  /\ rep' = [rep EXCEPT ![r].delivered = @ \cup {b}]
  /\ UNCHANGED <<proposals, votemsgs>>

\* An ancestor of a proposed block has been fetched and verified before that
\* block itself, and all its own ancestors are delivered.
DeliverBlk(r, b) ==
  LET s == rep[r] IN
  /\ Running(r)
  /\ b \notin s.delivered
  /\ Parent(b) \in s.delivered
  /\ rep' = [rep EXCEPT ![r] = on_deliver_blk(s, b)]
  /\ UNCHANGED <<proposals, votemsgs>>

\* propose_handler: deliver the branch of the proposed block, then
\* on_receive_proposal.
ReceiveProposal(r, p, n) ==
  /\ Running(r)
  /\ p # r
  /\ UNCHANGED proposals
  /\ \E u \in update(on_deliver_blk(rep[r], n), n) :
       IF u.halted # "no"
       THEN /\ rep' = [rep EXCEPT ![r] = u]
            /\ UNCHANGED votemsgs
       ELSE /\ rep' = [rep EXCEPT ![r] = Consider(u, n)]
            /\ votemsgs' = IF Opinion(u, n)
                           THEN votemsgs \cup {[voter |-> r, blk |-> n, to |-> p]}
                           ELSE votemsgs

\* vote_handler: the voted block is the receiver's own, already delivered.
ReceiveVote(r, m) ==
  /\ Running(r)
  /\ m.to = r
  /\ \E u \in on_receive_vote(rep[r], m.voter, m.blk) :
       rep' = [rep EXCEPT ![r] = u]
  /\ UNCHANGED <<proposals, votemsgs>>

Next ==
  \E r \in Replicas :
    \/ r \in Proposers /\ \E cmds \in Payloads : Propose(r, cmds)
    \/ \E p \in proposals : ReceiveProposal(r, p[1], p[2])
    \/ \E p \in proposals : \E b \in Branch(p[2]) \ {b0, p[2]} : DeliverBlk(r, b)
    \/ \E m \in votemsgs : ReceiveVote(r, m)

Spec == Init /\ [][Next]_vars

-----------------------------------------------------------------------------
(***************************************************************************)
(* Correctness.                                                            *)
(***************************************************************************)

TypeOK ==
  /\ rep \in [Replicas -> Replica]
  /\ proposals \in SUBSET (Proposers \X Blocks)
  /\ votemsgs \in SUBSET VoteMsg

\* Blocks that exist anywhere, and the votes cast so far: those sent, and the
\* own votes of proposers, which are not.
Created == UNION {rep[r].delivered : r \in Replicas}

Cast ==
  {<<m.voter, m.blk>> : m \in votemsgs}
    \cup {v \in Replicas \X Blocks : <<v[2], v[1]>> \in rep[v[1]].voted}

VHeights == [r \in Replicas |-> rep[r].vheight]
Locks == [r \in Replicas |-> rep[r].b_lock]
Execs == [r \in Replicas |-> rep[r].b_exec]
Breached == {r \in Replicas : rep[r].halted = "safety_breached"}

\* The replicas together implement the voting rules, whatever the messages do.
Voting == INSTANCE ChainVoting WITH
  Faulty <- {},
  proposed <- Created,
  votes <- Cast,
  vheight <- VHeights,
  b_lock <- Locks,
  b_exec <- Execs,
  breached <- Breached

ImplementsVoting == Voting!Spec

Seen == [r \in Replicas |-> rep[r].delivered]

\* Consensus uses the delivery of blocks as it is promised to work: every block
\* arrives after its parent and was made by a replica that had that parent.
Feed == INSTANCE BlockFeed WITH
  Nodes <- Replicas,
  Genuine <- Block,
  created <- Created,
  delivered <- Seen

ImplementsFeed == Feed!Spec

\* What the replicas execute is one append-only ledger.  b_exec is the sequence of
\* the contents executed, see DecisionIsBranch.
TheLedger == INSTANCE Ledger WITH Nodes <- Replicas, Entries <- Content, log <- Execs

ImplementsLedger == TheLedger!Spec

\* "safety breached" (consensus.cpp:144) is never thrown.
NoSafetyBreach == \A r \in Replicas : rep[r].halted # "safety_breached"

\* A quorum has really voted for the block of every hqc: counting distinct
\* voters per block survives late, repeated and reordered votes.
HqcCertified == \A r \in Replicas : Voting!Certified(rep[r].hqc)

\* The parent that PMHighTail selects is on the branch of hqc, so the
\* certificate in a new block is always for one of its ancestors.
TailFollowsHqc == \A r \in Replicas : check_ancestry(rep[r].hqc, rep[r].hqc_tail)

\* tails holds exactly the delivered blocks without a delivered child, in
\* whatever order own, received and fetched blocks came.
Leaves(D) == {b \in D : \A c \in D \ {b0} : Parent(c) # b}

TailsAreLeaves == \A r \in Replicas : rep[r].tails = Leaves(rep[r].delivered)

\* The decided blocks are the branch of b_exec: the early returns of update()
\* on `decision` never skip an undecided ancestor.
DecisionIsBranch ==
  \A r \in Replicas : rep[r].decision = Branch(rep[r].b_exec)

\* hqc stays above the lock, so a proposer always accepts its own proposal.
AboveLock(s) ==
  \/ Height(s.hqc) > Height(s.b_lock)
  \/ s.b_lock = b0
  \/ TwoStep /\ s.hqc = s.b_lock

HqcAboveLock == \A r \in Replicas : AboveLock(rep[r])

\* No replica broadcasts two blocks of one height, although hqc and hqc_tail
\* may fall back to a lower branch between two proposals.
NoEquivocation ==
  \A p, q \in proposals :
    p[1] = q[1] /\ Height(p[2]) = Height(q[2]) => p = q

\* Why all this holds.  About the fields of one replica: every field names a
\* delivered block, delivered blocks come with their branches, and votes are
\* counted for delivered blocks that the replica has voted up to.
RepInv(s) ==
  /\ b0 \in s.delivered
  /\ \A b \in s.delivered : Branch(b) \subseteq s.delivered
  /\ {s.hqc, s.hqc_tail, s.b_lock, s.b_exec} \subseteq s.delivered
  /\ check_ancestry(s.hqc, s.hqc_tail)
  /\ s.tails = Leaves(s.delivered)
  /\ s.decision = Branch(s.b_exec)
  /\ \A v \in s.voted : v[1] \in s.delivered /\ Height(v[1]) <= s.vheight

\* Messages: a proposer holds what it has broadcast and has voted up to it,
\* votes go to the proposer, and a counted vote has been cast.
MessageInv ==
  /\ \A p \in proposals :
       p[2] \in rep[p[1]].delivered /\ Height(p[2]) <= rep[p[1]].vheight
  /\ \A m \in votemsgs : <<m.to, m.blk>> \in proposals
  /\ \A r \in Replicas : \A v \in rep[r].voted : v[1] = b0 \/ <<v[2], v[1]>> \in Cast

\* The part of the inductive invariant that is about this module; the other
\* part is that of ChainVoting.
CoreInv ==
  /\ TypeOK
  /\ \A r \in Replicas : RepInv(rep[r])
  /\ MessageInv
  /\ HqcCertified
  /\ HqcAboveLock
  /\ NoEquivocation

\* "new block should be higher than vheight" (consensus.cpp:181) is never
\* thrown.
ProposesAboveVheight ==
  \A r \in Replicas : rep[r].halted # "not_above_vheight"
=============================================================================
