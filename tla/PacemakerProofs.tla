-------------------------- MODULE PacemakerProofs --------------------------
(***************************************************************************)
(* The safety of the pacemakers, for every number of replicas, commands,   *)
(* batch size and bound on the chain, with two-step and three-step commit, *)
(* PMWaitQC and PMRoundRobinProposer.                                      *)
(*                                                                         *)
(* A handler calls functions that call functions, so a lemma says of each  *)
(* what it makes of a record t of fields: first the promises, then         *)
(* update() and the callbacks on proposals, then a proposal, then the      *)
(* callbacks that propose, at last the steps.                              *)
(***************************************************************************)
EXTENDS Pacemaker, TLAPS

\* The parts of IInv that hold at every call; FreeInv, LockHasBeat and DummyInv
\* are broken and repaired within a handler.
Good(t) == t \in Fields /\ ChainInv(t) /\ PromiseInv(t) /\ TermInv(t)

\* u has the promises of t, but that some pending ones may be rejected.
Weaker(t, u) ==
  /\ DOMAIN u.qc_waiting = DOMAIN t.qc_waiting
  /\ \A b \in DOMAIN t.qc_waiting :
       \/ u.qc_waiting[b] = t.qc_waiting[b]
       \/ t.qc_waiting[b].state = "pending" /\ u.qc_waiting[b] = Rejected

\* What u has in common with t.
SameRole(t, u) ==
  /\ u.kind = t.kind /\ u.certified = t.certified /\ u.unheard = t.unheard
  /\ u.proposer = t.proposer /\ u.pm_qc_manual = t.pm_qc_manual

SamePast(t, u) ==
  SameRole(t, u) /\ u.chain = t.chain /\ u.prop_blk = t.prop_blk /\ u.heard = t.heard

SameBeats(t, u) ==
  /\ u.pending_beats = t.pending_beats /\ u.pm_qc_finish = t.pm_qc_finish
  /\ u.sent = t.sent /\ u.cmd_pending_buffer = t.cmd_pending_buffer

SameTerm(t, u) ==
  /\ u.rotating = t.rotating /\ u.pm_wait_propose = t.pm_wait_propose
  /\ u.locked = t.locked /\ u.last_proposed = t.last_proposed

Calls(t, u) == u.timer = t.timer /\ u.elected = t.elected

Decided(t, u) == u.hqc = t.hqc /\ u.b_exec = t.b_exec

\* Rejections after rejections.
LEMMA WeakerTrans ==
  ASSUME NEW t, NEW v, NEW w, Weaker(t, v), Weaker(v, w)
  PROVE  Weaker(t, w)
BY DEF Weaker, Rejected

\* The types of the chain's blocks.
LEMMA ChainFacts ==
  ASSUME NEW t, t \in Fields
  PROVE  /\ t.chain \in Seq([by : Ids, cmds : SUBSET Cmds, qc_ref : Nat])
         /\ Len(t.chain) \in Nat /\ DOMAIN t.chain = 1..Len(t.chain)
         /\ \A b \in 1..Len(t.chain) :
              t.chain[b].by \in Ids /\ t.chain[b].cmds \in SUBSET Cmds /\ t.chain[b].qc_ref \in Nat
<1> DEFINE B == [by : Ids, cmds : SUBSET Cmds, qc_ref : Nat]
           C == t.chain
<1>1. C \in Seq(B)
  BY DEF Fields
<1> HIDE DEF B, C
<1>2. Len(C) \in Nat /\ DOMAIN C = 1..Len(C) /\ \A b \in 1..Len(C) : C[b] \in B
  BY <1>1
<1> USE DEF C
<1>3. ASSUME NEW b \in 1..Len(t.chain)
      PROVE  t.chain[b].by \in Ids /\ t.chain[b].cmds \in SUBSET Cmds /\ t.chain[b].qc_ref \in Nat
  <2>1. t.chain[b] \in B
    BY <1>2
  <2> QED BY <2>1 DEF B
<1> QED BY <1>1, <1>2, <1>3 DEF B

\* Reject changes nothing but one pending promise.
LEMMA RejectFacts ==
  ASSUME NEW t \in Fields, NEW b
  PROVE  LET u == Reject(t, b) IN
         /\ u \in Fields /\ SamePast(t, u) /\ SameBeats(t, u) /\ SameTerm(t, u)
         /\ Decided(t, u) /\ Calls(t, u) /\ Weaker(t, u)
         /\ \A c \in DOMAIN t.qc_waiting : c # b => u.qc_waiting[c] = t.qc_waiting[c]
         /\ b \in DOMAIN t.qc_waiting => u.qc_waiting[b].state # "pending"
<1> DEFINE u == Reject(t, b)
<1>1. CASE u = t
  <2>1. b \in DOMAIN t.qc_waiting => u.qc_waiting[b].state # "pending"
    <3>1. DOMAIN t.qc_waiting = 1..(MaxBlocks + 2)
      BY DEF Fields
    <3>2. 0 \notin DOMAIN t.qc_waiting /\ None \notin DOMAIN t.qc_waiting
      BY <3>1 DEF None
    <3>3. Rejected.state # "pending"
      BY DEF Rejected
    <3>4. [t EXCEPT !.qc_waiting[b] = Rejected].qc_waiting =
            [t.qc_waiting EXCEPT ![b] = Rejected]
      BY DEF Fields
    <3> QED BY <1>1, <3>2, <3>3, <3>4 DEF Reject
  <2> QED
    BY <1>1, <2>1 DEF SamePast, SameRole, SameBeats, SameTerm, Decided, Calls, Weaker
<1>2. CASE u # t
  <2>1. u = [t EXCEPT !.qc_waiting[b] = Rejected] /\ t.qc_waiting[b].state = "pending"
    BY <1>2 DEF Reject
  <2>2. Rejected \in [state : {"absent", "pending", "rejected"}, cbs : Seq(Callback)]
    BY DEF Rejected
  <2> HIDE DEF u
  <2>3. u \in Fields /\ SamePast(t, u) /\ SameBeats(t, u) /\ SameTerm(t, u) /\ Decided(t, u) /\ Calls(t, u)
    BY <2>1, <2>2 DEF Fields, SamePast, SameRole, SameBeats, SameTerm, Decided, Calls
  <2>4. /\ Weaker(t, u)
        /\ \A c \in DOMAIN t.qc_waiting : c # b => u.qc_waiting[c] = t.qc_waiting[c]
        /\ b \in DOMAIN t.qc_waiting => u.qc_waiting[b].state # "pending"
    BY <2>1 DEF Fields, Weaker, Rejected
  <2> QED BY <2>3, <2>4 DEF u
<1> QED BY <1>1, <1>2

\* stop_rotate ends the rotation without a lock.
LEMMA StopRotateFacts ==
  ASSUME NEW t, t \in Fields
  PROVE  LET u == stop_rotate(t) IN
         /\ u \in Fields /\ SamePast(t, u) /\ SameBeats(t, u) /\ Decided(t, u) /\ Weaker(t, u)
         /\ ~u.rotating /\ u.pm_wait_propose /\ ~u.locked /\ u.last_proposed = 0
<1> DEFINE v == Reject(t, t.pm_qc_finish)
           w == Reject(v, t.pm_qc_manual)
           u == stop_rotate(t)
           e == IF t.proposer = Self THEN w.elected + 1 ELSE w.elected
<1>1. v \in Fields /\ SamePast(t, v) /\ SameBeats(t, v) /\ Decided(t, v) /\ Weaker(t, v)
  BY RejectFacts
<1>2. w \in Fields /\ SamePast(v, w) /\ SameBeats(v, w) /\ Decided(v, w) /\ Weaker(v, w)
  BY <1>1, RejectFacts
<1>3. e \in Nat
  BY <1>2, SMTT(30) DEF Fields
<1>4. u = [w EXCEPT !.timer = "none", !.rotating = FALSE, !.locked = FALSE,
                    !.last_proposed = 0, !.pm_wait_propose = TRUE,
                    !.elected = e, !.beats = {}]
  BY <1>1, <1>2 DEF stop_rotate, SamePast, SameRole, SameBeats, Fields
<1> HIDE DEF u, v, w, e
<1>5. u \in Fields
  BY <1>2, <1>3, <1>4, ZenonT(60) DEF Fields
<1>6. /\ SamePast(w, u) /\ SameBeats(w, u) /\ Decided(w, u) /\ u.qc_waiting = w.qc_waiting
      /\ ~u.rotating /\ u.pm_wait_propose /\ ~u.locked /\ u.last_proposed = 0
  BY <1>2, <1>4 DEF Fields, SamePast, SameRole, SameBeats, Decided
<1>7. SamePast(t, u) /\ SameBeats(t, u) /\ Decided(t, u)
  BY <1>1, <1>2, <1>6 DEF SamePast, SameRole, SameBeats, Decided
<1>8. Weaker(t, u)
  BY <1>1, <1>2, <1>6, WeakerTrans DEF Weaker
<1> QED BY <1>5, <1>6, <1>7, <1>8 DEF u

\* Rejections keep the invariant.
LEMMA WeakerKeeps ==
  ASSUME NEW t, NEW u, Good(t), u \in Fields, SamePast(t, u), Weaker(t, u),
         u.pm_qc_finish <= Len(t.chain), u.hqc <= Len(t.chain), u.b_exec <= Len(t.chain),
         u.last_proposed \in {0} \cup Own(t), (u.pm_wait_propose <=> ~u.rotating)
  PROVE  Good(u)
<1>1. ChainInv(u)
  <2>1. u.last_proposed <= Len(t.chain)
    BY SMTT(30) DEF Good, Fields, Own
  <2> QED BY <2>1 DEF Good, ChainInv, SamePast, SameRole, SameBeats, Own
<1>2. PromiseInv(u)
  <2> SUFFICES ASSUME NEW b \in DOMAIN t.qc_waiting
               PROVE  /\ b > Len(u.chain) \/ b \in u.certified => u.qc_waiting[b] = Absent
                      /\ u.qc_waiting[b].state # "pending" => u.qc_waiting[b].cbs = << >>
                      /\ Len(u.qc_waiting[b].cbs) <= 2
                      /\ \A kind \in {"beat", "manual"} :
                           \A i, j \in On(u, b, kind) : i = j
                      /\ On(u, b, "manual") # {} => b = u.pm_qc_manual
    BY DEF PromiseInv, Weaker
  <2>1. CASE u.qc_waiting[b] = t.qc_waiting[b]
    BY <2>1 DEF Good, PromiseInv, SamePast, SameRole, SameBeats, On
  <2>2. CASE t.qc_waiting[b].state = "pending" /\ u.qc_waiting[b] = Rejected
    BY <2>2 DEF Good, PromiseInv, SamePast, SameRole, SameBeats, On, Rejected, Absent
  <2> QED BY <2>1, <2>2 DEF Weaker
<1>3. TermInv(u)
  BY DEF Good, TermInv, SamePast, SameRole, SameBeats
<1> QED BY <1>1, <1>2, <1>3 DEF Good

\* What update() does to a replica: it decides blocks, which may end the rotation.
Updated(t, u) ==
  /\ Good(u) /\ SamePast(t, u) /\ SameBeats(t, u) /\ Weaker(t, u)
  /\ u.b_exec >= t.b_exec
  /\ t.kind = "dummy" => Calls(t, u)
  /\ \/ SameTerm(t, u) /\ u.qc_waiting = t.qc_waiting
     \/ /\ ~u.rotating /\ ~u.locked /\ u.last_proposed = 0 /\ t.kind # "dummy"
        /\ t.prop_blk[t.proposer] \in (t.b_exec + 1)..u.b_exec

\* Commit of blocks above b_exec, with on_consensus of each.
LEMMA CommitFacts ==
  ASSUME NEW t, Good(t), NEW blk \in Nat, t.b_exec < blk, blk <= Len(t.chain)
  PROVE  Updated(t, Commit(t, blk))
<1> DEFINE run == (t.b_exec + 1)..blk
           D == t.decision_waiting \ UNION {t.chain[b].cmds : b \in run}
           v == [t EXCEPT !.b_exec = blk, !.decision_waiting = D]
           u == Commit(t, blk)
<1>1. t \in Fields /\ t.b_exec \in Nat
  BY DEF Good, Fields
<1>2. D \in SUBSET Cmds
  BY <1>1 DEF Fields
<1>3. u = on_consensus(v, run)
  BY <1>1 DEF Commit, Fields
<1> HIDE DEF D, u
<1>4. v \in Fields
  BY <1>1, <1>2 DEF Fields
<1>5. /\ SamePast(t, v) /\ SameBeats(t, v) /\ SameTerm(t, v) /\ Calls(t, v)
      /\ v.b_exec = blk /\ v.hqc = t.hqc /\ v.qc_waiting = t.qc_waiting
  BY <1>1 DEF Fields, SamePast, SameRole, SameBeats, SameTerm, Calls
<1> HIDE DEF v
<1>6. Weaker(t, v)
  BY <1>5 DEF Weaker
<1>7. t.hqc <= Len(t.chain) /\ t.pm_qc_finish <= Len(t.chain) /\ t.last_proposed \in {0} \cup Own(t)
      /\ (t.pm_wait_propose <=> ~t.rotating)
  BY DEF Good, ChainInv, TermInv
<1>8. CASE t.kind = "dummy"
  <2>1. u = v
    BY <1>3, <1>5, <1>8 DEF on_consensus, SamePast, SameRole, SameBeats
  <2>2. Good(v)
    BY <1>4, <1>5, <1>6, <1>7, WeakerKeeps DEF SameTerm, SameBeats
  <2> QED BY <1>1, <1>5, <1>6, <2>1, <2>2 DEF Updated, u
<1>9. CASE t.kind # "dummy" /\ v.prop_blk[v.proposer] \in run
  <2>1. u = stop_rotate(v)
    BY <1>3, <1>5, <1>9 DEF on_consensus, SamePast, SameRole, SameBeats
  <2>2. /\ u \in Fields /\ SamePast(v, u) /\ SameBeats(v, u) /\ Decided(v, u) /\ Weaker(v, u)
        /\ ~u.rotating /\ u.pm_wait_propose /\ ~u.locked /\ u.last_proposed = 0
    BY <1>4, <2>1, StopRotateFacts
  <2>3. SamePast(t, u) /\ SameBeats(t, u) /\ Weaker(t, u) /\ u.b_exec = blk /\ u.hqc = t.hqc
    BY <1>5, <1>6, <2>2, WeakerTrans DEF SamePast, SameRole, SameBeats, Decided
  <2>4. Good(u)
    BY <1>7, <2>2, <2>3, WeakerKeeps DEF SameBeats
  <2>5. t.prop_blk[t.proposer] \in run
    BY <1>5, <1>9 DEF SamePast, SameRole, SameBeats
  <2> QED BY <1>1, <1>9, <2>2, <2>3, <2>4, <2>5 DEF Updated, u
<1>10. CASE t.kind # "dummy" /\ ~(v.prop_blk[v.proposer] \in run)
  <2>1. u = [v EXCEPT !.timer = "none"]
    BY <1>3, <1>5, <1>10 DEF on_consensus, SamePast, SameRole, SameBeats
  <2>2. u \in Fields
    BY <1>4, <2>1 DEF Fields
  <2>3. SamePast(v, u) /\ SameBeats(v, u) /\ SameTerm(v, u) /\ Decided(v, u) /\ u.qc_waiting = v.qc_waiting
    BY <1>4, <2>1 DEF Fields, SamePast, SameRole, SameBeats, SameTerm, Decided
  <2>4. /\ SamePast(t, u) /\ SameBeats(t, u) /\ SameTerm(t, u) /\ u.b_exec = blk /\ u.hqc = t.hqc
        /\ u.qc_waiting = t.qc_waiting
    BY <1>5, <2>3 DEF SamePast, SameRole, SameBeats, SameTerm, Decided
  <2>5. Weaker(t, u)
    BY <2>4 DEF Weaker
  <2>6. Good(u)
    BY <1>7, <2>2, <2>4, <2>5, WeakerKeeps DEF SameTerm, SameBeats
  <2> QED BY <1>1, <1>10, <2>4, <2>5, <2>6 DEF Updated, u
<1> QED BY <1>8, <1>9, <1>10

\* hqc is the maximum of two heights.
LEMMA MaxOfTwo ==
  ASSUME NEW x \in Nat, NEW y \in Nat
  PROVE  Max({x, y}) \in {x, y} /\ Max({x, y}) >= x /\ Max({x, y}) >= y
<1>1. \E z \in {x, y} : \A w \in {x, y} : z >= w
  <2>1. CASE x >= y
    BY <2>1
  <2>2. CASE y >= x
    BY <2>2
  <2> QED BY <2>1, <2>2
<1> QED BY <1>1 DEF Max

\* update() of a block of the chain.
LEMMA UpdateFacts ==
  ASSUME NEW t, Good(t), NEW n \in DOMAIN t.chain
  PROVE  Updated(t, update(t, n))
<1> DEFINE blk2 == QcRef(t, n)
           blk1 == IF TwoStep THEN blk2 ELSE QcRef(t, blk2)
           blk == QcRef(t, blk1)
           h == Max({t.hqc, blk2})
           u == [t EXCEPT !.hqc = h]
<1>1. t \in Fields /\ t.hqc \in Nat /\ t.hqc <= Len(t.chain) /\ Len(t.chain) \in Nat
      /\ t.b_exec \in Nat /\ t.b_exec <= Len(t.chain)
  BY SMTT(30) DEF Good, Fields, ChainInv
<1>2. \A b \in 0..Len(t.chain) : QcRef(t, b) \in 0..Len(t.chain)
  BY <1>1, ChainFacts DEF Good, ChainInv, QcRef
<1>3. blk2 \in 0..Len(t.chain)
  BY <1>1, <1>2, ChainFacts, SMTT(30)
<1>4. blk1 \in 0..Len(t.chain)
  BY <1>2, <1>3
<1>5. blk \in 0..Len(t.chain)
  BY <1>2, <1>4
<1>6. update(t, n) \in {t, u} \/ (update(t, n) = Commit(u, blk) /\ blk > t.b_exec)
  BY <1>1, <1>3, <1>4, <1>5 DEF update
<1> HIDE DEF blk2, blk1, blk
<1>7. h \in Nat /\ h <= Len(t.chain)
  BY <1>1, <1>3, MaxOfTwo
<1> HIDE DEF h
<1>8. u \in Fields /\ u.hqc <= Len(t.chain)
  BY <1>1, <1>7 DEF Fields
<1>9. /\ SamePast(t, u) /\ SameBeats(t, u) /\ SameTerm(t, u) /\ Calls(t, u)
      /\ u.b_exec = t.b_exec /\ u.qc_waiting = t.qc_waiting
  BY <1>1 DEF Fields, SamePast, SameRole, SameBeats, SameTerm, Calls
<1> HIDE DEF u
<1>10. Updated(t, u)
  <2>1. t.last_proposed \in {0} \cup Own(t) /\ (t.pm_wait_propose <=> ~t.rotating)
        /\ t.pm_qc_finish <= Len(t.chain)
    BY DEF Good, ChainInv, TermInv
  <2>2. Weaker(t, u)
    BY <1>9 DEF Weaker
  <2>3. Good(u)
    BY <1>1, <1>8, <1>9, <2>1, <2>2, WeakerKeeps DEF SameTerm, SameBeats
  <2> QED BY <1>1, <1>9, <2>2, <2>3 DEF Updated
<1>11. Updated(t, t)
  BY <1>1 DEF Updated, SamePast, SameRole, SameBeats, SameTerm, Weaker, Calls
<1>12. CASE update(t, n) = Commit(u, blk) /\ blk > t.b_exec
  <2>1. Updated(u, Commit(u, blk))
    BY <1>1, <1>5, <1>9, <1>10, <1>12, CommitFacts DEF Updated, SamePast, SameRole, SameBeats
  <2>2. Weaker(t, Commit(u, blk))
    BY <1>10, <2>1, WeakerTrans DEF Updated
  <2> QED BY <1>9, <1>12, <2>1, <2>2 DEF Updated, SamePast, SameRole, SameBeats, SameTerm, Calls
<1> QED BY <1>6, <1>10, <1>11, <1>12

-----------------------------------------------------------------------------
\* What no handler but rotate changes, and how a rotation ends.
Stay(t, u) ==
  /\ u.kind = t.kind /\ u.proposer = t.proposer /\ t.heard \subseteq u.heard
  /\ Len(u.chain) >= Len(t.chain)
  /\ \A b \in DOMAIN t.chain : u.chain[b] = t.chain[b]
  /\ u.b_exec >= t.b_exec
  /\ t.rotating /\ ~u.rotating =>
       \E b \in (t.b_exec + 1)..u.b_exec :
         /\ b \in u.heard /\ b \in DOMAIN u.chain
         /\ u.chain[b].by = u.proposer

\* Stay is reflexive and transitive.
LEMMA StayRefl ==
  ASSUME NEW t, t \in Fields
  PROVE  Stay(t, t) /\ Len(t.chain) <= Len(t.chain) + 1
<1>1. t.b_exec \in Nat /\ Len(t.chain) \in Nat
  BY ChainFacts DEF Fields
<1> QED BY <1>1 DEF Stay

LEMMA StayTrans ==
  ASSUME NEW t, NEW v, NEW u, t \in Fields, v \in Fields, u \in Fields,
         Stay(t, v), Stay(v, u)
  PROVE  Stay(t, u)
<1>1. t.b_exec \in Nat /\ v.b_exec \in Nat /\ u.b_exec \in Nat
  BY DEF Fields
<1>2. /\ Len(t.chain) \in Nat /\ DOMAIN t.chain = 1..Len(t.chain)
      /\ Len(v.chain) \in Nat /\ DOMAIN v.chain = 1..Len(v.chain)
      /\ Len(u.chain) \in Nat /\ DOMAIN u.chain = 1..Len(u.chain)
  BY ChainFacts
<1>3. /\ u.kind = t.kind /\ u.proposer = t.proposer /\ t.heard \subseteq u.heard
      /\ Len(u.chain) >= Len(t.chain)
      /\ u.b_exec >= t.b_exec
  <2>1. u.kind = t.kind /\ u.proposer = t.proposer /\ t.heard \subseteq u.heard
    BY DEF Stay
  <2>2. Len(u.chain) >= Len(v.chain) /\ Len(v.chain) >= Len(t.chain)
        /\ u.b_exec >= v.b_exec /\ v.b_exec >= t.b_exec
    BY DEF Stay
  <2> QED BY <1>1, <1>2, <2>1, <2>2
<1>4. ASSUME NEW b \in DOMAIN t.chain PROVE u.chain[b] = t.chain[b]
  BY <1>2 DEF Stay
<1>5. ASSUME t.rotating, ~u.rotating
      PROVE  \E b \in (t.b_exec + 1)..u.b_exec :
                /\ b \in u.heard /\ b \in DOMAIN u.chain
                /\ u.chain[b].by = u.proposer
  <2>1. CASE v.rotating
    <3>1. PICK b \in (v.b_exec + 1)..u.b_exec :
             b \in u.heard /\ b \in DOMAIN u.chain /\ u.chain[b].by = u.proposer
      BY <1>5, <2>1 DEF Stay
    <3>2. v.b_exec >= t.b_exec
      BY DEF Stay
    <3> QED BY <1>1, <3>1, <3>2
  <2>2. CASE ~v.rotating
    <3>1. PICK b \in (t.b_exec + 1)..v.b_exec :
             b \in v.heard /\ b \in DOMAIN v.chain /\ v.chain[b].by = v.proposer
      BY <1>5, <2>2 DEF Stay
    <3>2. b \in u.heard /\ b \in DOMAIN u.chain /\ u.chain[b] = v.chain[b]
          /\ u.proposer = v.proposer /\ u.b_exec >= v.b_exec
      BY <1>2, <3>1 DEF Stay
    <3> QED BY <1>1, <3>1, <3>2
  <2> QED BY <2>1, <2>2
<1> QED BY <1>3, <1>4, <1>5 DEF Stay

\* v is t with a new block at the end of the chain.
Appended(t, by, cmds, v) ==
  /\ Good(v)
  /\ Len(v.chain) = Len(t.chain) + 1
  /\ v.chain[Len(t.chain) + 1].by = by /\ v.chain[Len(t.chain) + 1].cmds = cmds
  /\ \A b \in DOMAIN t.chain : v.chain[b] = t.chain[b]
  /\ SameRole(t, v) /\ SameBeats(t, v) /\ v.prop_blk = t.prop_blk /\ v.heard = t.heard
  /\ SameTerm(t, v) /\ Decided(t, v) /\ Calls(t, v)
  /\ v.qc_waiting = t.qc_waiting

\* A new block keeps what is said of the old ones.
LEMMA DeliverFacts ==
  ASSUME NEW t, Good(t), NEW by \in Ids, NEW cmds \in SUBSET Cmds,
         NEW qc_ref \in 0..Len(t.chain)
  PROVE  Appended(t, by, cmds, Deliver(t, by, cmds, qc_ref))
<1> DEFINE B == [by |-> by, cmds |-> cmds, qc_ref |-> qc_ref]
           C == Append(t.chain, B)
           v == Deliver(t, by, cmds, qc_ref)
           n == Len(t.chain) + 1
<1>1. /\ t \in Fields /\ Len(t.chain) \in Nat /\ DOMAIN t.chain = 1..Len(t.chain)
      /\ t.chain \in Seq([by : Ids, cmds : SUBSET Cmds, qc_ref : Nat])
  BY ChainFacts DEF Good
<1>2. B \in [by : Ids, cmds : SUBSET Cmds, qc_ref : Nat] /\ B.by = by /\ B.cmds = cmds /\ B.qc_ref < n
  BY <1>1
<1> HIDE DEF B
<1>3. /\ C \in Seq([by : Ids, cmds : SUBSET Cmds, qc_ref : Nat])
      /\ Len(C) = n /\ DOMAIN C = 1..n /\ C[n] = B
      /\ \A b \in 1..Len(t.chain) : C[b] = t.chain[b]
  BY <1>1, <1>2
<1>4. v = [t EXCEPT !.chain = C]
  BY <1>1 DEF Deliver, B, Fields
<1> HIDE DEF C, v
<1>5. v \in Fields
  BY <1>1, <1>3, <1>4, ZenonT(60) DEF Fields
<1>6. /\ v.chain = C /\ SameRole(t, v) /\ SameBeats(t, v)
      /\ SameTerm(t, v) /\ Decided(t, v) /\ Calls(t, v)
      /\ v.qc_waiting = t.qc_waiting /\ v.certified = t.certified
      /\ v.heard = t.heard /\ v.unheard = t.unheard /\ v.prop_blk = t.prop_blk
      /\ v.pm_qc_finish = t.pm_qc_finish /\ v.pm_qc_manual = t.pm_qc_manual
  BY <1>1, <1>4 DEF Fields, SamePast, SameRole, SameBeats, SameTerm, Decided, Calls
<1>7. Own(t) \subseteq Own(v)
  BY <1>1, <1>3, <1>6, SMTT(30) DEF Own
<1>8. ChainInv(v)
  <2>1. \A b \in {v.hqc, v.b_exec, v.last_proposed, v.pm_qc_finish, v.pm_qc_manual} :
          b <= Len(v.chain)
    <3>1. \A b \in {t.hqc, t.b_exec, t.last_proposed, t.pm_qc_finish, t.pm_qc_manual} :
            b <= Len(t.chain) /\ b \in Int
      <4>1. /\ t.hqc \in Int /\ t.b_exec \in Int /\ t.last_proposed \in Int
            /\ t.pm_qc_finish \in Int /\ t.pm_qc_manual \in Int
        BY <1>1 DEF Fields, None
      <4> QED BY <4>1 DEF Good, ChainInv
    <3>2. \A b \in {t.hqc, t.b_exec, t.last_proposed, t.pm_qc_finish, t.pm_qc_manual} :
            b <= n
      BY <1>1, <3>1
    <3> QED BY <1>3, <1>6, <3>2 DEF SameTerm, Decided
  <2>2. ASSUME NEW b \in DOMAIN v.chain PROVE v.chain[b].qc_ref < b
    <3>1. CASE b = n
      BY <1>2, <1>3, <1>6, <3>1
    <3>2. CASE b # n
      BY <1>1, <1>3, <1>6, <3>2, SMTT(60) DEF Good, ChainInv
    <3> QED BY <3>1, <3>2
  <2>3. v.heard \subseteq DOMAIN v.chain /\ v.unheard \subseteq DOMAIN v.chain \ Own(v)
    <3>1. t.heard \subseteq 1..Len(t.chain) /\ t.unheard \subseteq (1..Len(t.chain)) \ Own(t)
      BY <1>1 DEF Good, ChainInv
    <3>2. 1..Len(t.chain) \subseteq 1..n
      BY <1>1
    <3>3. \A b \in 1..Len(t.chain) : b \in Own(v) => b \in Own(t)
      BY <1>1, <1>3, <1>6 DEF Own
    <3> HIDE DEF n
    <3> QED BY <1>3, <1>6, <3>1, <3>2, <3>3
  <2> QED BY <1>6, <1>7, <2>1, <2>2, <2>3 DEF Good, ChainInv, SameTerm
<1>9. PromiseInv(v)
  <2>1. \A b \in DOMAIN t.qc_waiting : b \in Int
    BY <1>1 DEF Fields
  <2>2. \A b \in DOMAIN t.qc_waiting : b > n => b > Len(t.chain)
    BY <1>1, <2>1
  <2> QED BY <1>3, <1>6, <2>2 DEF Good, PromiseInv, On
<1>10. TermInv(v)
  <2>1. ASSUME NEW q \in Ids, t.prop_blk[q] # None
        PROVE  t.prop_blk[q] \in t.heard /\ C[t.prop_blk[q]].by = q
    <3>1. t.prop_blk[q] \in t.heard /\ t.chain[t.prop_blk[q]].by = q
      BY <2>1 DEF Good, TermInv
    <3>2. t.prop_blk[q] \in 1..Len(t.chain)
      BY <1>1, <3>1 DEF Good, ChainInv
    <3> QED BY <1>3, <3>1, <3>2
  <2> QED BY <1>3, <1>6, <2>1 DEF Good, TermInv, SameTerm
<1> QED
  BY <1>1, <1>2, <1>3, <1>5, <1>6, <1>8, <1>9, <1>10 DEF Good, Appended, v

\* Who made the block of the proposal is remembered for the end of the rotation.
LEMMA RememberFacts ==
  ASSUME NEW t, Good(t), NEW n \in DOMAIN t.chain
  PROVE  LET u == Remember(t, n) IN
         /\ Good(u)
         /\ SameRole(t, u) /\ SameBeats(t, u) /\ u.chain = t.chain /\ u.heard = t.heard \cup {n}
         /\ SameTerm(t, u) /\ Decided(t, u) /\ Calls(t, u)
         /\ u.qc_waiting = t.qc_waiting
<1> DEFINE by == t.chain[n].by
           registered == t.reg_receive_proposal \/ (by = Self /\ t.reg_proposal)
           P == [t.prop_blk EXCEPT ![by] = IF @ = None /\ registered THEN n ELSE @]
           R1 == t.reg_receive_proposal /\ t.rotating
           R2 == IF by = Self THEN t.reg_proposal /\ t.rotating ELSE t.reg_proposal
           H == t.heard \cup {n}
           u == Remember(t, n)
<1>1. /\ t \in Fields /\ Len(t.chain) \in Nat /\ DOMAIN t.chain = 1..Len(t.chain)
      /\ by \in Ids /\ n \in Nat
  BY ChainFacts DEF Good
<1>2. R1 \in BOOLEAN /\ R2 \in BOOLEAN /\ H \in SUBSET Nat /\ t.prop_blk \in [Ids -> Nat \cup {None}]
  BY <1>1 DEF Fields
<1>3. P \in [Ids -> Nat \cup {None}]
  BY <1>1, <1>2
<1>4. u = [t EXCEPT !.prop_blk = P, !.heard = H, !.reg_receive_proposal = R1, !.reg_proposal = R2]
  BY <1>1 DEF Remember, Fields
<1>5. \A q \in Ids : P[q] = t.prop_blk[q] \/ (P[q] = n /\ q = by)
  BY <1>1, <1>2
<1> HIDE DEF P, H, R1, R2, u
<1>6. u \in Fields
  BY <1>1, <1>2, <1>3, <1>4, ZenonT(60) DEF Fields
<1>7. /\ SameRole(t, u) /\ SameBeats(t, u) /\ u.prop_blk = P
      /\ u.chain = t.chain /\ u.heard = H /\ u.unheard = t.unheard /\ u.certified = t.certified
      /\ u.pm_qc_finish = t.pm_qc_finish /\ u.pm_qc_manual = t.pm_qc_manual
      /\ SameTerm(t, u) /\ Decided(t, u) /\ Calls(t, u)
      /\ u.qc_waiting = t.qc_waiting
  BY <1>1, <1>4 DEF Fields, SamePast, SameRole, SameBeats, SameTerm, Decided, Calls
<1>8. ChainInv(u) /\ PromiseInv(u)
  <2>1. u.heard \subseteq DOMAIN t.chain
    BY <1>7 DEF Good, ChainInv, H
  <2> QED BY <1>7, <2>1 DEF Good, ChainInv, PromiseInv, Own, On, SameTerm, Decided
<1>9. TermInv(u)
  <2>1. ASSUME NEW q \in Ids, P[q] # None
        PROVE  P[q] \in H /\ t.chain[P[q]].by = q
    <3>1. CASE P[q] = t.prop_blk[q]
      BY <2>1, <3>1 DEF Good, TermInv, H
    <3>2. CASE P[q] = n /\ q = by
      BY <3>2 DEF H
    <3> QED BY <1>5, <3>1, <3>2
  <2> QED BY <1>7, <2>1 DEF Good, TermInv, SameTerm
<1> QED BY <1>6, <1>7, <1>8, <1>9 DEF Good, u, H

\* A callback on the promise of an own block without a certificate.
LEMMA OnQcFacts ==
  ASSUME NEW t, Good(t), NEW b \in Own(t), b \notin t.certified,
         b \in DOMAIN t.qc_waiting, t.qc_waiting[b].state # "rejected",
         NEW kind \in {"beat", "manual"}, NEW cb \in Callback, DOMAIN cb = {kind},
         On(t, b, kind) = {}, kind = "manual" => b = t.pm_qc_manual
  PROVE  LET u == OnQc(t, b, cb) IN
         /\ Good(u) /\ SamePast(t, u) /\ SameBeats(t, u) /\ SameTerm(t, u) /\ Decided(t, u) /\ Calls(t, u)
         /\ On(u, b, kind) # {} /\ u.qc_waiting[b].state = "pending"
         /\ u.qc_waiting[b].cbs = Append(t.qc_waiting[b].cbs, cb)
         /\ \A c \in DOMAIN t.qc_waiting, k \in {"beat", "manual"} :
              c # b \/ k # kind => On(u, c, k) = On(t, c, k)
         /\ \A c \in DOMAIN t.qc_waiting : c # b => u.qc_waiting[c] = t.qc_waiting[c]
<1> DEFINE old == t.qc_waiting[b].cbs
           cbs == Append(old, cb)
           entry == [state |-> "pending", cbs |-> cbs]
           u == OnQc(t, b, cb)
<1>1. /\ t \in Fields /\ t.qc_waiting[b].state \in {"absent", "pending", "rejected"}
      /\ old \in Seq(Callback)
  BY DEF Good, Fields
<1>2. /\ Len(old) \in Nat /\ DOMAIN old = 1..Len(old)
      /\ cbs \in Seq(Callback) /\ Len(cbs) = Len(old) + 1 /\ DOMAIN cbs = 1..(Len(old) + 1)
      /\ cbs[Len(old) + 1] = cb
      /\ \A i \in 1..Len(old) : cbs[i] = old[i]
  BY <1>1
<1>3. u = [t EXCEPT !.qc_waiting[b] = entry]
  BY <1>1 DEF OnQc, Fields
<1>4. Len(old) <= 1
  <2>1. Len(old) <= 2 /\ \A i, j \in 1..Len(old) :
          ("beat" \in DOMAIN old[i] /\ "beat" \in DOMAIN old[j] => i = j)
          /\ ("manual" \in DOMAIN old[i] /\ "manual" \in DOMAIN old[j] => i = j)
    BY <1>2 DEF Good, PromiseInv, On
  <2>2. \A i \in 1..Len(old) : "beat" \in DOMAIN old[i] \/ "manual" \in DOMAIN old[i]
    BY <1>1, <1>2 DEF Callback
  <2>3. \A i \in 1..Len(old) : kind \notin DOMAIN old[i]
    BY <1>2 DEF On
  <2>4. \A i, j \in 1..Len(old) : i = j
    BY <2>1, <2>2, <2>3
  <2> QED BY <1>2, <2>4
<1>5. entry \in [state : {"absent", "pending", "rejected"}, cbs : Seq(Callback)]
      /\ entry.cbs = cbs /\ entry.state = "pending"
  BY <1>2
<1> HIDE DEF u, cbs, entry
<1>6. u \in Fields
  BY <1>1, <1>3, <1>5, ZenonT(60) DEF Fields
<1>7. SamePast(t, u) /\ SameBeats(t, u) /\ SameTerm(t, u) /\ Decided(t, u) /\ Calls(t, u)
  BY <1>1, <1>3 DEF Fields, SamePast, SameRole, SameBeats, SameTerm, Decided, Calls
<1>8. /\ DOMAIN u.qc_waiting = DOMAIN t.qc_waiting /\ u.qc_waiting[b] = entry
      /\ \A c \in DOMAIN t.qc_waiting : c # b => u.qc_waiting[c] = t.qc_waiting[c]
  BY <1>1, <1>3 DEF Fields
<1>9. /\ On(u, b, kind) = {Len(old) + 1}
      /\ \A k \in {"beat", "manual"} : k # kind => On(u, b, k) = On(t, b, k)
  <2>1. u.qc_waiting[b].cbs = cbs
    BY <1>5, <1>8
  <2>2. \A i \in 1..Len(old) : kind \notin DOMAIN old[i]
    BY <1>2 DEF On
  <2>3. kind \in DOMAIN cbs[Len(old) + 1]
        /\ \A k \in {"beat", "manual"} : k # kind => k \notin DOMAIN cbs[Len(old) + 1]
    BY <1>2
  <2>4. \A k : On(u, b, k) = {i \in 1..(Len(old) + 1) : k \in DOMAIN cbs[i]}
    BY <1>2, <2>1 DEF On
  <2>5. \A k : On(t, b, k) = {i \in 1..Len(old) : k \in DOMAIN cbs[i]}
    BY <1>2 DEF On
  <2>6. 1..(Len(old) + 1) = 1..Len(old) \cup {Len(old) + 1}
    BY <1>2
  <2>7. \A i \in 1..Len(old) : kind \notin DOMAIN cbs[i]
    BY <1>2, <2>2
  <2> HIDE DEF old
  <2> QED BY <2>3, <2>4, <2>5, <2>6, <2>7
<1>10. \A c \in DOMAIN t.qc_waiting, k \in {"beat", "manual"} :
         c # b \/ k # kind => On(u, c, k) = On(t, c, k)
  BY <1>8, <1>9 DEF On
<1>11. ChainInv(u) /\ TermInv(u)
  BY <1>7 DEF Good, ChainInv, TermInv, Own, SamePast, SameRole, SameBeats, SameTerm, Decided
<1>12. PromiseInv(u)
  <2> SUFFICES ASSUME NEW c \in DOMAIN t.qc_waiting
               PROVE  /\ c > Len(t.chain) \/ c \in t.certified => u.qc_waiting[c] = Absent
                      /\ u.qc_waiting[c].state # "pending" => u.qc_waiting[c].cbs = << >>
                      /\ Len(u.qc_waiting[c].cbs) <= 2
                      /\ \A k \in {"beat", "manual"} :
                           \A i, j \in On(u, c, k) : i = j
                      /\ On(u, c, "manual") # {} => c = t.pm_qc_manual
    BY <1>7, <1>8 DEF PromiseInv, SamePast, SameRole, SameBeats
  <2>1. CASE c # b
    BY <1>8, <1>10, <2>1 DEF Good, PromiseInv
  <2>2. CASE c = b
    <3>1. ~(c > Len(t.chain)) /\ c \notin t.certified
      BY <1>1, <2>2, ChainFacts DEF Own
    <3>2. Len(cbs) <= 2
      BY <1>2, <1>4
    <3>3. \A k \in {"beat", "manual"} : \A i, j \in On(u, c, k) : i = j
      BY <1>9, <1>10, <2>2 DEF Good, PromiseInv
    <3>4. On(u, c, "manual") # {} => c = t.pm_qc_manual
      BY <1>10, <2>2 DEF Good, PromiseInv
    <3> QED BY <1>5, <1>8, <2>2, <3>1, <3>2, <3>3, <3>4
  <2> QED BY <2>1, <2>2
<1> QED
  BY <1>5, <1>6, <1>7, <1>8, <1>9, <1>10, <1>11, <1>12 DEF Good, u, cbs

-----------------------------------------------------------------------------
\* LockHasBeat of the record t.
LockInv(t) ==
  ~t.rotating /\ t.locked /\ t.proposer = Self =>
    t.last_proposed \in Own(t) \ t.certified /\ On(t, t.last_proposed, "beat") # {}

\* Blocks are in the domain of qc_waiting.
LEMMA DomainFacts ==
  ASSUME NEW t, t \in Fields, NEW b \in DOMAIN t.chain, Len(t.chain) <= MaxBlocks + 2
  PROVE  b \in DOMAIN t.qc_waiting /\ b \in Nat
<1>1. DOMAIN t.qc_waiting = 1..(MaxBlocks + 2)
  BY DEF Fields
<1>2. Len(t.chain) \in Nat /\ b \in 1..Len(t.chain)
  BY ChainFacts
<1> QED BY <1>1, <1>2, SizeAssumption

SameBuffer(t, u) == u.sent = t.sent /\ u.cmd_pending_buffer = t.cmd_pending_buffer

\* u is t after schedule_next, and what has become of the beats.
Scheduled(t, u) ==
  /\ Good(u) /\ FreeInv(u) /\ LockInv(u)
  /\ SamePast(t, u) /\ Decided(t, u) /\ Calls(t, u)
  /\ ~u.rotating /\ u.last_proposed = t.last_proposed
  /\ t.pending_beats # << >> => u.locked
  /\ ~t.locked => u.qc_waiting[t.last_proposed].state # "rejected" \/ t.last_proposed = 0

Queued(t, u) ==
  /\ SameBuffer(t, u)
  /\ IF t.pending_beats = << >> \/ t.locked THEN u = t
     ELSE /\ u.pending_beats = Tail(t.pending_beats)
          /\ u.qc_waiting[t.last_proposed].cbs =
               Append(t.qc_waiting[t.last_proposed].cbs, [beat |-> Head(t.pending_beats)])

\* The first waiting beat takes the lock and waits for last_proposed.
LEMMA ScheduleFacts ==
  ASSUME NEW t, Good(t), FreeInv(t), LockInv(t), ~t.rotating,
         Len(t.chain) <= MaxBlocks + 2,
         t.locked \/ t.last_proposed \notin t.certified
  PROVE  Scheduled(t, schedule_next(t)) /\ Queued(t, schedule_next(t))
<1> DEFINE u == schedule_next(t)
           b == t.last_proposed
           v == Reject(t, t.pm_qc_finish)
           cb == [beat |-> Head(t.pending_beats)]
           w == OnQc(v, b, cb)
<1>1. CASE u = t /\ (t.pending_beats = << >> \/ t.locked)
  <2>1. SamePast(t, t) /\ Decided(t, t) /\ Calls(t, t)
    BY DEF SamePast, SameRole, Decided, Calls
  <2> HIDE DEF u
  <2>2. Scheduled(t, u)
    BY <1>1, <2>1 DEF FreeInv, Scheduled
  <2>3. Queued(t, u)
    BY <1>1 DEF Queued, SameBuffer
  <2> QED BY <2>2, <2>3 DEF u
<1>2. CASE t.pending_beats # << >> /\ ~t.locked
           /\ u = [w EXCEPT !.pending_beats = Tail(@), !.pm_qc_finish = b, !.locked = TRUE]
  <2>1. /\ t \in Fields /\ b \in Nat /\ t.pending_beats \in Seq(SUBSET Cmds)
        /\ t.hqc <= Len(t.chain) /\ t.b_exec <= Len(t.chain)
        /\ t.pm_qc_finish <= Len(t.chain) /\ b <= Len(t.chain)
        /\ (t.pm_wait_propose <=> ~t.rotating)
    BY DEF Good, Fields, ChainInv, TermInv
  <2>2. b \in Own(t) /\ b \notin t.certified /\ b # 0
    BY <1>2 DEF Good, ChainInv
  <2>3. b \in DOMAIN t.qc_waiting
    BY <2>1, <2>2, DomainFacts DEF Own
  <2>4. /\ v \in Fields /\ SamePast(t, v) /\ SameBeats(t, v) /\ SameTerm(t, v)
        /\ Decided(t, v) /\ Calls(t, v) /\ Weaker(t, v)
        /\ v.qc_waiting[b] = t.qc_waiting[b]
    <3>1. /\ v \in Fields /\ SamePast(t, v) /\ SameBeats(t, v) /\ SameTerm(t, v)
          /\ Decided(t, v) /\ Calls(t, v) /\ Weaker(t, v)
          /\ \A c \in DOMAIN t.qc_waiting :
               c # t.pm_qc_finish => v.qc_waiting[c] = t.qc_waiting[c]
      BY <2>1, RejectFacts
    <3>2. t.pm_qc_finish # b
      BY <1>2, <2>2 DEF FreeInv
    <3> QED BY <2>3, <3>1, <3>2
  <2>5. Good(v)
    BY <2>1, <2>2, <2>4, WeakerKeeps DEF SameTerm, SameBeats, Decided
  <2>6. cb \in Callback /\ DOMAIN cb = {"beat"} /\ Tail(t.pending_beats) \in Seq(SUBSET Cmds)
    BY <1>2, <2>1 DEF Callback
  <2>7. /\ b \in Own(v) /\ b \notin v.certified /\ b \in DOMAIN v.qc_waiting
        /\ v.qc_waiting[b].state # "rejected" /\ On(v, b, "beat") = {}
    BY <1>2, <2>2, <2>3, <2>4 DEF FreeInv, SamePast, SameRole, Own, On, Weaker
  <2> HIDE DEF v, cb, u
  <2>8. /\ Good(w) /\ SamePast(v, w) /\ SameBeats(v, w) /\ SameTerm(v, w) /\ Decided(v, w)
        /\ Calls(v, w) /\ On(w, b, "beat") # {} /\ w.qc_waiting[b].state = "pending"
        /\ w.qc_waiting[b].cbs = Append(v.qc_waiting[b].cbs, cb)
    BY <2>5, <2>6, <2>7, OnQcFacts, SMTT(40)
  <2> HIDE DEF w
  <2>9. w \in Fields /\ w.pending_beats = t.pending_beats
    BY <2>4, <2>8 DEF Good, SameBeats
  <2>10. u \in Fields
    BY <1>2, <2>1, <2>6, <2>9, ZenonT(60) DEF Fields
  <2>11. /\ SamePast(w, u) /\ Decided(w, u) /\ Calls(w, u) /\ u.qc_waiting = w.qc_waiting
         /\ u.rotating = w.rotating /\ u.pm_wait_propose = w.pm_wait_propose
         /\ u.last_proposed = w.last_proposed /\ u.locked /\ u.pm_qc_finish = b
         /\ u.pending_beats = Tail(t.pending_beats)
         /\ u.sent = w.sent /\ u.cmd_pending_buffer = w.cmd_pending_buffer
    BY <1>2, <2>9 DEF Fields, SamePast, SameRole, Decided, Calls
  <2>12. SamePast(t, u) /\ Decided(t, u) /\ Calls(t, u) /\ ~u.rotating
         /\ u.last_proposed = b
    BY <2>4, <2>8, <2>11 DEF SamePast, SameRole, Decided, Calls, SameTerm
  <2>13. Good(u)
    <3>1. SamePast(w, u) /\ Weaker(w, u) /\ w.chain = t.chain
      BY <2>4, <2>8, <2>11 DEF Weaker, SamePast, SameRole
    <3>2. u.last_proposed \in {0} \cup Own(w)
      BY <2>2, <2>12, <3>1 DEF Own
    <3>3. (u.pm_wait_propose <=> ~u.rotating)
      BY <2>8, <2>11 DEF Good, TermInv
    <3> QED
      BY <2>1, <2>8, <2>10, <2>11, <2>12, <3>1, <3>2, <3>3, WeakerKeeps DEF Decided
  <2>14. On(u, b, "beat") # {} /\ u.qc_waiting[b].state # "rejected"
    BY <2>8, <2>11 DEF On
  <2>15. FreeInv(u)
    BY <2>11 DEF FreeInv
  <2>16. LockInv(u)
    BY <2>2, <2>12, <2>14 DEF LockInv, SamePast, SameRole, Own
  <2>17. /\ SameBuffer(t, u)
         /\ u.pending_beats = Tail(t.pending_beats)
         /\ u.qc_waiting[b].cbs = Append(t.qc_waiting[b].cbs, [beat |-> Head(t.pending_beats)])
    BY <2>4, <2>8, <2>11 DEF SameBeats, SameBuffer, cb
  <2>18. Scheduled(t, u)
    BY <2>11, <2>12, <2>13, <2>14, <2>15, <2>16, SMTT(40) DEF Scheduled
  <2>19. Queued(t, u)
    BY <1>2, <2>17 DEF Queued
  <2> QED BY <2>18, <2>19 DEF u
<1> QED BY <1>1, <1>2 DEF schedule_next

\* A fixed proposer proposes when all its blocks are certified.
Ready(t) ==
  DummyInv(t) /\ (t.kind = "dummy" => DOMAIN t.chain \subseteq t.certified)

\* u is t after the proposal of a block.
Proposed(t, u) ==
  LET n == Len(t.chain) + 1 IN
  /\ Good(u) /\ FreeInv(u) /\ LockInv(u) /\ DummyInv(u)
  /\ Stay(t, u) /\ Len(u.chain) = n
  /\ n \in Own(u) /\ n \notin u.certified /\ u.certified = t.certified
  /\ u.pm_qc_manual = t.pm_qc_manual
  /\ n \in DOMAIN u.qc_waiting /\ u.qc_waiting[n].state # "rejected"
  /\ ~u.rotating => u.last_proposed = n
  /\ ~t.rotating => ~u.rotating
  /\ ~u.rotating /\ t.pending_beats # << >> => u.locked

\* Outside of rotations the beat that waits longest takes over from the one that
\* cmds are from.
Moved(t, cmds, u) ==
  LET n == Len(t.chain) + 1 IN
  /\ SameBuffer(t, u) /\ u.chain[n].cmds = cmds
  /\ IF t.pending_beats = << >>
     THEN u.pending_beats = << >> /\ u.qc_waiting[n].cbs = << >>
     ELSE /\ u.pending_beats = Tail(t.pending_beats)
          /\ u.qc_waiting[n].cbs = Append(<< >>, [beat |-> Head(t.pending_beats)])

\* m is t after a block of by, with update() and the callbacks on proposals.
Extended(t, by, cmds, m) ==
  LET n == Len(t.chain) + 1 IN
  /\ Good(m) /\ Stay(t, m)
  /\ Len(m.chain) = n /\ m.chain[n].by = by /\ m.chain[n].cmds = cmds
  /\ m.certified = t.certified /\ m.pm_qc_manual = t.pm_qc_manual /\ SameBeats(t, m)
  /\ t.kind = "dummy" => Calls(t, m)
  /\ ~t.rotating => ~m.rotating
  /\ n \in DOMAIN m.qc_waiting => m.qc_waiting[n] = Absent
  /\ \/ SameTerm(t, m) /\ m.qc_waiting = t.qc_waiting
     \/ ~m.rotating /\ ~m.locked /\ m.last_proposed = 0

\* Every block, own or received, extends the replica this way.
LEMMA ExtendFacts ==
  ASSUME NEW t, Good(t), NEW by \in Ids, NEW cmds \in SUBSET Cmds,
         NEW qc_ref \in 0..Len(t.chain)
  PROVE  Extended(t, by, cmds, Remember(Extend(t, by, cmds, qc_ref), Len(t.chain) + 1))
<1> DEFINE n == Len(t.chain) + 1
           l == Deliver(t, by, cmds, qc_ref)
           w == update(l, n)
           m == Remember(w, n)
<1>1. /\ t \in Fields /\ Len(t.chain) \in Nat /\ DOMAIN t.chain = 1..Len(t.chain)
      /\ t.b_exec \in Nat /\ t.proposer \in Ids
  <2>1. t \in Fields /\ Len(t.chain) \in Nat /\ DOMAIN t.chain = 1..Len(t.chain)
    BY ChainFacts DEF Good
  <2>2. t.b_exec \in Nat /\ t.proposer \in Ids
    BY <2>1 DEF Fields
  <2> QED BY <2>1, <2>2
<1>2. m = Remember(Extend(t, by, cmds, qc_ref), Len(t.chain) + 1)
  BY DEF Extend
<1>3. /\ Good(l) /\ Len(l.chain) = n /\ l.chain[n].by = by /\ l.chain[n].cmds = cmds
      /\ \A b \in DOMAIN t.chain : l.chain[b] = t.chain[b]
      /\ SameBeats(t, l) /\ SameTerm(t, l) /\ Decided(t, l) /\ Calls(t, l)
      /\ l.qc_waiting = t.qc_waiting /\ SameRole(t, l) /\ l.prop_blk = t.prop_blk
      /\ l.heard = t.heard
  <2>1. Appended(t, by, cmds, l)
    BY DeliverFacts
  <2> HIDE DEF l
  <2> QED BY <2>1 DEF Appended
<1>4. /\ l.kind = t.kind /\ l.certified = t.certified /\ l.heard = t.heard
      /\ l.proposer = t.proposer /\ l.prop_blk = t.prop_blk
      /\ l.pm_qc_manual = t.pm_qc_manual
  BY <1>3 DEF SameRole
<1> HIDE DEF l
<1>5. n \in DOMAIN l.chain /\ DOMAIN l.chain = 1..n
  BY <1>1, <1>3, ChainFacts DEF Good
<1>6. Updated(l, w)
  BY <1>3, <1>5, UpdateFacts
<1> HIDE DEF w
<1>7. /\ Good(w) /\ w.chain = l.chain /\ w.kind = t.kind /\ w.certified = t.certified
      /\ w.heard = t.heard /\ w.proposer = t.proposer
      /\ w.prop_blk = t.prop_blk /\ w.pm_qc_manual = t.pm_qc_manual
      /\ SameBeats(t, w) /\ w.b_exec >= t.b_exec /\ w.b_exec \in Nat
      /\ t.kind = "dummy" => Calls(t, w)
      /\ \/ SameTerm(t, w) /\ w.qc_waiting = t.qc_waiting
         \/ /\ ~w.rotating /\ ~w.locked /\ w.last_proposed = 0
            /\ t.prop_blk[t.proposer] \in (t.b_exec + 1)..w.b_exec
  <2>1. /\ Good(w) /\ SamePast(l, w) /\ SameBeats(l, w) /\ w.b_exec >= l.b_exec
        /\ (l.kind = "dummy" => Calls(l, w))
        /\ \/ SameTerm(l, w) /\ w.qc_waiting = l.qc_waiting
           \/ /\ ~w.rotating /\ ~w.locked /\ w.last_proposed = 0
              /\ l.prop_blk[l.proposer] \in (l.b_exec + 1)..w.b_exec
    BY <1>6 DEF Updated
  <2>2. w.b_exec \in Nat
    BY <2>1 DEF Good, Fields
  <2> QED
    BY <1>3, <1>4, <2>1, <2>2 DEF SamePast, SameRole, SameBeats, SameTerm, Decided, Calls
<1>8. n \in DOMAIN w.qc_waiting => w.qc_waiting[n] = Absent
  <2>1. n \in DOMAIN t.qc_waiting => t.qc_waiting[n] = Absent
    BY <1>1 DEF Good, PromiseInv
  <2> QED BY <1>3, <1>6, <2>1 DEF Updated, Weaker, Absent
<1>9. /\ Good(m) /\ SameRole(w, m) /\ m.chain = w.chain /\ w.heard \subseteq m.heard /\ SameBeats(w, m)
      /\ SameTerm(w, m) /\ Decided(w, m) /\ Calls(w, m) /\ m.qc_waiting = w.qc_waiting
  BY <1>1, <1>5, <1>7, RememberFacts
<1> HIDE DEF m
<1>10. /\ m.chain = l.chain /\ m.kind = t.kind /\ m.certified = t.certified
       /\ t.heard \subseteq m.heard /\ m.proposer = t.proposer
       /\ m.pm_qc_manual = t.pm_qc_manual /\ m.b_exec = w.b_exec
       /\ m.rotating = w.rotating /\ SameBeats(t, m)
       /\ t.kind = "dummy" => Calls(t, m)
       /\ \/ SameTerm(t, m) /\ m.qc_waiting = t.qc_waiting
          \/ ~m.rotating /\ ~m.locked /\ m.last_proposed = 0
  BY <1>7, <1>9 DEF SameRole, SameBeats, SameTerm, Decided, Calls
<1>11. Stay(t, m) /\ (~t.rotating => ~m.rotating)
  <2>1. ASSUME t.rotating, ~m.rotating
        PROVE  \E b \in (t.b_exec + 1)..m.b_exec :
                 b \in m.heard /\ b \in DOMAIN m.chain /\ m.chain[b].by = m.proposer
    <3> DEFINE b == t.prop_blk[t.proposer]
    <3>1. b \in (t.b_exec + 1)..w.b_exec
      BY <1>7, <1>10, <2>1 DEF SameTerm
    <3>2. b # None
      BY <1>1, <3>1 DEF None
    <3>3. b \in t.heard /\ t.chain[b].by = t.proposer
      BY <1>1, <3>2 DEF Good, TermInv
    <3> HIDE DEF b
    <3>4. b \in 1..Len(t.chain) /\ b \in 1..n
      <4>1. b \in 1..Len(t.chain)
        BY <1>1, <3>3 DEF Good, ChainInv
      <4> QED BY <1>1, <4>1
    <3>5. m.chain[b].by = t.proposer
      BY <1>1, <1>3, <1>10, <3>3, <3>4
    <3> QED BY <1>5, <1>10, <3>1, <3>3, <3>4, <3>5
  <2>2. Len(m.chain) >= Len(t.chain) /\ m.b_exec >= t.b_exec
    BY <1>1, <1>3, <1>7, <1>10
  <2>3. ~t.rotating => ~m.rotating
    BY <1>7, <1>10 DEF SameTerm
  <2> QED BY <1>3, <1>10, <2>1, <2>2, <2>3 DEF Stay
<1> QED BY <1>2, <1>3, <1>8, <1>9, <1>10, <1>11 DEF Extended

\* on_propose puts the lock in order, whatever was said of it before.
LEMMA ProposeFacts ==
  ASSUME NEW t, Good(t), Ready(t), NEW cmds \in SUBSET Cmds,
         Len(t.chain) <= MaxBlocks + 1
  PROVE  /\ Proposed(t, on_propose(t, cmds))
         /\ ~t.rotating => Moved(t, cmds, on_propose(t, cmds))
<1> DEFINE n == Len(t.chain) + 1
           m == Remember(Extend(t, Self, cmds, t.hqc), n)
           p == [m EXCEPT !.last_proposed = n, !.locked = FALSE]
           u == on_propose(t, cmds)
<1>1. /\ t \in Fields /\ Len(t.chain) \in Nat /\ DOMAIN t.chain = 1..Len(t.chain)
      /\ t.hqc \in 0..Len(t.chain) /\ t.pm_qc_finish < n
  <2>1. /\ t \in Fields /\ Len(t.chain) \in Nat /\ DOMAIN t.chain = 1..Len(t.chain)
    BY ChainFacts DEF Good
  <2>2. t.hqc \in Nat /\ t.pm_qc_finish \in Int
    BY <2>1 DEF Fields, None
  <2>3. t.hqc <= Len(t.chain) /\ t.pm_qc_finish <= Len(t.chain)
    BY DEF Good, ChainInv
  <2> QED BY <2>1, <2>2, <2>3
<1>2. Self \in Ids /\ n \in 1..(MaxBlocks + 2) /\ n <= MaxBlocks + 2
  BY <1>1, SelfAssumption, SizeAssumption DEF Ids
<1>3. u = IF m.pm_wait_propose THEN schedule_next(p) ELSE m
  BY DEF on_propose
<1>4. Extended(t, Self, cmds, m)
  <2>1. t.hqc \in 0..Len(t.chain) /\ Self \in Ids
    BY <1>1, <1>2
  <2> QED BY <2>1, ExtendFacts
<1> HIDE DEF m, u
<1>5. /\ Good(m) /\ Stay(t, m) /\ Len(m.chain) = n /\ m.chain[n].by = Self
      /\ m.chain[n].cmds = cmds
      /\ m.certified = t.certified /\ m.pm_qc_manual = t.pm_qc_manual /\ SameBeats(t, m)
      /\ t.kind = "dummy" => Calls(t, m)
      /\ ~t.rotating => ~m.rotating
  BY <1>4 DEF Extended
<1>6. /\ m.kind = t.kind /\ m.proposer = t.proposer
      /\ \A b \in DOMAIN t.chain : m.chain[b] = t.chain[b]
  BY <1>5 DEF Stay
<1>7. n \in DOMAIN m.qc_waiting /\ m.qc_waiting[n] = Absent
  <2>1. n \in DOMAIN m.qc_waiting
    BY <1>2, <1>5 DEF Good, Fields
  <2> QED BY <1>4, <2>1 DEF Extended
<1>8. DOMAIN m.chain = 1..n
  BY <1>5, ChainFacts DEF Good
<1>9. n \notin t.certified
  BY <1>1 DEF Good, ChainInv, Own
<1>10. n \in Own(m)
  BY <1>1, <1>5, <1>8 DEF Own
<1>11. CASE ~m.pm_wait_propose
  <2>1. m.rotating
    BY <1>5, <1>11 DEF Good, TermInv
  <2>2. DummyInv(m)
    BY <1>5, <1>6, <2>1 DEF DummyInv, Ready
  <2>3. FreeInv(m) /\ LockInv(m)
    BY <2>1 DEF FreeInv, LockInv
  <2>4. u = m
    BY <1>3, <1>11
  <2>5. n \in DOMAIN m.qc_waiting /\ m.qc_waiting[n].state # "rejected"
    BY <1>7 DEF Absent
  <2>6. n \notin m.certified
    BY <1>5, <1>9
  <2>7. t.rotating
    BY <1>5, <2>1
  <2>8. Proposed(t, u)
    BY <1>5, <1>10, <2>1, <2>2, <2>3, <2>4, <2>5, <2>6 DEF Proposed
  <2> QED BY <2>7, <2>8 DEF u
<1>12. CASE m.pm_wait_propose
  <2>1. ~m.rotating /\ m \in Fields /\ n \in Nat
    BY <1>1, <1>5, <1>12 DEF Good, TermInv
  <2>2. p \in Fields
    BY <2>1 DEF Fields
  <2>3. /\ SamePast(m, p) /\ SameBeats(m, p) /\ Decided(m, p) /\ Calls(m, p)
        /\ p.rotating = m.rotating /\ p.pm_wait_propose = m.pm_wait_propose
        /\ p.qc_waiting = m.qc_waiting /\ p.last_proposed = n /\ ~p.locked
    BY <2>1 DEF SamePast, SameRole, SameBeats, Decided, Calls, Fields
  <2> HIDE DEF p
  <2>4. Good(p)
    <3>1. /\ m.hqc <= Len(m.chain) /\ m.b_exec <= Len(m.chain)
          /\ m.pm_qc_finish <= Len(m.chain)
      BY <1>5 DEF Good, ChainInv
    <3>2. Weaker(m, p)
      BY <2>3 DEF Weaker
    <3> QED
      BY <1>5, <1>10, <1>12, <2>1, <2>2, <2>3, <3>1, <3>2, WeakerKeeps DEF Decided, SameBeats
  <2>5. /\ p.qc_waiting[n].state # "rejected" /\ On(p, n, "beat") = {}
        /\ p.pm_qc_finish # n
    BY <1>1, <1>5, <1>7, <2>3 DEF Absent, On, SameBeats
  <2>6. FreeInv(p) /\ LockInv(p)
    BY <2>3, <2>5 DEF FreeInv, LockInv
  <2>7. Len(p.chain) <= MaxBlocks + 2 /\ p.last_proposed \notin p.certified /\ ~p.rotating
    BY <1>2, <1>5, <1>9, <2>1, <2>3 DEF SamePast, SameRole
  <2>8. u = schedule_next(p)
    BY <1>3, <1>12
  <2> HIDE DEF n
  <2>9. /\ Good(u) /\ FreeInv(u) /\ LockInv(u)
        /\ SamePast(p, u) /\ Decided(p, u) /\ Calls(p, u)
        /\ ~u.rotating /\ u.last_proposed = n
        /\ p.pending_beats # << >> => u.locked
        /\ u.qc_waiting[n].state # "rejected" \/ n = 0
        /\ Queued(p, u)
    <3>1. Scheduled(p, u) /\ Queued(p, u)
      BY <2>4, <2>6, <2>7, <2>8, ScheduleFacts
    <3> QED BY <2>3, <3>1 DEF Scheduled
  <2> USE DEF n
  <2>10. /\ u.chain = m.chain /\ u.kind = m.kind /\ u.certified = t.certified
         /\ u.heard = m.heard /\ u.proposer = m.proposer
         /\ u.pm_qc_manual = t.pm_qc_manual /\ u.b_exec = m.b_exec
    BY <1>5, <2>3, <2>9 DEF SamePast, SameRole, Decided
  <2>11. Stay(t, u)
    BY <1>5, <2>1, <2>9, <2>10 DEF Stay
  <2>12. n \in Own(u) /\ Own(u) = Own(m)
    BY <1>10, <2>10 DEF Own
  <2>13. DummyInv(u)
    <3> SUFFICES ASSUME t.kind = "dummy" PROVE DummyInv(u)
      BY <1>6, <2>10 DEF DummyInv
    <3>1. /\ t.proposer = Self /\ t.elected = 0 /\ t.timer = "none" /\ t.pm_qc_manual = None
          /\ Own(t) = DOMAIN t.chain /\ DOMAIN t.chain \subseteq t.certified
      BY DEF Ready, DummyInv
    <3>2. u.proposer = Self /\ u.elected = 0 /\ u.timer = "none" /\ u.pm_qc_manual = None
      BY <1>5, <1>6, <2>3, <2>9, <2>10, <3>1 DEF Calls
    <3>3. Own(u) = DOMAIN u.chain
      <4>1. \A b \in 1..n : b = n \/ b \in DOMAIN t.chain
        BY <1>1
      <4>2. \A b \in 1..n : u.chain[b].by = Self
        BY <1>5, <1>6, <2>10, <3>1, <4>1 DEF Own
      <4> QED BY <1>8, <2>10, <4>2 DEF Own
    <3>4. \A b \in DOMAIN u.chain : b < n => b \in u.certified
      <4>1. \A b \in 1..n : b < n => b \in DOMAIN t.chain
        BY <1>1
      <4> QED BY <1>8, <2>10, <3>1, <4>1
    <3>5. Len(u.chain) = n
      BY <1>5, <2>10
    <3>6. ~u.rotating /\ u.last_proposed = Len(u.chain)
      BY <2>9, <3>5
    <3> QED BY <3>2, <3>3, <3>4, <3>5, <3>6 DEF DummyInv
  <2>14. u.qc_waiting[n].state # "rejected" /\ n \in DOMAIN u.qc_waiting
    <3>1. n # 0
      BY <1>1
    <3>2. u \in Fields
      BY <2>9 DEF Good
    <3>3. DOMAIN u.qc_waiting = 1..(MaxBlocks + 2)
      BY <3>2 DEF Fields
    <3> HIDE DEF n
    <3> QED BY <1>2, <2>9, <3>1, <3>3
  <2>15. ~u.rotating /\ t.pending_beats # << >> => u.locked
    BY <1>5, <2>3, <2>9 DEF SameBeats
  <2>16. Len(u.chain) = n
    BY <1>5, <2>10
  <2>17. Proposed(t, u)
    BY <1>9, <2>9, <2>10, <2>11, <2>12, <2>13, <2>14, <2>15, <2>16 DEF Proposed
  <2>18. Moved(t, cmds, u)
    <3>1. SameBuffer(t, u) /\ u.chain[n].cmds = cmds
      BY <1>5, <2>3, <2>9, <2>10 DEF Queued, SameBuffer, SameBeats
    <3>2. p.pending_beats = t.pending_beats /\ p.qc_waiting[n].cbs = << >>
      BY <1>5, <1>7, <2>3 DEF SameBeats, Absent
    <3>3. IF p.pending_beats = << >> THEN u = p
          ELSE /\ u.pending_beats = Tail(p.pending_beats)
               /\ u.qc_waiting[n].cbs =
                    Append(p.qc_waiting[n].cbs, [beat |-> Head(p.pending_beats)])
      BY <2>3, <2>9 DEF Queued
    <3> HIDE DEF n
    <3> QED BY <3>1, <3>2, <3>3 DEF Moved, n
  <2> QED BY <2>17, <2>18 DEF u
<1> QED BY <1>11, <1>12

-----------------------------------------------------------------------------
\* What the handlers start from, and what the functions that they call result in.
Inv(t) == Good(t) /\ FreeInv(t) /\ LockInv(t) /\ DummyInv(t)

\* u is t after a call that proposes at most one block.
Result(t, u) == Inv(u) /\ Stay(t, u) /\ Len(u.chain) <= Len(t.chain) + 1

\* u is t but for commands, batches and calls that wait.
SameCore(t, u) ==
  /\ SamePast(t, u) /\ SameTerm(t, u) /\ Decided(t, u)
  /\ u.pm_qc_finish = t.pm_qc_finish /\ u.qc_waiting = t.qc_waiting

\* The invariant does not depend on those.
LEMMA SameCoreKeeps ==
  ASSUME NEW t, NEW u, Good(t), u \in Fields, SameCore(t, u)
  PROVE  /\ Good(u) /\ Stay(t, u) /\ u.chain = t.chain
         /\ FreeInv(t) => FreeInv(u)
         /\ LockInv(t) => LockInv(u)
         /\ DummyInv(t) /\ (t.kind = "dummy" => Calls(t, u)) => DummyInv(u)
<1>1. /\ t.hqc <= Len(t.chain) /\ t.b_exec <= Len(t.chain) /\ t.pm_qc_finish <= Len(t.chain)
      /\ t.last_proposed \in {0} \cup Own(t) /\ (t.pm_wait_propose <=> ~t.rotating)
  BY DEF Good, ChainInv, TermInv
<1>2. Weaker(t, u)
  BY DEF SameCore, Weaker
<1>3. Good(u)
  BY <1>1, <1>2, WeakerKeeps DEF SameCore, SameTerm, Decided
<1>4. t.b_exec \in Nat /\ Len(t.chain) \in Nat
  BY ChainFacts DEF Good, Fields
<1>5. Stay(t, u) /\ u.chain = t.chain
  BY <1>4 DEF Stay, SameCore, SamePast, SameRole, SameTerm, Decided
<1>6. (FreeInv(t) => FreeInv(u)) /\ (LockInv(t) => LockInv(u))
  BY DEF FreeInv, LockInv, SameCore, SamePast, SameRole, SameTerm, On, Own
<1>7. DummyInv(t) /\ (t.kind = "dummy" => Calls(t, u)) => DummyInv(u)
  BY DEF DummyInv, Calls, SameCore, SamePast, SameRole, SameTerm, Own
<1> QED BY <1>3, <1>5, <1>6, <1>7

\* do_new_consensus drops its earlier callback, so the new one is the only one.
LEMMA NewConsensusFacts ==
  ASSUME NEW t, Good(t), t.kind # "dummy", NEW x \in Nat, NEW cmds \in SUBSET Cmds,
         Len(t.chain) <= MaxBlocks + 1
  PROVE  Result(t, do_new_consensus(t, x, cmds))
<1> DEFINE n == Len(t.chain) + 1
           u == on_propose(t, cmds)
           v == Reject(u, u.pm_qc_manual)
           w == [v EXCEPT !.pm_qc_manual = n]
           cb == [manual |-> x]
           r == OnQc(w, n, cb)
           d == do_new_consensus(t, x, cmds)
<1>1. Ready(t)
  BY DEF Ready, DummyInv
<1>2. Proposed(t, u)
  BY <1>1, ProposeFacts
<1>3. /\ Good(u) /\ FreeInv(u) /\ LockInv(u) /\ Stay(t, u) /\ Len(u.chain) = n
      /\ n \in Own(u) /\ n \notin u.certified /\ n \in DOMAIN u.qc_waiting
      /\ u.qc_waiting[n].state # "rejected" /\ (~u.rotating => u.last_proposed = n)
      /\ u.kind # "dummy" /\ u.pm_qc_manual # n /\ n \in Nat
  <2>1. t.pm_qc_manual <= Len(t.chain) /\ t.pm_qc_manual \in Int /\ Len(t.chain) \in Nat
    BY ChainFacts, SMTT(30) DEF Good, ChainInv, Fields, None
  <2> QED BY <1>2, <2>1 DEF Proposed, Stay
<1>4. d = [OnQc(v, n, cb) EXCEPT !.pm_qc_manual = n]
  BY <1>3 DEF do_new_consensus
<1> HIDE DEF u
<1>5. /\ v \in Fields /\ SamePast(u, v) /\ SameBeats(u, v) /\ SameTerm(u, v)
      /\ Decided(u, v) /\ Calls(u, v) /\ Weaker(u, v)
      /\ v.qc_waiting[n] = u.qc_waiting[n]
      /\ u.pm_qc_manual \in DOMAIN u.qc_waiting =>
           v.qc_waiting[u.pm_qc_manual].state # "pending"
  <2>1. u \in Fields
    BY <1>3 DEF Good
  <2>2. /\ v \in Fields /\ SamePast(u, v) /\ SameBeats(u, v) /\ SameTerm(u, v)
        /\ Decided(u, v) /\ Calls(u, v) /\ Weaker(u, v)
        /\ \A c \in DOMAIN u.qc_waiting :
             c # u.pm_qc_manual => v.qc_waiting[c] = u.qc_waiting[c]
        /\ u.pm_qc_manual \in DOMAIN u.qc_waiting =>
             v.qc_waiting[u.pm_qc_manual].state # "pending"
    BY <2>1, RejectFacts
  <2> QED BY <1>3, <2>2
<1> HIDE DEF v
<1>6. w \in Fields
  BY <1>3, <1>5 DEF Fields
<1>7. /\ w.qc_waiting = v.qc_waiting /\ w.pm_qc_manual = n
      /\ w.kind = v.kind /\ w.chain = v.chain /\ w.certified = v.certified
      /\ w.heard = v.heard /\ w.unheard = v.unheard
      /\ w.proposer = v.proposer /\ w.prop_blk = v.prop_blk
      /\ SameBeats(v, w) /\ SameTerm(v, w) /\ Decided(v, w) /\ Calls(v, w)
  BY <1>5 DEF Fields, SameBeats, SameTerm, Decided, Calls
<1>8. d = r
  <2>1. v.qc_waiting[n].state # "rejected"
    BY <1>3, <1>5
  <2> DEFINE e == [state |-> "pending", cbs |-> Append(v.qc_waiting[n].cbs, cb)]
  <2>2. OnQc(v, n, cb) = [v EXCEPT !.qc_waiting[n] = e]
    BY <1>5, <2>1 DEF OnQc, Fields
  <2>3. r = [w EXCEPT !.qc_waiting[n] = e]
    BY <1>6, <1>7, <2>1 DEF OnQc, Fields
  <2> HIDE DEF e, d, r
  <2> QED BY <1>4, <1>5, <2>2, <2>3 DEF Fields
<1> HIDE DEF w, r, d
<1>9. \A b \in DOMAIN w.qc_waiting : On(w, b, "manual") = {}
  <2> SUFFICES ASSUME NEW b \in DOMAIN w.qc_waiting, On(w, b, "manual") # {} PROVE FALSE
    OBVIOUS
  <2>1. b \in DOMAIN u.qc_waiting /\ On(v, b, "manual") # {}
    BY <1>5, <1>7 DEF On, Weaker
  <2>2. v.qc_waiting[b] = u.qc_waiting[b]
    BY <1>5, <2>1 DEF Weaker, On, Rejected
  <2>3. b = u.pm_qc_manual
    BY <1>3, <2>1, <2>2 DEF Good, PromiseInv, On
  <2>4. u.qc_waiting[b].cbs = << >>
    BY <1>3, <1>5, <2>1, <2>2, <2>3 DEF Good, PromiseInv
  <2> QED BY <2>1, <2>2, <2>4 DEF On
<1>10. Good(v)
  <2>1. /\ u.hqc <= Len(u.chain) /\ u.b_exec <= Len(u.chain) /\ u.pm_qc_finish <= Len(u.chain)
        /\ u.last_proposed \in {0} \cup Own(u) /\ (u.pm_wait_propose <=> ~u.rotating)
    BY <1>3 DEF Good, ChainInv, TermInv
  <2> QED BY <1>3, <1>5, <2>1, WeakerKeeps DEF SameTerm, SameBeats, Decided
<1>11. Good(w)
  <2>1. Len(v.chain) = n
    BY <1>3, <1>5 DEF SamePast
  <2>2. n <= n
    BY <1>3
  <2>3. ChainInv(w)
    BY <1>7, <1>10, <2>1, <2>2 DEF Good, ChainInv, Own, SameTerm, Decided, SameBeats
  <2>4. TermInv(w)
    BY <1>7, <1>10 DEF Good, TermInv, SameTerm
  <2>5. PromiseInv(w)
    BY <1>7, <1>9, <1>10 DEF Good, PromiseInv, On
  <2> QED BY <1>6, <2>3, <2>4, <2>5 DEF Good
<1>12. /\ n \in Own(w) /\ n \notin w.certified /\ n \in DOMAIN w.qc_waiting
       /\ w.qc_waiting[n].state # "rejected" /\ On(w, n, "manual") = {}
       /\ On(w, n, "beat") = On(u, n, "beat") /\ w.chain = u.chain
  BY <1>3, <1>5, <1>7, <1>9 DEF SamePast, SameRole, Own, Weaker, On
<1>13. cb \in Callback /\ DOMAIN cb = {"manual"}
  BY DEF Callback
<1> HIDE DEF cb
<1>14. /\ Good(r) /\ SamePast(w, r) /\ SameBeats(w, r) /\ SameTerm(w, r) /\ Decided(w, r)
       /\ On(r, n, "beat") = On(w, n, "beat") /\ r.qc_waiting[n].state = "pending"
  BY <1>7, <1>11, <1>12, <1>13, OnQcFacts DEF r
<1>15. /\ r.chain = u.chain /\ r.kind = u.kind /\ r.certified = u.certified
       /\ r.heard = u.heard /\ r.proposer = u.proposer /\ r.b_exec = u.b_exec
       /\ SameTerm(u, r) /\ SameBeats(u, r)
  BY <1>5, <1>7, <1>14 DEF SamePast, SameRole, SameTerm, SameBeats, Decided
<1>16. On(r, n, "beat") = On(u, n, "beat")
  BY <1>12, <1>14
<1>17. FreeInv(r)
  BY <1>3, <1>14, <1>15, <1>16 DEF FreeInv, SameTerm, SameBeats
<1>18. LockInv(r)
  BY <1>3, <1>15, <1>16 DEF LockInv, SameTerm, Own
<1>19. DummyInv(r)
  BY <1>3, <1>15 DEF DummyInv
<1>20. Stay(t, r)
  BY <1>3, <1>15 DEF Stay, SameTerm
<1>21. Len(r.chain) <= Len(t.chain) + 1
  BY <1>3, <1>15
<1> QED
  BY <1>8, <1>14, <1>17, <1>18, <1>19, <1>20, <1>21 DEF Result, Inv, d

\* A callback that proposes re-establishes what is said of the lock.
LEMMA ResumeFacts ==
  ASSUME NEW t, Good(t), FreeInv(t), DummyInv(t), NEW cb \in Callback,
         Len(t.chain) <= MaxBlocks + 1,
         t.kind = "dummy" => "beat" \in DOMAIN cb /\ Ready(t)
  PROVE  LET u == Resume(t, cb) IN
         /\ Good(u) /\ FreeInv(u) /\ DummyInv(u) /\ Stay(t, u)
         /\ Len(u.chain) <= Len(t.chain) + 1
         /\ LockInv(t) => LockInv(u)
         /\ "beat" \in DOMAIN cb /\ t.proposer = Self => LockInv(u)
<1> DEFINE u == Resume(t, cb)
<1>1. /\ "beat" \in DOMAIN cb => cb.beat \in SUBSET Cmds
      /\ "beat" \notin DOMAIN cb => cb.manual \in Nat
  BY DEF Callback
<1>2. Len(t.chain) \in Nat /\ Stay(t, t) /\ Len(t.chain) <= Len(t.chain) + 1
  BY ChainFacts, StayRefl DEF Good
<1>3. CASE u = t /\ ~("beat" \in DOMAIN cb /\ t.proposer = Self)
  BY <1>2, <1>3
<1>4. CASE "beat" \in DOMAIN cb /\ t.proposer = Self
  <2>1. u = on_propose(t, cb.beat)
    BY <1>4 DEF Resume
  <2>2. Ready(t)
    BY DEF Ready
  <2>3. Proposed(t, u)
    BY <1>1, <1>4, <2>1, <2>2, ProposeFacts
  <2> HIDE DEF u
  <2> QED BY <1>2, <2>3 DEF Proposed, u
<1>5. CASE "beat" \notin DOMAIN cb /\ u = do_new_consensus(t, cb.manual + 1, {})
  <2>1. cb.manual + 1 \in Nat /\ {} \in SUBSET Cmds /\ t.kind # "dummy"
    BY <1>1, <1>5
  <2>2. Result(t, u)
    BY <1>5, <2>1, NewConsensusFacts
  <2> QED BY <1>5, <2>2 DEF Result, Inv
<1> QED BY <1>3, <1>4, <1>5 DEF Resume

\* beat() puts the batch at the end of the queue, and takes the first one from it
\* if that may propose at once.
Enqueued(t, batch) == [t EXCEPT !.pending_beats = Append(@, batch), !.beats = @ \cup batch]

Taken(u) ==
  [Reject(u, u.pm_qc_finish) EXCEPT !.pending_beats = Tail(@), !.pm_qc_finish = None]

TakenLocked(u) == [Taken(u) EXCEPT !.locked = TRUE]

\* One more batch waits.
LEMMA EnqueuedFacts ==
  ASSUME NEW t, Inv(t), NEW batch \in SUBSET Cmds
  PROVE  LET u == Enqueued(t, batch) IN
         /\ Inv(u) /\ Stay(t, u) /\ SameCore(t, u) /\ SameBuffer(t, u)
         /\ u.pending_beats = Append(t.pending_beats, batch)
         /\ u.pending_beats \in Seq(SUBSET Cmds) /\ u.pending_beats # << >>
<1> DEFINE queue == Append(t.pending_beats, batch)
           u == Enqueued(t, batch)
<1>1. t \in Fields /\ t.pending_beats \in Seq(SUBSET Cmds) /\ t.beats \in SUBSET Cmds
  BY DEF Inv, Good, Fields
<1>2. queue \in Seq(SUBSET Cmds) /\ queue # << >>
  BY <1>1, SMTT(30)
<1>3. u = [t EXCEPT !.pending_beats = queue, !.beats = @ \cup batch]
  BY <1>1 DEF Enqueued, Fields
<1> HIDE DEF queue, u
<1>4. u \in Fields
  BY <1>1, <1>2, <1>3 DEF Fields
<1>5. u.pending_beats = queue /\ SameCore(t, u) /\ Calls(t, u) /\ SameBuffer(t, u)
  BY <1>1, <1>3 DEF Fields, SameCore, SamePast, SameRole, SameTerm, Decided, Calls, SameBuffer
<1>6. Inv(u) /\ Stay(t, u)
  BY <1>4, <1>5, SameCoreKeeps DEF Inv
<1> QED BY <1>2, <1>5, <1>6 DEF u, queue

\* The first batch is taken when all own blocks of a fixed proposer are certified.
LEMMA TakenFacts ==
  ASSUME NEW u, Inv(u), ~u.rotating, u.last_proposed \in u.certified, u.pending_beats # << >>,
         NEW y \in {Taken(u), TakenLocked(u)}
  PROVE  /\ Good(y) /\ Ready(y) /\ Stay(u, y) /\ y.chain = u.chain /\ y.kind = u.kind
         /\ ~y.rotating /\ y.pending_beats = Tail(u.pending_beats) /\ SameBuffer(u, y)
<1> DEFINE w == Reject(u, u.pm_qc_finish)
           v == Taken(u)
           x == TakenLocked(u)
<1>1. /\ u \in Fields /\ u.pending_beats \in Seq(SUBSET Cmds)
      /\ Len(u.chain) \in Nat /\ DOMAIN u.chain = 1..Len(u.chain) /\ u.b_exec \in Nat
  BY ChainFacts DEF Inv, Good, Fields
<1>2. /\ w \in Fields /\ SamePast(u, w) /\ SameBeats(u, w) /\ SameTerm(u, w)
      /\ Decided(u, w) /\ Calls(u, w) /\ Weaker(u, w)
  BY <1>1, RejectFacts
<1>3. v = [w EXCEPT !.pending_beats = Tail(@), !.pm_qc_finish = None]
  BY DEF Taken
<1>4. x = [v EXCEPT !.locked = TRUE]
  BY DEF TakenLocked
<1> HIDE DEF w, v, x
<1>5. w.pending_beats = u.pending_beats /\ Tail(w.pending_beats) \in Seq(SUBSET Cmds)
  BY <1>1, <1>2 DEF SameBeats
<1>6. v \in Fields
  BY <1>2, <1>3, <1>5 DEF Fields, None
<1>7. x \in Fields
  BY <1>4, <1>6 DEF Fields
<1>8. /\ v.pm_qc_finish = None /\ v.pending_beats = Tail(w.pending_beats)
      /\ SamePast(w, v) /\ Decided(w, v) /\ Calls(w, v) /\ SameBuffer(w, v)
      /\ v.qc_waiting = w.qc_waiting
      /\ v.rotating = w.rotating /\ v.pm_wait_propose = w.pm_wait_propose
      /\ v.last_proposed = w.last_proposed
  BY <1>2, <1>3 DEF Fields, SamePast, SameRole, Decided, Calls, SameBuffer
<1>9. /\ x.pm_qc_finish = None /\ x.pending_beats = Tail(w.pending_beats)
      /\ SamePast(w, x) /\ Decided(w, x) /\ Calls(w, x) /\ SameBuffer(w, x)
      /\ x.qc_waiting = w.qc_waiting
      /\ x.rotating = w.rotating /\ x.pm_wait_propose = w.pm_wait_propose
      /\ x.last_proposed = w.last_proposed
  BY <1>4, <1>6, <1>8 DEF Fields, SamePast, SameRole, Decided, Calls, SameBuffer
<1>10. /\ y \in Fields /\ y.pm_qc_finish = None /\ y.pending_beats = Tail(w.pending_beats)
       /\ SamePast(w, y) /\ Decided(w, y) /\ Calls(w, y) /\ SameBuffer(w, y)
       /\ y.qc_waiting = w.qc_waiting
       /\ y.rotating = w.rotating /\ y.pm_wait_propose = w.pm_wait_propose
       /\ y.last_proposed = w.last_proposed
  <2>1. y = v \/ y = x
    BY DEF v, x
  <2> QED BY <1>6, <1>7, <1>8, <1>9, <2>1
<1>11. /\ SamePast(u, y) /\ Decided(u, y) /\ Calls(u, y) /\ Weaker(u, y)
       /\ y.rotating = u.rotating /\ y.pm_wait_propose = u.pm_wait_propose
       /\ y.last_proposed = u.last_proposed
       /\ y.pending_beats = Tail(u.pending_beats) /\ SameBuffer(u, y)
  BY <1>2, <1>5, <1>10
     DEF SamePast, SameRole, Decided, Calls, SameTerm, SameBeats, SameBuffer, Weaker
<1>12. Good(y)
  <2>1. /\ u.hqc <= Len(u.chain) /\ u.b_exec <= Len(u.chain)
        /\ u.last_proposed \in {0} \cup Own(u) /\ (u.pm_wait_propose <=> ~u.rotating)
    BY DEF Inv, Good, ChainInv, TermInv
  <2>2. None <= Len(u.chain)
    BY <1>1 DEF None
  <2> QED BY <1>10, <1>11, <2>1, <2>2, WeakerKeeps DEF Inv, Decided
<1>13. Ready(y)
  <2> SUFFICES ASSUME u.kind = "dummy" PROVE Ready(y)
    BY <1>11 DEF Ready, DummyInv, SamePast, SameRole
  <2>1. DummyInv(y)
    BY <1>11 DEF Inv, DummyInv, SamePast, SameRole, Calls, Own
  <2>2. /\ \A b \in DOMAIN u.chain : b < Len(u.chain) => b \in u.certified
        /\ Len(u.chain) \in u.certified
    BY DEF Inv, DummyInv
  <2>3. DOMAIN y.chain \subseteq y.certified
    BY <1>1, <1>11, <2>2 DEF SamePast, SameRole
  <2> QED BY <2>1, <2>3 DEF Ready
<1>14. /\ y.chain = u.chain /\ y.kind = u.kind /\ y.proposer = u.proposer
       /\ y.heard = u.heard /\ y.b_exec = u.b_exec
  BY <1>11 DEF SamePast, SameRole, Decided
<1>15. Stay(u, y)
  BY <1>1, <1>14 DEF Stay
<1> QED BY <1>11, <1>12, <1>13, <1>14, <1>15

\* What beat() does with the first batch of the queue u.
Beaten(t, batch, u) ==
  \/ t.rotating /\ beat(t, batch) = on_propose(t, batch)
  \/ /\ ~t.rotating /\ (u.locked \/ u.last_proposed \notin u.certified)
     /\ beat(t, batch) = schedule_next(u)
  \/ /\ ~t.rotating /\ ~u.locked /\ u.last_proposed \in u.certified
     /\ \E y \in {Taken(u), TakenLocked(u)} :
          beat(t, batch) = on_propose(y, Head(u.pending_beats))

LEMMA BeatCases ==
  ASSUME NEW t, Inv(t), NEW batch \in SUBSET Cmds, Len(t.chain) <= MaxBlocks + 1
  PROVE  Beaten(t, batch, Enqueued(t, batch))
<1> DEFINE u == Enqueued(t, batch)
           v == Taken(u)
           x == TakenLocked(u)
           q == on_propose(v, Head(u.pending_beats))
           r == beat(t, batch)
<1>1. /\ Inv(u) /\ Stay(t, u) /\ SameCore(t, u)
      /\ u.pending_beats = Append(t.pending_beats, batch)
      /\ u.pending_beats \in Seq(SUBSET Cmds) /\ u.pending_beats # << >>
  BY EnqueuedFacts
<1>2. t.pending_beats \in Seq(SUBSET Cmds)
  BY DEF Inv, Good, Fields
<1>3. r = IF t.rotating THEN on_propose(t, batch)
          ELSE IF u.locked \/ u.last_proposed \notin u.certified THEN schedule_next(u)
          ELSE IF t.pending_beats = << >> THEN on_propose(x, batch)
          ELSE [q EXCEPT !.locked = TRUE]
  BY DEF beat, Enqueued, Taken, TakenLocked
<1> HIDE DEF r, u
<1>4. CASE t.rotating \/ u.locked \/ u.last_proposed \notin u.certified
  BY <1>3, <1>4 DEF Beaten, r, u
<1>5. CASE ~t.rotating /\ ~u.locked /\ u.last_proposed \in u.certified
  <2>1. ~u.rotating /\ u.chain = t.chain
    BY <1>1, <1>5 DEF SameCore, SamePast, SameTerm
  <2>2. \E y \in {v, x} : r = on_propose(y, Head(u.pending_beats))
    <3>1. CASE t.pending_beats = << >>
      <4>1. Head(u.pending_beats) = batch
        BY <1>1, <3>1
      <4> HIDE DEF v, x
      <4> QED BY <1>3, <1>5, <3>1, <4>1
    <3>2. CASE t.pending_beats # << >>
      <4>1. Head(u.pending_beats) \in SUBSET Cmds
        BY <1>1
      <4>2. /\ Good(v) /\ Ready(v) /\ v.chain = u.chain /\ ~v.rotating
            /\ v.pending_beats = Tail(u.pending_beats)
        BY <1>1, <1>5, <2>1, TakenFacts
      <4>3. r = [q EXCEPT !.locked = TRUE]
        BY <1>3, <1>5, <3>2
      <4> HIDE DEF v
      <4>4. Proposed(v, q)
        BY <2>1, <4>1, <4>2, ProposeFacts
      <4> HIDE DEF q
      <4>5. v.pending_beats # << >>
        <5>1. Len(t.pending_beats) \in Nat /\ Len(t.pending_beats) # 0
          BY <1>2, <3>2
        <5>2. Len(u.pending_beats) = Len(t.pending_beats) + 1
          BY <1>1, <1>2
        <5>3. Len(Tail(u.pending_beats)) = Len(u.pending_beats) - 1
          BY <1>1
        <5>4. Len(Tail(u.pending_beats)) = Len(t.pending_beats)
          BY <5>1, <5>2, <5>3
        <5>5. \A z : z = << >> => Len(z) = 0
          OBVIOUS
        <5> QED BY <4>2, <5>1, <5>4, <5>5
      <4>6. q.locked /\ q \in Fields
        BY <4>2, <4>4, <4>5 DEF Proposed, Good
      <4>7. [q EXCEPT !.locked = TRUE] = q
        BY <4>6 DEF Fields
      <4> QED BY <4>3, <4>7 DEF q
    <3> QED BY <3>1, <3>2
  <2> QED BY <1>5, <2>2 DEF Beaten, r, u
<1> QED BY <1>4, <1>5

\* The first waiting beat waits or proposes.
LEMMA BeatFacts ==
  ASSUME NEW t, Inv(t), NEW batch \in SUBSET Cmds, Len(t.chain) <= MaxBlocks + 1
  PROVE  Result(t, beat(t, batch))
<1> DEFINE u == Enqueued(t, batch)
           r == beat(t, batch)
<1>1. /\ Inv(u) /\ Stay(t, u) /\ u.chain = t.chain /\ u.rotating = t.rotating
      /\ u.pending_beats \in Seq(SUBSET Cmds) /\ u.pending_beats # << >>
  BY EnqueuedFacts DEF SameCore, SamePast, SameTerm
<1>2. /\ t \in Fields /\ Len(t.chain) \in Nat /\ t.b_exec \in Nat
      /\ Len(t.chain) <= Len(t.chain) + 1 /\ Len(t.chain) <= MaxBlocks + 2
  <2>1. t \in Fields /\ Len(t.chain) \in Nat /\ t.b_exec \in Nat
    BY ChainFacts DEF Inv, Good, Fields
  <2> QED BY <2>1, SizeAssumption
<1>3. Beaten(t, batch, u)
  BY BeatCases
<1> HIDE DEF u, r
<1>4. CASE t.rotating /\ r = on_propose(t, batch)
  <2>1. t.kind # "dummy"
    BY <1>4 DEF Inv, DummyInv
  <2>2. Ready(t)
    BY <2>1 DEF Ready, DummyInv
  <2>3. Proposed(t, r)
    BY <1>4, <2>2, ProposeFacts DEF Inv
  <2>4. Len(r.chain) <= Len(t.chain) + 1
    BY <1>2, <2>3 DEF Proposed
  <2> QED BY <2>3, <2>4 DEF Proposed, Result, Inv, r
<1>5. CASE ~t.rotating /\ (u.locked \/ u.last_proposed \notin u.certified)
           /\ r = schedule_next(u)
  <2>1. Scheduled(u, r)
    BY <1>1, <1>2, <1>5, ScheduleFacts DEF Inv
  <2>2. /\ Good(r) /\ FreeInv(r) /\ LockInv(r)
        /\ SamePast(u, r) /\ Decided(u, r) /\ Calls(u, r)
        /\ ~r.rotating /\ r.last_proposed = u.last_proposed
    BY <2>1 DEF Scheduled
  <2>3. DummyInv(r)
    BY <1>1, <2>2 DEF Inv, DummyInv, SamePast, SameRole, Calls, Own
  <2>4. /\ r.chain = t.chain /\ r.kind = t.kind /\ r.proposer = t.proposer
        /\ t.heard \subseteq r.heard /\ r.b_exec >= t.b_exec
    BY <1>1, <2>2 DEF Stay, SamePast, SameRole, Decided
  <2>5. Stay(t, r) /\ Len(r.chain) <= Len(t.chain) + 1
    BY <1>2, <1>5, <2>4 DEF Stay
  <2> QED BY <2>2, <2>3, <2>5 DEF Result, Inv, r
<1>6. CASE /\ ~t.rotating /\ ~u.locked /\ u.last_proposed \in u.certified
           /\ \E y \in {Taken(u), TakenLocked(u)} : r = on_propose(y, Head(u.pending_beats))
  <2>1. PICK y \in {Taken(u), TakenLocked(u)} : r = on_propose(y, Head(u.pending_beats))
    BY <1>6
  <2>2. Good(y) /\ Ready(y) /\ Stay(u, y) /\ y.chain = u.chain
    BY <1>1, <1>6, TakenFacts
  <2>3. Proposed(y, r)
    <3>1. Head(u.pending_beats) \in SUBSET Cmds
      BY <1>1
    <3>2. Len(y.chain) <= MaxBlocks + 1
      BY <1>1, <2>2
    <3> QED BY <2>1, <2>2, <3>1, <3>2, ProposeFacts
  <2>4. /\ Good(r) /\ FreeInv(r) /\ LockInv(r) /\ DummyInv(r) /\ Stay(y, r)
        /\ Len(r.chain) = Len(y.chain) + 1
    BY <2>3 DEF Proposed
  <2>5. Stay(t, r)
    <3>1. u \in Fields /\ y \in Fields /\ r \in Fields
      BY <1>1, <2>2, <2>4 DEF Inv, Good
    <3>2. Stay(t, y)
      BY <1>1, <1>2, <2>2, <3>1, StayTrans
    <3> QED BY <1>2, <2>4, <3>1, <3>2, StayTrans
  <2>6. Len(r.chain) <= Len(t.chain) + 1
    BY <1>1, <1>2, <2>2, <2>4
  <2> QED BY <2>4, <2>5, <2>6 DEF Result, Inv, r
<1> QED BY <1>3, <1>4, <1>5, <1>6 DEF Beaten, r

\* rotate forgets the blocks in prop_blk, so it has none that came before the rotation.
LEMMA RotateFacts ==
  ASSUME NEW t, Inv(t), t.kind # "dummy"
  PROVE  LET u == rotate(t) IN Inv(u) /\ u.chain = t.chain /\ u.rotating
<1> DEFINE v == Reject(t, t.pm_qc_finish)
           w == Reject(v, t.pm_qc_manual)
           P == [q \in DOMAIN w.prop_blk |-> None]
           next == (w.proposer + 1) % NReplicas
           u == rotate(t)
<1>1. t \in Fields /\ t.proposer \in Ids /\ t.prop_blk \in [Ids -> Nat \cup {None}]
  BY ChainFacts DEF Inv, Good, Fields
<1>2. /\ v \in Fields /\ SamePast(t, v) /\ SameBeats(t, v) /\ SameTerm(t, v)
      /\ Decided(t, v) /\ Weaker(t, v)
  BY <1>1, RejectFacts
<1>3. /\ w \in Fields /\ SamePast(v, w) /\ SameBeats(v, w) /\ SameTerm(v, w)
      /\ Decided(v, w) /\ Weaker(v, w)
  BY <1>2, RejectFacts
<1> HIDE DEF v
<1>4. /\ SamePast(t, w) /\ SameBeats(t, w) /\ SameTerm(t, w) /\ Decided(t, w) /\ Weaker(t, w)
  BY <1>2, <1>3, WeakerTrans DEF SamePast, SameRole, SameBeats, SameTerm, Decided
<1>5. Good(w)
  <2>1. /\ t.hqc <= Len(t.chain) /\ t.b_exec <= Len(t.chain) /\ t.pm_qc_finish <= Len(t.chain)
        /\ t.last_proposed \in {0} \cup Own(t) /\ (t.pm_wait_propose <=> ~t.rotating)
    BY DEF Inv, Good, ChainInv, TermInv
  <2> QED BY <1>3, <1>4, <2>1, WeakerKeeps DEF Inv, SameTerm, SameBeats, Decided
<1>6. P = [q \in Ids |-> None]
  BY <1>1, <1>4 DEF SamePast
<1>7. next \in Ids
  BY <1>1, <1>4, SelfAssumption DEF SamePast, SameRole, Ids
<1>8. u = [w EXCEPT !.reg_proposal = TRUE, !.reg_receive_proposal = TRUE,
                    !.prop_blk = P, !.rotating = TRUE, !.proposer = next,
                    !.pm_wait_propose = FALSE, !.timer = "exp",
                    !.beats = {}, !.heard = {}]
  BY <1>3 DEF rotate, v, Fields
<1> HIDE DEF w, P, next, u
<1>9. u \in Fields
  BY <1>1, <1>3, <1>6, <1>7, <1>8, ZenonT(60) DEF Fields
<1>10. /\ u.chain = w.chain /\ u.certified = w.certified /\ u.hqc = w.hqc /\ u.b_exec = w.b_exec
       /\ u.last_proposed = w.last_proposed /\ u.pm_qc_finish = w.pm_qc_finish
       /\ u.pm_qc_manual = w.pm_qc_manual /\ u.qc_waiting = w.qc_waiting /\ u.kind = w.kind
       /\ u.heard = {} /\ u.unheard = w.unheard
       /\ u.rotating /\ ~u.pm_wait_propose /\ u.prop_blk = P
  BY <1>3, <1>8 DEF Fields
<1>11. ChainInv(u)
  BY <1>5, <1>10 DEF Good, ChainInv, Own
<1>12. PromiseInv(u)
  BY <1>5, <1>10 DEF Good, PromiseInv, On
<1>13. TermInv(u)
  BY <1>6, <1>10 DEF TermInv
<1>14. u.chain = t.chain /\ u.kind # "dummy"
  BY <1>4, <1>10 DEF SamePast, SameRole
<1> QED
  BY <1>9, <1>10, <1>11, <1>12, <1>13, <1>14 DEF Inv, Good, FreeInv, LockInv, DummyInv, u

-----------------------------------------------------------------------------
\* The steps.

\* What every step results in.
After(t, u) ==
  Inv(u) /\ Len(u.chain) <= MaxBlocks + 1 /\ (Stay(t, u) \/ u.rotating)

\* Room leaves place for the blocks of one handler.
LEMMA RoomFacts ==
  ASSUME s \in Fields, Room
  PROVE  Len(s.chain) <= MaxBlocks /\ Len(s.chain) <= MaxBlocks + 1 /\ Len(s.chain) \in Nat
BY ChainFacts, SizeAssumption DEF Room

\* A handler that first changes what waits and then calls.
LEMMA ResultAfter ==
  ASSUME Inv(s), Room, NEW t, t.chain = s.chain, Stay(s, t), t \in Fields,
         NEW u, Result(t, u)
  PROVE  After(s, u)
<1>1. Len(u.chain) <= MaxBlocks + 1
  <2>1. Len(s.chain) < MaxBlocks /\ Len(s.chain) \in Nat /\ Len(u.chain) \in Nat
    BY ChainFacts DEF Room, Result, Inv, Good
  <2> QED BY <2>1, SizeAssumption DEF Result
<1>2. Stay(s, u)
  BY StayTrans DEF Result, Inv, Good
<1> QED BY <1>1, <1>2 DEF Result, After

\* The constructors establish the invariant.
LEMMA InitStep == Init => Inv(s) /\ Len(s.chain) <= MaxBlocks + 1
<1> SUFFICES ASSUME NEW kind \in Kinds, s = Initial(kind)
             PROVE  Inv(s) /\ Len(s.chain) <= MaxBlocks + 1
  BY DEF Init
<1>1. kind \in {"dummy", "rr"}
  BY KindsAssumption
<1>2. s \in Fields
  <2>1. 0 \in Ids /\ Self \in Ids
    BY SelfAssumption DEF Ids
  <2>2. Absent \in [state : {"absent", "pending", "rejected"}, cbs : Seq(Callback)]
    BY DEF Absent
  <2>3. [q \in 0..(NReplicas - 1) |-> None] \in [Ids -> Nat \cup {None}]
    BY DEF Ids
  <2>4. [b \in 1..(MaxBlocks + 2) |-> Absent] \in
          [1..(MaxBlocks + 2) -> [state : {"absent", "pending", "rejected"}, cbs : Seq(Callback)]]
    BY <2>2
  <2>5. /\ << >> \in Seq([by : Ids, cmds : SUBSET Cmds, qc_ref : Nat])
        /\ << >> \in Seq(Cmds) /\ << >> \in Seq(SUBSET Cmds)
    OBVIOUS
  <2> QED BY <2>1, <2>3, <2>4, <2>5 DEF Initial, Fields
<1>3. /\ s.kind = kind /\ s.chain = << >> /\ s.certified = {0} /\ s.hqc = 0 /\ s.b_exec = 0
      /\ s.rotating = FALSE /\ s.timer = "none" /\ s.last_proposed = 0 /\ s.locked = FALSE
      /\ s.pm_qc_finish = None /\ s.pm_qc_manual = None /\ s.pm_wait_propose = TRUE
      /\ s.heard = {} /\ s.unheard = {} /\ s.qc_waiting = [b \in 1..(MaxBlocks + 2) |-> Absent]
      /\ s.prop_blk = [q \in 0..(NReplicas - 1) |-> None]
      /\ kind = "dummy" => s.proposer = Self /\ s.elected = 0
  BY DEF Initial
<1>4. Len(s.chain) = 0 /\ DOMAIN s.chain = {} /\ Own(s) = {}
  BY <1>3 DEF Own
<1>5. ChainInv(s)
  BY <1>3, <1>4 DEF ChainInv, None
<1>6. PromiseInv(s)
  BY <1>3 DEF PromiseInv, Absent, On
<1>7. TermInv(s) /\ FreeInv(s) /\ LockInv(s)
  BY <1>3 DEF TermInv, FreeInv, LockInv, Ids
<1>8. DummyInv(s)
  BY <1>3, <1>4 DEF DummyInv
<1> QED BY <1>2, <1>4, <1>5, <1>6, <1>7, <1>8, SizeAssumption DEF Inv, Good

\* A command waits, or fills a batch for beat().
LEMMA ExecCommandStep ==
  ASSUME Inv(s), NEW c \in Cmds, ExecCommand(c)
  PROVE  After(s, s')
<1> DEFINE t == [s EXCEPT !.sent = @ \cup {c}, !.decision_waiting = @ \cup {c}]
           buffer == Append(s.cmd_pending_buffer, c)
           v == [t EXCEPT !.cmd_pending_buffer = buffer]
           w == [t EXCEPT !.cmd_pending_buffer = << >>]
<1>1. /\ s \in Fields /\ Good(s) /\ s.sent \in SUBSET Cmds /\ s.decision_waiting \in SUBSET Cmds
      /\ s.cmd_pending_buffer \in Seq(Cmds)
  BY DEF Inv, Good, Fields
<1>2. buffer \in Seq(Cmds) /\ << >> \in Seq(Cmds) /\ ToSet(buffer) \in SUBSET Cmds
  <2>1. buffer \in Seq(Cmds)
    BY <1>1
  <2> HIDE DEF buffer
  <2> QED BY <2>1 DEF ToSet
<1>3. /\ Room
      /\ s' = IF t.proposer # Self THEN t
              ELSE IF Len(buffer) < BlkSize THEN v
              ELSE beat(w, ToSet(buffer))
  BY <1>1 DEF ExecCommand, Fields
<1> HIDE DEF buffer
<1>4. t \in Fields
  BY <1>1, ZenonT(60) DEF Fields
<1>5. SameCore(s, t) /\ Calls(s, t)
  BY <1>1 DEF Fields, SameCore, SamePast, SameRole, SameTerm, Decided, Calls
<1> HIDE DEF t
<1>6. v \in Fields /\ w \in Fields
  BY <1>2, <1>4 DEF Fields
<1>7. SameCore(t, v) /\ Calls(t, v) /\ SameCore(t, w) /\ Calls(t, w)
  BY <1>4 DEF Fields, SameCore, SamePast, SameRole, SameTerm, Decided, Calls
<1> HIDE DEF v, w
<1>8. ASSUME NEW y \in {t, v, w} PROVE Inv(y) /\ Stay(s, y) /\ y.chain = s.chain
  <2>1. y \in Fields /\ SameCore(s, y) /\ Calls(s, y)
    BY <1>4, <1>5, <1>6, <1>7, <1>8 DEF SameCore, SamePast, SameRole, SameTerm, Decided, Calls
  <2> QED BY <2>1, SameCoreKeeps DEF Inv
<1>9. CASE s' \in {t, v}
  BY <1>1, <1>3, <1>8, <1>9, RoomFacts DEF After
<1>10. CASE t.proposer = Self /\ s' = beat(w, ToSet(buffer))
  <2>1. Len(w.chain) <= MaxBlocks + 1
    BY <1>1, <1>3, <1>8, RoomFacts
  <2>2. Result(w, s')
    BY <1>2, <1>8, <1>10, <2>1, BeatFacts
  <2> QED BY <1>3, <1>6, <1>8, <2>2, ResultAfter
<1> QED BY <1>3, <1>9, <1>10

\* s with a certificate for b, before the callbacks.
LEMMA CertifiedFacts ==
  ASSUME Inv(s), Room, NEW b \in DOMAIN s.chain, s.chain[b].by = Self, b \notin s.certified,
         NEW t, t = [s EXCEPT !.certified = @ \cup {b}, !.hqc = Max({@, b}),
                              !.qc_waiting[b] = Absent]
  PROVE  /\ Good(t) /\ FreeInv(t) /\ Ready(t) /\ Stay(s, t) /\ t.chain = s.chain
         /\ LockInv(t) \/ On(s, b, "beat") # {}
         /\ b \in DOMAIN s.qc_waiting
<1> DEFINE h == Max({s.hqc, b})
           C == s.certified \cup {b}
           Q == [s.qc_waiting EXCEPT ![b] = Absent]
<1>1. /\ s \in Fields /\ Len(s.chain) \in Nat /\ DOMAIN s.chain = 1..Len(s.chain)
      /\ s.hqc \in Nat /\ s.hqc <= Len(s.chain) /\ s.b_exec \in Nat /\ s.certified \in SUBSET Nat
      /\ b \in Nat /\ b <= Len(s.chain)
  BY ChainFacts, SMTT(30) DEF Inv, Good, Fields, ChainInv
<1>2. b \in DOMAIN s.qc_waiting /\ b \in Own(s)
  <2>1. Len(s.chain) <= MaxBlocks + 2
    BY <1>1, SizeAssumption DEF Room
  <2> QED BY <1>1, <2>1, DomainFacts DEF Own
<1>3. h \in Nat /\ h <= Len(s.chain)
  BY <1>1, MaxOfTwo
<1>4. Absent \in [state : {"absent", "pending", "rejected"}, cbs : Seq(Callback)]
  BY DEF Absent
<1> HIDE DEF h, C, Q
<1>5. t = [s EXCEPT !.certified = C, !.hqc = h, !.qc_waiting = Q]
  BY <1>1 DEF h, C, Q, Fields
<1>6. t \in Fields
  <2>1. C \in SUBSET Nat
    BY <1>1 DEF C
  <2>2. Q \in [1..(MaxBlocks + 2) ->
                 [state : {"absent", "pending", "rejected"}, cbs : Seq(Callback)]]
    BY <1>1, <1>4 DEF Q, Fields
  <2>3. t = [[[s EXCEPT !.certified = C] EXCEPT !.hqc = h] EXCEPT !.qc_waiting = Q]
    BY <1>1, <1>5 DEF Fields
  <2>4. [s EXCEPT !.certified = C] \in Fields
    BY <1>1, <2>1 DEF Fields
  <2> DEFINE x == [s EXCEPT !.certified = C]
             y == [x EXCEPT !.hqc = h]
  <2> HIDE DEF x
  <2>5. y \in Fields
    BY <1>3, <2>4 DEF Fields, x
  <2> HIDE DEF y
  <2>6. [y EXCEPT !.qc_waiting = Q] \in Fields
    BY <2>2, <2>5 DEF Fields
  <2> QED BY <2>3, <2>6 DEF x, y
<1>7. /\ t.chain = s.chain /\ t.certified = s.certified \cup {b} /\ t.hqc = h
      /\ t.kind = s.kind /\ t.heard = s.heard /\ t.unheard = s.unheard /\ t.proposer = s.proposer
      /\ t.prop_blk = s.prop_blk /\ t.b_exec = s.b_exec
      /\ t.pm_qc_manual = s.pm_qc_manual /\ t.pm_qc_finish = s.pm_qc_finish
      /\ SameTerm(s, t) /\ Calls(s, t)
      /\ t.qc_waiting = Q
  BY <1>1, <1>5, ZenonT(60) DEF Fields, SameTerm, Calls, C
<1>8. /\ DOMAIN t.qc_waiting = DOMAIN s.qc_waiting /\ t.qc_waiting[b] = Absent
      /\ \A c \in DOMAIN s.qc_waiting : c # b => t.qc_waiting[c] = s.qc_waiting[c]
  BY <1>2, <1>7 DEF Q
<1>9. Own(t) = Own(s)
  BY <1>7 DEF Own
<1>10. On(t, b, "beat") = {} /\ On(t, b, "manual") = {}
  BY <1>8 DEF On, Absent
<1>11. ChainInv(t)
  BY <1>2, <1>3, <1>7, <1>9 DEF Inv, Good, ChainInv, SameTerm
<1>12. PromiseInv(t)
  <2> SUFFICES ASSUME NEW c \in DOMAIN s.qc_waiting
               PROVE  /\ c > Len(s.chain) \/ c \in t.certified => t.qc_waiting[c] = Absent
                      /\ t.qc_waiting[c].state # "pending" => t.qc_waiting[c].cbs = << >>
                      /\ Len(t.qc_waiting[c].cbs) <= 2
                      /\ \A k \in {"beat", "manual"} :
                           \A i, j \in On(t, c, k) : i = j
                      /\ On(t, c, "manual") # {} => c = s.pm_qc_manual
    BY <1>7, <1>8 DEF PromiseInv
  <2>1. CASE c = b
    BY <1>8, <1>10, <2>1 DEF Absent
  <2>2. CASE c # b
    BY <1>7, <1>8, <2>2 DEF Inv, Good, PromiseInv, On
  <2> QED BY <2>1, <2>2
<1>13. TermInv(t)
  BY <1>7 DEF Inv, Good, TermInv, SameTerm
<1>14. FreeInv(t)
  <2> SUFFICES ASSUME ~t.rotating, ~t.locked, t.last_proposed # 0
               PROVE  /\ t.qc_waiting[t.last_proposed].state # "rejected"
                      /\ On(t, t.last_proposed, "beat") = {}
                      /\ t.pm_qc_finish # t.last_proposed
    BY DEF FreeInv
  <2>1. /\ s.qc_waiting[s.last_proposed].state # "rejected"
        /\ On(s, s.last_proposed, "beat") = {}
        /\ s.pm_qc_finish # s.last_proposed /\ t.last_proposed = s.last_proposed
    BY <1>7 DEF Inv, FreeInv, SameTerm
  <2>2. CASE t.last_proposed = b
    BY <1>7, <1>8, <1>10, <2>1, <2>2 DEF Absent
  <2>3. CASE t.last_proposed # b
    <3>1. t.qc_waiting[t.last_proposed] = s.qc_waiting[s.last_proposed]
      BY <1>7, <2>1, <2>3
    <3> QED BY <1>7, <2>1, <3>1 DEF On
  <2> QED BY <2>2, <2>3
<1>15. LockInv(t) \/ On(s, b, "beat") # {}
  <2> SUFFICES ASSUME ~t.rotating, t.locked, t.proposer = Self, On(s, b, "beat") = {}
               PROVE  t.last_proposed \in Own(t) \ t.certified /\ On(t, t.last_proposed, "beat") # {}
    BY DEF LockInv
  <2>1. /\ s.last_proposed \in Own(s) \ s.certified /\ On(s, s.last_proposed, "beat") # {}
        /\ t.last_proposed = s.last_proposed
    BY <1>7 DEF Inv, LockInv, SameTerm
  <2>2. t.last_proposed # b
    BY <2>1
  <2>3. t.qc_waiting[t.last_proposed] = s.qc_waiting[s.last_proposed]
    BY <1>7, <2>1, <2>2
  <2> QED BY <1>7, <1>9, <2>1, <2>2, <2>3 DEF On
<1>16. Ready(t)
  <2> SUFFICES ASSUME s.kind = "dummy" PROVE Ready(t)
    BY <1>7 DEF Ready, DummyInv
  <2>1. DummyInv(t)
    BY <1>7, <1>9 DEF Inv, DummyInv, SameTerm, Calls
  <2>2. b = Len(s.chain)
    BY <1>1 DEF Inv, DummyInv
  <2>3. DOMAIN t.chain \subseteq t.certified
    BY <1>1, <1>7, <2>2 DEF Inv, DummyInv
  <2> QED BY <2>1, <2>3 DEF Ready
<1>17. Stay(s, t)
  BY <1>1, <1>7 DEF Stay, SameTerm
<1> QED BY <1>2, <1>6, <1>7, <1>11, <1>12, <1>13, <1>14, <1>15, <1>16, <1>17 DEF Good

\* The callbacks, in order: if b was what the lock waits for, one is its beat.
LEMMA QcFinishStep ==
  ASSUME Inv(s), NEW b \in DOMAIN s.chain, QcFinish(b)
  PROVE  After(s, s')
<1> DEFINE cbs == s.qc_waiting[b].cbs
           t == [s EXCEPT !.certified = @ \cup {b}, !.hqc = Max({@, b}),
                          !.qc_waiting[b] = Absent]
           u == IF Len(cbs) > 0 THEN Resume(t, cbs[1]) ELSE t
           r == IF Len(cbs) > 1 THEN Resume(u, cbs[2]) ELSE u
<1>1. Room /\ s.chain[b].by = Self /\ b \notin s.certified
  BY DEF QcFinish
<1>2. /\ Good(t) /\ FreeInv(t) /\ Ready(t) /\ Stay(s, t) /\ t.chain = s.chain
      /\ LockInv(t) \/ On(s, b, "beat") # {}
      /\ b \in DOMAIN s.qc_waiting
  BY <1>1, CertifiedFacts, ZenonT(90)
<1> HIDE DEF t
<1>3. s \in Fields /\ t \in Fields
  BY <1>2 DEF Inv, Good
<1>4. Len(t.chain) < MaxBlocks /\ Len(t.chain) \in Nat /\ MaxBlocks \in Nat
  BY <1>1, <1>2, <1>3, ChainFacts, SizeAssumption DEF Room
<1>5. /\ cbs \in Seq(Callback) /\ Len(cbs) \in Nat /\ DOMAIN cbs = 1..Len(cbs) /\ Len(cbs) <= 2
      /\ \A i \in 1..Len(cbs) : cbs[i] \in Callback
  <2>1. cbs \in Seq(Callback) /\ Len(cbs) <= 2
    BY <1>2, <1>3, ZenonT(60) DEF Inv, Good, PromiseInv, Fields
  <2> HIDE DEF cbs
  <2> QED BY <2>1
<1>6. On(s, b, "beat") = {i \in 1..Len(cbs) : "beat" \in DOMAIN cbs[i]}
  BY <1>5 DEF On
<1>7. ASSUME s.kind = "dummy" PROVE Len(cbs) <= 1 /\ (Len(cbs) = 1 => "beat" \in DOMAIN cbs[1])
  <2>1. b # None /\ s.pm_qc_manual = None
    BY <1>1, <1>3, <1>7, ChainFacts DEF Inv, DummyInv, None
  <2>2. On(s, b, "manual") = {} /\ \A i, j \in On(s, b, "beat") : i = j
    BY <1>2, <2>1 DEF Inv, Good, PromiseInv
  <2>3. \A i \in 1..Len(cbs) : "manual" \notin DOMAIN cbs[i]
    BY <1>5, <2>2 DEF On
  <2>4. \A i \in 1..Len(cbs) : i \in On(s, b, "beat")
    BY <1>5, <1>6, <2>3 DEF Callback
  <2>5. ~(1 \in 1..Len(cbs) /\ 2 \in 1..Len(cbs))
    BY <2>2, <2>4
  <2> QED BY <1>5, <1>6, <2>4, <2>5
<1> HIDE DEF cbs
<1>8. /\ Good(u) /\ FreeInv(u) /\ DummyInv(u) /\ Stay(t, u) /\ Len(u.chain) <= Len(t.chain) + 1
      /\ LockInv(t) => LockInv(u)
      /\ Len(cbs) > 0 /\ "beat" \in DOMAIN cbs[1] /\ t.proposer = Self => LockInv(u)
  <2>1. CASE Len(cbs) > 0
    <3>1. u = Resume(t, cbs[1]) /\ cbs[1] \in Callback /\ Len(t.chain) <= MaxBlocks + 1
      BY <1>4, <1>5, <2>1
    <3>2. t.kind = "dummy" => "beat" \in DOMAIN cbs[1] /\ Ready(t)
      BY <1>2, <1>5, <1>7, <2>1 DEF Stay
    <3> HIDE DEF u
    <3> QED BY <1>2, <2>1, <3>1, <3>2, ResumeFacts DEF Ready
  <2>2. CASE ~(Len(cbs) > 0)
    <3>1. u = t /\ Stay(t, t) /\ Len(t.chain) <= Len(t.chain) + 1
      BY <1>3, <2>2, StayRefl
    <3> HIDE DEF u
    <3> QED BY <1>2, <2>2, <3>1 DEF Ready
  <2> QED BY <2>1, <2>2
<1> HIDE DEF u
<1>9. Stay(s, u) /\ u \in Fields /\ u.proposer = t.proposer /\ u.kind = s.kind
      /\ Len(u.chain) \in Nat
  <2>1. u \in Fields /\ Len(u.chain) \in Nat
    BY <1>8, ChainFacts DEF Good
  <2>2. Stay(s, u)
    BY <1>2, <1>3, <1>8, <2>1, StayTrans
  <2>3. u.proposer = t.proposer /\ u.kind = s.kind
    BY <1>2, <1>8 DEF Stay
  <2> QED BY <2>1, <2>2, <2>3
<1>10. /\ Good(r) /\ FreeInv(r) /\ DummyInv(r) /\ Stay(u, r) /\ Len(r.chain) <= Len(u.chain) + 1
       /\ LockInv(u) => LockInv(r)
       /\ Len(cbs) > 1 /\ "beat" \in DOMAIN cbs[2] /\ u.proposer = Self => LockInv(r)
  <2>1. CASE Len(cbs) > 1
    <3>1. r = Resume(u, cbs[2]) /\ cbs[2] \in Callback /\ Len(u.chain) <= MaxBlocks + 1
      BY <1>4, <1>5, <1>8, <1>9, <2>1
    <3>2. u.kind # "dummy"
      BY <1>5, <1>7, <1>9, <2>1
    <3> HIDE DEF r
    <3> QED BY <1>8, <2>1, <3>1, <3>2, ResumeFacts
  <2>2. CASE ~(Len(cbs) > 1)
    <3>1. r = u /\ Stay(u, u) /\ Len(u.chain) <= Len(u.chain) + 1
      BY <1>9, <2>2, StayRefl
    <3> HIDE DEF r
    <3> QED BY <1>8, <2>2, <3>1
  <2> QED BY <2>1, <2>2
<1> HIDE DEF r
<1>11. LockInv(r)
  <2>1. CASE LockInv(t) \/ t.proposer # Self
    <3>1. LockInv(t)
      BY <2>1 DEF LockInv
    <3> QED BY <1>8, <1>10, <3>1
  <2>2. CASE t.proposer = Self /\ \E i \in 1..Len(cbs) : "beat" \in DOMAIN cbs[i]
    <3>1. PICK i \in 1..Len(cbs) : "beat" \in DOMAIN cbs[i]
      BY <2>2
    <3>2. i = 1 \/ i = 2
      BY <1>5
    <3>3. CASE i = 1
      BY <1>5, <1>8, <1>10, <2>2, <3>1, <3>3
    <3>4. CASE i = 2
      BY <1>5, <1>9, <1>10, <2>2, <3>1, <3>4
    <3> QED BY <3>2, <3>3, <3>4
  <2> QED BY <1>2, <1>6, <2>1, <2>2
<1>12. Stay(s, r)
  BY <1>3, <1>9, <1>10, StayTrans DEF Good
<1>13. Len(r.chain) <= MaxBlocks + 1
  <2>1. Len(r.chain) \in Nat
    BY <1>10, ChainFacts DEF Good
  <2> QED BY <1>4, <1>8, <1>9, <1>10, <2>1
<1>14. s' = r
  BY DEF QcFinish, r, u, t, cbs
<1> QED BY <1>10, <1>11, <1>12, <1>13, <1>14 DEF After, Inv

\* The certificate of a new block of another replica refers to an old block.
LEMMA CertificateFacts ==
  ASSUME Good(s), NEW p, NEW qc_ref \in Certificates(p)
  PROVE  qc_ref \in 0..Len(s.chain)
<1>1. /\ Len(s.chain) \in Nat /\ DOMAIN s.chain = 1..Len(s.chain)
      /\ \A b \in 1..Len(s.chain) : s.chain[b].qc_ref \in Nat /\ s.chain[b].qc_ref < b
  BY ChainFacts DEF Good, ChainInv
<1>2. CASE qc_ref \in {0} \cup {i \in DOMAIN s.chain : s.chain[i].by = p}
  BY <1>1, <1>2
<1>3. CASE qc_ref \in {s.chain[i].qc_ref : i \in DOMAIN s.chain}
  <2>1. PICK i \in 1..Len(s.chain) : qc_ref = s.chain[i].qc_ref
    BY <1>1, <1>3
  <2>2. qc_ref \in Nat /\ qc_ref < i
    BY <1>1, <2>1
  <2> QED BY <1>1, <2>1, <2>2
<1> QED BY <1>2, <1>3 DEF Certificates

\* What another replica's block leaves to say of the lock: nothing has become of the
\* promises and the term, or the rotation has ended.
LEMMA OthersBlockFacts ==
  ASSUME Inv(s), s.kind # "dummy", NEW u, Good(u), Stay(s, u), Len(u.chain) <= MaxBlocks + 1,
         u.certified = s.certified, SameBeats(s, u),
         \/ SameTerm(s, u) /\ u.qc_waiting = s.qc_waiting
         \/ ~u.rotating /\ ~u.locked /\ u.last_proposed = 0
  PROVE  After(s, u)
<1>1. u.kind # "dummy" /\ u.proposer = s.proposer
  BY DEF Stay
<1>2. Own(s) \subseteq Own(u)
  <2>1. /\ Len(s.chain) \in Nat /\ DOMAIN s.chain = 1..Len(s.chain)
        /\ Len(u.chain) \in Nat /\ DOMAIN u.chain = 1..Len(u.chain)
    BY ChainFacts DEF Inv, Good
  <2>2. DOMAIN s.chain \subseteq DOMAIN u.chain
    BY <2>1 DEF Stay
  <2> QED BY <2>2 DEF Own, Stay
<1>3. FreeInv(u)
  BY DEF Inv, FreeInv, SameTerm, SameBeats, On
<1>4. LockInv(u)
  BY <1>1, <1>2 DEF Inv, LockInv, SameTerm, On
<1> QED BY <1>1, <1>3, <1>4 DEF After, Inv, DummyInv

\* A proposal of another replica may decide blocks and end the rotation.
LEMMA ReceiveProposalStep ==
  ASSUME Inv(s), NEW p \in Others, NEW cmds \in {{}, s.decision_waiting},
         ReceiveProposal(p, cmds)
  PROVE  After(s, s')
<1>1. s \in Fields /\ Good(s) /\ Len(s.chain) \in Nat /\ cmds \in SUBSET Cmds /\ p \in Ids
  <2>1. s.decision_waiting \in SUBSET Cmds /\ p \in Ids
    BY DEF Inv, Good, Fields, Others, Ids
  <2> QED BY <2>1, ChainFacts DEF Inv, Good
<1>2. PICK qc_ref \in Certificates(p) :
        s' = Remember(Extend(s, p, cmds, qc_ref), Len(s.chain) + 1)
  BY DEF ReceiveProposal
<1>3. Extended(s, p, cmds, s')
  BY <1>1, <1>2, CertificateFacts, ExtendFacts
<1>4. Room /\ s.kind # "dummy"
  BY DEF ReceiveProposal
<1>5. /\ Good(s') /\ Stay(s, s') /\ Len(s'.chain) = Len(s.chain) + 1
      /\ s'.certified = s.certified /\ SameBeats(s, s')
      /\ \/ SameTerm(s, s') /\ s'.qc_waiting = s.qc_waiting
         \/ ~s'.rotating /\ ~s'.locked /\ s'.last_proposed = 0
  BY <1>3 DEF Extended
<1>6. Len(s'.chain) <= MaxBlocks + 1
  BY <1>1, <1>4, <1>5, RoomFacts, SizeAssumption
<1> QED BY <1>4, <1>5, <1>6, OthersBlockFacts

\* A block that is only fetched decides nothing.
LEMMA FetchBlkStep ==
  ASSUME Inv(s), NEW p \in Others, NEW cmds \in {{}, s.decision_waiting}, FetchBlk(p, cmds)
  PROVE  After(s, s')
<1> DEFINE n == Len(s.chain) + 1
           N == s.unheard \cup {n}
<1>1. /\ s \in Fields /\ Good(s) /\ Len(s.chain) \in Nat /\ DOMAIN s.chain = 1..Len(s.chain)
      /\ cmds \in SUBSET Cmds /\ p \in Ids /\ p # Self /\ s.b_exec \in Nat
      /\ s.unheard \in SUBSET Nat
  <2>1. s.decision_waiting \in SUBSET Cmds /\ p \in Ids /\ p # Self
    BY DEF Inv, Good, Fields, Others, Ids
  <2> QED BY <2>1, ChainFacts DEF Inv, Good, Fields
<1>2. PICK qc_ref \in Certificates(p) :
        s' = [Deliver(s, p, cmds, qc_ref) EXCEPT !.unheard = @ \cup {n}]
  BY DEF FetchBlk
<1> DEFINE v == Deliver(s, p, cmds, qc_ref)
<1>3. Appended(s, p, cmds, v)
  BY <1>1, CertificateFacts, DeliverFacts
<1>4. Room /\ s.kind # "dummy" /\ s' = [v EXCEPT !.unheard = @ \cup {n}]
  BY <1>2 DEF FetchBlk
<1> HIDE DEF v
<1>5. /\ Good(v) /\ v \in Fields /\ Len(v.chain) = n /\ v.chain[n].by = p
      /\ \A b \in DOMAIN s.chain : v.chain[b] = s.chain[b]
      /\ v.kind = s.kind /\ v.certified = s.certified /\ v.unheard = s.unheard
      /\ v.proposer = s.proposer /\ v.heard = s.heard
      /\ SameBeats(s, v) /\ SameTerm(s, v) /\ v.b_exec = s.b_exec
      /\ v.qc_waiting = s.qc_waiting
  BY <1>3 DEF Appended, Good, SameRole, Decided
<1>6. s' = [v EXCEPT !.unheard = N] /\ N \in SUBSET Nat
  BY <1>1, <1>4, <1>5
<1> HIDE DEF N
<1>7. s' \in Fields
  BY <1>5, <1>6, ZenonT(60) DEF Fields
<1>8. /\ s'.unheard = N /\ s'.chain = v.chain /\ s'.heard = v.heard /\ s'.kind = v.kind
      /\ s'.certified = v.certified /\ s'.proposer = v.proposer /\ s'.prop_blk = v.prop_blk
      /\ s'.pm_qc_manual = v.pm_qc_manual /\ s'.hqc = v.hqc /\ s'.b_exec = v.b_exec
      /\ s'.qc_waiting = v.qc_waiting /\ SameBeats(v, s') /\ SameTerm(v, s')
  BY <1>5, <1>6 DEF Fields, SameBeats, SameTerm
<1>9. DOMAIN v.chain = 1..n /\ n \in Nat /\ n \in 1..n
  BY <1>1, <1>5, ChainFacts
<1>10. Good(s')
  <2>1. s'.unheard \subseteq DOMAIN v.chain \ Own(v)
    <3>1. n \in DOMAIN v.chain \ Own(v)
      BY <1>1, <1>5, <1>9 DEF Own
    <3>2. v.unheard \subseteq DOMAIN v.chain \ Own(v)
      BY <1>5 DEF Good, ChainInv
    <3> QED BY <1>5, <1>8, <3>1, <3>2 DEF N
  <2>2. ChainInv(s')
    BY <1>5, <1>8, <2>1 DEF Good, ChainInv, Own, SameBeats, SameTerm
  <2>3. PromiseInv(s') /\ TermInv(s')
    BY <1>5, <1>8 DEF Good, PromiseInv, TermInv, On, SameTerm
  <2> QED BY <1>7, <2>2, <2>3 DEF Good
<1>11. SameBeats(s, s') /\ SameTerm(s, s') /\ s'.qc_waiting = s.qc_waiting
  BY <1>5, <1>8 DEF SameBeats, SameTerm
<1>12. Stay(s, s')
  BY <1>1, <1>5, <1>8, <1>11 DEF Stay, SameTerm
<1>13. Len(s'.chain) <= MaxBlocks + 1
  BY <1>1, <1>4, <1>5, <1>8, RoomFacts, SizeAssumption
<1> QED BY <1>4, <1>5, <1>8, <1>10, <1>11, <1>12, <1>13, OthersBlockFacts

\* The proposal of such a block decides what it would have decided, now.
LEMMA ReceiveLateStep ==
  ASSUME Inv(s), Len(s.chain) <= MaxBlocks + 1, NEW b \in DOMAIN s.chain, ReceiveLate(b)
  PROVE  After(s, s')
<1> DEFINE w == update(s, b)
           m == Remember(w, b)
           N == m.unheard \ {b}
<1>1. /\ Good(s) /\ s \in Fields /\ Len(s.chain) \in Nat /\ DOMAIN s.chain = 1..Len(s.chain)
      /\ s.b_exec \in Nat /\ s.proposer \in Ids
  BY ChainFacts DEF Inv, Good, Fields
<1>2. b \in s.unheard /\ s' = [m EXCEPT !.unheard = @ \ {b}]
  BY DEF ReceiveLate
<1>3. s.kind # "dummy"
  BY <1>1, <1>2 DEF Inv, DummyInv, Good, ChainInv
<1>4. Updated(s, w)
  BY <1>1, UpdateFacts
<1> HIDE DEF w
<1>5. /\ Good(w) /\ SamePast(s, w) /\ SameBeats(s, w) /\ w.b_exec >= s.b_exec /\ w.b_exec \in Nat
      /\ \/ SameTerm(s, w) /\ w.qc_waiting = s.qc_waiting
         \/ /\ ~w.rotating /\ ~w.locked /\ w.last_proposed = 0
            /\ s.prop_blk[s.proposer] \in (s.b_exec + 1)..w.b_exec
  BY <1>4 DEF Updated, Good, Fields
<1>6. /\ Good(m) /\ SameRole(w, m) /\ SameBeats(w, m) /\ m.chain = w.chain
      /\ m.heard = w.heard \cup {b}
      /\ SameTerm(w, m) /\ Decided(w, m) /\ m.qc_waiting = w.qc_waiting
  BY <1>5, RememberFacts DEF SamePast
<1> HIDE DEF m
<1>7. m \in Fields /\ N \in SUBSET Nat /\ s' = [m EXCEPT !.unheard = N]
  BY <1>2, <1>6 DEF Good, Fields
<1>8. N \subseteq m.unheard
  OBVIOUS
<1> HIDE DEF N
<1>9. s' \in Fields
  BY <1>7, ZenonT(60) DEF Fields
<1>10. /\ s'.unheard = N /\ s'.chain = m.chain /\ s'.heard = m.heard /\ s'.kind = m.kind
       /\ s'.certified = m.certified /\ s'.proposer = m.proposer /\ s'.prop_blk = m.prop_blk
       /\ s'.pm_qc_manual = m.pm_qc_manual /\ s'.hqc = m.hqc /\ s'.b_exec = m.b_exec
       /\ s'.qc_waiting = m.qc_waiting /\ SameBeats(m, s') /\ SameTerm(m, s')
  BY <1>7 DEF Fields, SameBeats, SameTerm
<1>11. Good(s')
  <2>1. ChainInv(s')
    BY <1>6, <1>8, <1>10 DEF Good, ChainInv, Own, SameBeats, SameTerm
  <2>2. PromiseInv(s') /\ TermInv(s')
    BY <1>6, <1>10 DEF Good, PromiseInv, TermInv, On, SameTerm
  <2> QED BY <1>9, <2>1, <2>2 DEF Good
<1>12. /\ s'.chain = s.chain /\ s'.kind = s.kind /\ s'.certified = s.certified
       /\ s'.proposer = s.proposer /\ s.heard \subseteq s'.heard /\ s'.b_exec = w.b_exec
       /\ s'.rotating = w.rotating /\ SameBeats(s, s')
       /\ \/ SameTerm(s, s') /\ s'.qc_waiting = s.qc_waiting
          \/ ~s'.rotating /\ ~s'.locked /\ s'.last_proposed = 0
  BY <1>5, <1>6, <1>10 DEF SamePast, SameRole, SameBeats, SameTerm, Decided
<1>13. Stay(s, s')
  <2>1. ASSUME s.rotating, ~s'.rotating
        PROVE  \E c \in (s.b_exec + 1)..s'.b_exec :
                 c \in s'.heard /\ c \in DOMAIN s'.chain /\ s'.chain[c].by = s'.proposer
    <3> DEFINE c == s.prop_blk[s.proposer]
    <3>1. c \in (s.b_exec + 1)..w.b_exec
      BY <1>5, <1>12, <2>1 DEF SameTerm
    <3>2. c # None
      BY <1>1, <3>1 DEF None
    <3>3. c \in s.heard /\ s.chain[c].by = s.proposer /\ c \in DOMAIN s.chain
      BY <1>1, <3>2 DEF Good, TermInv, ChainInv
    <3> HIDE DEF c
    <3> QED BY <1>12, <3>1, <3>3
  <2>2. Len(s'.chain) >= Len(s.chain)
    BY <1>1, <1>12
  <2> QED BY <1>5, <1>12, <2>1, <2>2 DEF Stay
<1> QED BY <1>3, <1>11, <1>12, <1>13, OthersBlockFacts

\* Impeachment and the second timeout rotate.
LEMMA RotateStep ==
  ASSUME Inv(s), Len(s.chain) <= MaxBlocks + 1, s.kind # "dummy", s' = rotate(s)
  PROVE  After(s, s')
BY RotateFacts DEF After

\* The first timeout makes the new proposer start its sequence of empty blocks.
LEMMA OnExpTimeoutStep ==
  ASSUME Inv(s), OnExpTimeout
  PROVE  After(s, s')
<1> DEFINE t == IF s.proposer = Self THEN do_new_consensus(s, 0, {}) ELSE s
<1>1. Room /\ s.kind # "dummy" /\ s' = [t EXCEPT !.timer = "prop"] /\ s \in Fields
  BY DEF OnExpTimeout, Inv, Good, DummyInv
<1>2. Len(s.chain) <= MaxBlocks + 1
  BY <1>1, RoomFacts
<1>3. Result(s, t)
  <2>1. CASE s.proposer = Self
    <3>1. Result(s, do_new_consensus(s, 0, {}))
      BY <1>1, <1>2, NewConsensusFacts DEF Inv
    <3> QED BY <2>1, <3>1
  <2>2. CASE s.proposer # Self
    BY <1>1, <2>2, StayRefl DEF Result
  <2> QED BY <2>1, <2>2
<1> HIDE DEF t
<1>4. t \in Fields /\ t.kind # "dummy"
  BY <1>1, <1>3 DEF Result, Inv, Good, Stay
<1>5. s' \in Fields
  BY <1>1, <1>4 DEF Fields
<1>6. SameCore(t, s')
  BY <1>1, <1>4 DEF Fields, SameCore, SamePast, SameRole, SameTerm, Decided
<1>7. Inv(s') /\ Stay(t, s') /\ s'.chain = t.chain
  BY <1>3, <1>4, <1>5, <1>6, SameCoreKeeps DEF Result, Inv
<1>8. Stay(s, s')
  BY <1>1, <1>3, <1>4, <1>5, <1>7, StayTrans DEF Result
<1>9. Len(s'.chain) <= MaxBlocks + 1
  <2>1. Len(t.chain) <= Len(s.chain) + 1 /\ Len(t.chain) \in Nat
    BY <1>3, <1>4, ChainFacts DEF Result
  <2> QED BY <1>1, <1>7, <2>1, RoomFacts, SizeAssumption
<1> QED BY <1>7, <1>8, <1>9 DEF After

\* The elected proposer proposes what waits for a decision.
LEMMA ElectedStep ==
  ASSUME Inv(s), Elected
  PROVE  After(s, s')
<1> DEFINE t == [s EXCEPT !.elected = @ - 1]
<1>1. Room /\ s.elected > 0 /\ s \in Fields /\ s.elected \in Nat
      /\ s' = IF t.decision_waiting = {} THEN t
              ELSE do_new_consensus(t, 0, t.decision_waiting)
  BY DEF Elected, Inv, Good, Fields
<1>2. s.kind # "dummy"
  BY <1>1 DEF Inv, DummyInv
<1>3. s.elected - 1 \in Nat
  BY <1>1
<1>4. t \in Fields
  BY <1>1, <1>3 DEF Fields
<1>5. SameCore(s, t)
  BY <1>1 DEF Fields, SameCore, SamePast, SameRole, SameTerm, Decided
<1> HIDE DEF t
<1>6. Inv(t) /\ Stay(s, t) /\ t.chain = s.chain /\ t.kind # "dummy"
  BY <1>2, <1>4, <1>5, SameCoreKeeps DEF Inv, Stay
<1>7. Len(t.chain) <= MaxBlocks + 1
  BY <1>1, <1>6, RoomFacts
<1>8. CASE s' = t
  BY <1>6, <1>7, <1>8 DEF After
<1>9. CASE s' = do_new_consensus(t, 0, t.decision_waiting)
  <2>1. t.decision_waiting \in SUBSET Cmds
    BY <1>4 DEF Fields
  <2>2. Result(t, s')
    BY <1>6, <1>7, <1>9, <2>1, NewConsensusFacts DEF Inv
  <2> QED BY <1>1, <1>4, <1>6, <2>2, ResultAfter
<1> QED BY <1>1, <1>8, <1>9

-----------------------------------------------------------------------------
\* IInv is Inv of the replica.
LEMMA IInvIsInv == IInv <=> Inv(s) /\ Len(s.chain) <= MaxBlocks + 1
BY DEF IInv, Inv, Good, LockInv, LockHasBeat, OwnBlocks, Waiting

\* Every step keeps the invariant and, but for rotations, the term.
LEMMA NextStep == ASSUME IInv, Next PROVE After(s, s')
<1>1. Inv(s) /\ Len(s.chain) <= MaxBlocks + 1
  BY IInvIsInv
<1>2. ASSUME NEW c \in Cmds, ExecCommand(c) PROVE After(s, s')
  BY <1>1, <1>2, ExecCommandStep
<1>3. ASSUME NEW b \in DOMAIN s.chain, QcFinish(b) PROVE After(s, s')
  BY <1>1, <1>3, QcFinishStep
<1>4. ASSUME NEW p \in Others, NEW cmds \in {{}, s.decision_waiting}, ReceiveProposal(p, cmds)
      PROVE  After(s, s')
  BY <1>1, <1>4, ReceiveProposalStep
<1>5. ASSUME NEW p \in Others, NEW cmds \in {{}, s.decision_waiting}, FetchBlk(p, cmds)
      PROVE  After(s, s')
  BY <1>1, <1>5, FetchBlkStep
<1>6. ASSUME NEW b \in DOMAIN s.chain, ReceiveLate(b) PROVE After(s, s')
  BY <1>1, <1>6, ReceiveLateStep
<1>7. CASE Impeach
  BY <1>1, <1>7, RotateStep DEF Impeach
<1>8. CASE OnExpTimeout
  BY <1>1, <1>8, OnExpTimeoutStep
<1>9. CASE PropTimeout
  <2>1. s.kind # "dummy"
    BY <1>1, <1>9 DEF PropTimeout, Inv, DummyInv
  <2> QED BY <1>1, <1>9, <2>1, RotateStep DEF PropTimeout
<1>10. CASE Elected
  BY <1>1, <1>10, ElectedStep
<1> QED BY <1>2, <1>3, <1>4, <1>5, <1>6, <1>7, <1>8, <1>9, <1>10 DEF Next

\* The inductive invariant holds: whatever the pacemaker, the callbacks, timers
\* and proposals in whatever order, promises wait for certificates that are yet to
\* come, the lock has its beat, and prop_blk has no block that was proposed or received
\* in an earlier term.
THEOREM PacemakerInvariance == Spec => []IInv
<1>1. Init => IInv
  BY InitStep, IInvIsInv
<1>2. IInv /\ [Next]_s => IInv'
  <2> SUFFICES ASSUME IInv, [Next]_s PROVE IInv'
    OBVIOUS
  <2>1. CASE Next
    <3>1. Inv(s') /\ Len(s'.chain) <= MaxBlocks + 1
      BY <2>1, NextStep DEF After
    <3> QED
      BY <3>1 DEF IInv, Inv, Good, LockInv, LockHasBeat, OwnBlocks, Waiting
  <2>2. CASE UNCHANGED s
    BY <2>2 DEF IInv, LockHasBeat, OwnBlocks, Waiting
  <2> QED BY <2>1, <2>2
<1> QED BY <1>1, <1>2, PTL DEF Spec

\* A proposer that holds the lock has a beat waiting for the certificate of its
\* last proposal, so the lock will be released.
THEOREM LockHasBeatHolds == Spec => []LockHasBeat
<1>1. IInv => LockHasBeat
  BY DEF IInv
<1> QED BY <1>1, PacemakerInvariance, PTL

\* The fixed proposer has at most one own block without a certificate, the last.
THEOREM QcBeforeBeatHolds == Spec => []QcBeforeBeat
<1>1. IInv => QcBeforeBeat
  <2> SUFFICES ASSUME IInv, s.kind = "dummy", NEW b \in OwnBlocks, NEW c \in OwnBlocks, b < c
               PROVE  b \in s.certified
    BY DEF QcBeforeBeat
  <2>1. DOMAIN s.chain = 1..Len(s.chain) /\ Len(s.chain) \in Nat
    BY ChainFacts DEF IInv
  <2>2. b \in 1..Len(s.chain) /\ c \in 1..Len(s.chain)
    BY <2>1 DEF OwnBlocks, Own
  <2>3. b < Len(s.chain)
    BY <2>1, <2>2
  <2> QED BY <2>1, <2>2, <2>3 DEF IInv, DummyInv
<1> QED BY <1>1, PacemakerInvariance, PTL

\* do_new_consensus drives at most one sequence of empty blocks.
THEOREM OneManualChainHolds == Spec => []OneManualChain
<1>1. IInv => OneManualChain
  <2> SUFFICES ASSUME IInv, NEW b \in OwnBlocks, NEW c \in OwnBlocks,
                      On(s, b, "manual") # {}, On(s, c, "manual") # {}
               PROVE  b = c
    BY DEF OneManualChain, Waiting
  <2>1. Len(s.chain) <= MaxBlocks + 2
    BY ChainFacts, SizeAssumption DEF IInv
  <2>2. b \in DOMAIN s.qc_waiting /\ c \in DOMAIN s.qc_waiting
    BY <2>1, DomainFacts DEF IInv, OwnBlocks, Own
  <2> QED BY <2>2 DEF IInv, PromiseInv
<1> QED BY <1>1, PacemakerInvariance, PTL

\* A rotation ends with the decision of a block of the new proposer, and one that this
\* replica has proposed or received since the rotation began.
THEOREM SettlesOnNewBlockHolds == Spec => SettlesOnNewBlock
<1> DEFINE Settles ==
      s.rotating /\ ~s'.rotating =>
        \E b \in (s.b_exec + 1)..s'.b_exec :
          b \in s'.heard /\ s'.chain[b].by = s'.proposer
<1>1. IInv /\ [Next]_s => [Settles]_s
  <2> SUFFICES ASSUME IInv, Next PROVE Settles
    OBVIOUS
  <2>1. Stay(s, s') \/ s'.rotating
    BY NextStep DEF After
  <2> QED BY <2>1 DEF Stay
<1> QED BY <1>1, PacemakerInvariance, PTL DEF Spec, SettlesOnNewBlock
=============================================================================
