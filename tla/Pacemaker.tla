----------------------------- MODULE Pacemaker -----------------------------
(***************************************************************************)
(* The pacemakers of one replica (liveness.h), with the commands that they *)
(* pace (hotstuff.cpp): PaceMakerDummyFixed, which is PMWaitQC, and        *)
(* PaceMakerRR, which is PMRoundRobinProposer.                             *)
(*                                                                         *)
(* They hang on promises.  async_qc_finish(b) hands out one promise per    *)
(* block, which waiters share: who rejects it rejects it for all of them.  *)
(* Callbacks run inside the handler that resolves their promise, so an     *)
(* action is the handler with all that it sets off, composed of operators  *)
(* on the record of the replica's fields.                                  *)
(*                                                                         *)
(* The blocks that this replica has delivered are one chain here (forks    *)
(* are HotStuffCore's matter): a block is its index, 0 is the genesis      *)
(* block.  Another replica's block may get into the chain when it is       *)
(* fetched, as an ancestor or for a vote, and its proposal arrive later,   *)
(* in another term of the pacemaker than the one in which it was made.     *)
(***************************************************************************)
EXTENDS Integers, Sequences, SequencesExt, FiniteSets, FiniteSetsExt

CONSTANTS
  NReplicas,  \* number of replicas, with ids from 0
  Self,       \* this one
  Kinds,      \* the pacemakers: "dummy" with Self as the fixed proposer, "rr"
  Cmds,       \* the commands, each sent once by its client
  BlkSize,    \* commands per block
  TwoStep,    \* HOTSTUFF_TWO_STEP
  MaxBlocks,  \* bound: no handler that may propose starts with more blocks
  MaxUnheard  \* bound: blocks whose proposal is still on its way

\* A lone replica would be a quorum by its own vote.
ASSUME SelfAssumption == NReplicas \in Nat \ {0, 1} /\ Self \in 0..(NReplicas - 1)
ASSUME SizeAssumption == BlkSize \in Nat \ {0} /\ MaxBlocks \in Nat /\ MaxUnheard \in Nat
ASSUME KindsAssumption == Kinds \subseteq {"dummy", "rr"} /\ TwoStep \in BOOLEAN

VARIABLE s    \* the fields of the replica, see Init

Others == (0..(NReplicas - 1)) \ {Self}

None == -1    \* a null block or promise

\* A promise of qc_waiting, with its callbacks in order: [beat |-> batch] or
\* [manual |-> x].  An absent one has no entry.
Absent   == [state |-> "absent", cbs |-> << >>]
Rejected == [state |-> "rejected", cbs |-> << >>]

\* proposer_schedule_next and stop_rotate leave the promise behind; the rest of
\* the initial state is that of the constructors.  "rr" starts with stop_rotate.
Initial(kind) ==
  [kind |-> kind,
   chain |-> << >>,           \* [by, cmds, qc_ref] of all delivered blocks
   unheard |-> {},            \* those whose proposal is still on its way
   certified |-> {0},         \* own blocks with a quorum in voted
   hqc |-> 0, b_exec |-> 0,
   decision_waiting |-> {}, cmd_pending_buffer |-> << >>,
   proposer |-> IF kind = "rr" THEN 0 ELSE Self,
   rotating |-> FALSE,
   timer |-> "none",          \* or "exp", "prop": what it will call
   prop_blk |-> [q \in 0..(NReplicas - 1) |-> None],
   reg_proposal |-> FALSE, reg_receive_proposal |-> FALSE, \* callbacks waiting
   pending_beats |-> << >>, last_proposed |-> 0, locked |-> FALSE,
   pm_qc_finish |-> None, pm_qc_manual |-> None, \* the blocks of the promises
   pm_wait_propose |-> TRUE,  \* is the callback on proposals waiting?
   qc_waiting |-> [b \in 1..(MaxBlocks + 2) |-> Absent],
   elected |-> IF kind = "rr" /\ Self = 0 THEN 1 ELSE 0, \* calls in tcall
   sent |-> {},               \* commands received so far
   beats |-> {},              \* history: commands handed to beat() this term
   heard |-> {}]              \* history: blocks proposed or received this term

Init == \E kind \in Kinds : s = Initial(kind)

-----------------------------------------------------------------------------
(* Promises of quorum certificates. *)

\* promise_t::reject of the promise for b (only a pending one changes).
Reject(t, b) ==
  IF b # None /\ b # 0 /\ t.qc_waiting[b].state = "pending"
  THEN [t EXCEPT !.qc_waiting[b] = Rejected] ELSE t

\* async_qc_finish(b).then(cb) for b without a certificate.
OnQc(t, b, cb) ==
  IF t.qc_waiting[b].state = "rejected" THEN t
  ELSE [t EXCEPT !.qc_waiting[b] = [state |-> "pending", cbs |-> Append(@.cbs, cb)]]

-----------------------------------------------------------------------------
(* The functions of the pacemakers. *)

\* stop_rotate, called at the decision of the block that ends the rotation.
stop_rotate(t) ==
  [Reject(Reject(t, t.pm_qc_finish), t.pm_qc_manual) EXCEPT
     !.timer = "none", !.rotating = FALSE, !.locked = FALSE,
     !.last_proposed = 0, !.pm_wait_propose = TRUE,
     !.elected = IF t.proposer = Self THEN @ + 1 ELSE @,
     !.beats = {}]

\* on_consensus of each block of a run; the proposer has one block in prop_blk.
on_consensus(t, run) ==
  IF t.kind = "dummy" THEN t
  ELSE IF t.prop_blk[t.proposer] \in run THEN stop_rotate(t)
  ELSE [t EXCEPT !.timer = "none"]

\* (Changed: the blocks of earlier terms stay in prop_blk.)
rotate_KeepsBlocks(t) ==
  [Reject(Reject(t, t.pm_qc_finish), t.pm_qc_manual) EXCEPT
     !.reg_proposal = TRUE, !.reg_receive_proposal = TRUE,
     !.rotating = TRUE,
     !.proposer = (@ + 1) % NReplicas,
     !.pm_wait_propose = FALSE,
     !.timer = "exp",
     !.beats = {}, !.heard = {}]

rotate(t) ==
  [Reject(Reject(t, t.pm_qc_finish), t.pm_qc_manual) EXCEPT
     !.reg_proposal = TRUE, !.reg_receive_proposal = TRUE,
     !.prop_blk = [q \in DOMAIN @ |-> None],
     !.rotating = TRUE,
     !.proposer = (@ + 1) % NReplicas,
     !.pm_wait_propose = FALSE,
     !.timer = "exp",
     !.beats = {}, !.heard = {}]

\* (Changed: the lock is not looked at.)
schedule_next_NoLock(t) ==
  IF t.pending_beats = << >> THEN t
  ELSE [OnQc(Reject(t, t.pm_qc_finish), t.last_proposed, [beat |-> Head(t.pending_beats)])
          EXCEPT !.pending_beats = Tail(@),
                 !.pm_qc_finish = t.last_proposed,
                 !.locked = TRUE]

\* (Changed: the promise is rejected after it is replaced.)
schedule_next_RejectsLate(t) ==
  LET u == OnQc(t, t.last_proposed, [beat |-> Head(t.pending_beats)])
  IN  IF t.pending_beats = << >> \/ t.locked THEN t
      ELSE [Reject(u, t.last_proposed)
              EXCEPT !.pending_beats = Tail(@),
                     !.pm_qc_finish = t.last_proposed,
                     !.locked = TRUE]

\* schedule_next when last_proposed has no certificate yet: the first beat waits
\* for it.
schedule_next(t) ==
  IF t.pending_beats = << >> \/ t.locked THEN t
  ELSE [OnQc(Reject(t, t.pm_qc_finish), t.last_proposed, [beat |-> Head(t.pending_beats)])
          EXCEPT !.pending_beats = Tail(@),
                 !.pm_qc_finish = t.last_proposed,
                 !.locked = TRUE]

-----------------------------------------------------------------------------
(* The functions of HotStuffCore and HotStuffBase that call them. *)

QcRef(t, b) == IF b = 0 THEN 0 ELSE t.chain[b].qc_ref

\* do_consensus and do_decide of the blocks up to blk.
Commit(t, blk) ==
  LET run == (t.b_exec + 1)..blk
  IN  on_consensus([t EXCEPT !.b_exec = blk,
                             !.decision_waiting = @ \ UNION {t.chain[b].cmds : b \in run}],
                   run)

\* update(n) on one chain: a block is decided if it is not above b_exec.
update(t, n) ==
  LET blk2  == QcRef(t, n)
      u     == [t EXCEPT !.hqc = Max({@, blk2})]
      blk1  == IF TwoStep THEN blk2 ELSE QcRef(t, blk2)
      blk   == QcRef(t, blk1)
      direct == blk1 = blk + 1 /\ (TwoStep \/ blk2 = blk1 + 1)
  IN  IF blk2 <= t.b_exec THEN t
      ELSE IF blk1 <= t.b_exec \/ blk <= t.b_exec \/ ~direct THEN u
      ELSE Commit(u, blk)

\* The callbacks of a proposal that remember the first block of its proposer.
Remember(t, n) ==
  LET by == t.chain[n].by
      registered == t.reg_receive_proposal \/ (by = Self /\ t.reg_proposal)
  IN  [t EXCEPT
         !.prop_blk[by] = IF @ = None /\ registered THEN n ELSE @,
         !.heard = @ \cup {n},
         !.reg_receive_proposal = @ /\ t.rotating,
         !.reg_proposal = IF by = Self THEN @ /\ t.rotating ELSE @]

\* on_deliver_blk
Deliver(t, by, cmds, qc_ref) ==
  [t EXCEPT !.chain = Append(@, [by |-> by, cmds |-> cmds, qc_ref |-> qc_ref])]

Extend(t, by, cmds, qc_ref) == update(Deliver(t, by, cmds, qc_ref), Len(t.chain) + 1)

\* on_propose: the block, update, and the callbacks on proposals.
on_propose(t, cmds) ==
  LET n == Len(t.chain) + 1
      u == Remember(Extend(t, Self, cmds, t.hqc), n)
  IN  IF u.pm_wait_propose
      THEN schedule_next([u EXCEPT !.last_proposed = n, !.locked = FALSE])
      ELSE u

\* (Changed: an earlier sequence of empty blocks goes on.)
do_new_consensus_Twice(t, x, cmds) ==
  LET u == on_propose(t, cmds)
      n == Len(u.chain)
  IN  [OnQc(u, n, [manual |-> x]) EXCEPT !.pm_qc_manual = n]

\* do_new_consensus(x, cmds): propose, and go on when the block is certified.
do_new_consensus(t, x, cmds) ==
  LET u == on_propose(t, cmds)
      n == Len(u.chain)
  IN  [OnQc(Reject(u, u.pm_qc_manual), n, [manual |-> x]) EXCEPT !.pm_qc_manual = n]

\* (Changed: the certificate of last_proposed is not waited for.)
beat_NoQc(t, batch) ==
  LET u == [t EXCEPT !.pending_beats = Append(@, batch), !.beats = @ \cup batch]
      v == [Reject(u, u.pm_qc_finish) EXCEPT !.pending_beats = Tail(@), !.pm_qc_finish = None]
  IN  IF t.rotating THEN on_propose(t, batch)
      ELSE IF u.locked THEN u
      ELSE IF t.pending_beats = << >> THEN on_propose([v EXCEPT !.locked = TRUE], batch)
      ELSE [on_propose(v, Head(u.pending_beats)) EXCEPT !.locked = TRUE]

\* beat().then(propose the batch).  The first waiting beat is resolved at once if
\* last_proposed is certified; if that is an older one, it proposes inside
\* schedule_next.
beat(t, batch) ==
  LET u == [t EXCEPT !.pending_beats = Append(@, batch), !.beats = @ \cup batch]
      v == [Reject(u, u.pm_qc_finish) EXCEPT !.pending_beats = Tail(@), !.pm_qc_finish = None]
  IN  IF t.rotating THEN on_propose(t, batch)
      ELSE IF u.locked \/ u.last_proposed \notin u.certified THEN schedule_next(u)
      ELSE IF t.pending_beats = << >> THEN on_propose([v EXCEPT !.locked = TRUE], batch)
      ELSE [on_propose(v, Head(u.pending_beats)) EXCEPT !.locked = TRUE]

\* A callback of on_qc_finish; by then the promise is resolved.
Resume(t, cb) ==
  IF "beat" \in DOMAIN cb
  THEN IF t.proposer = Self THEN on_propose(t, cb.beat) ELSE t
  ELSE IF cb.manual >= (IF TwoStep THEN 2 ELSE 3) THEN t
       ELSE do_new_consensus(t, cb.manual + 1, {})

-----------------------------------------------------------------------------
(* The steps: one per event of the replica's event loop. *)

Room == Len(s.chain) < MaxBlocks

\* cmd_pending's handler takes one command (the client's callback aside).
ExecCommand(c) ==
  /\ Room
  /\ c \notin s.sent
  /\ LET t == [s EXCEPT !.sent = @ \cup {c}, !.decision_waiting = @ \cup {c}]
         buffer == Append(t.cmd_pending_buffer, c)
     IN  s' = IF t.proposer # Self THEN t
              ELSE IF Len(buffer) < BlkSize THEN [t EXCEPT !.cmd_pending_buffer = buffer]
              ELSE beat([t EXCEPT !.cmd_pending_buffer = << >>], ToSet(buffer))

\* on_receive_vote completes the quorum of an own block: on_qc_finish with the
\* callbacks in order.  There are at most two (PromiseInv).
QcFinish(b) ==
  /\ Room
  /\ s.chain[b].by = Self /\ b \notin s.certified
  /\ LET cbs == s.qc_waiting[b].cbs
         t == [s EXCEPT !.certified = @ \cup {b}, !.hqc = Max({@, b}),
                        !.qc_waiting[b] = Absent]
         u == IF Len(cbs) > 0 THEN Resume(t, cbs[1]) ELSE t
     IN  s' = IF Len(cbs) > 1 THEN Resume(u, cbs[2]) ELSE u

\* The certificate of a block of another replica p is the highest one that the chain
\* carries, or one for an own block of p.
Certificates(p) ==
  {qc \in {0} \cup {s.chain[i].qc_ref : i \in DOMAIN s.chain}
            \cup {i \in DOMAIN s.chain : s.chain[i].by = p} :
     \A i \in DOMAIN s.chain : s.chain[i].qc_ref <= qc}

\* on_receive_proposal of another replica's block, which is delivered for it.
ReceiveProposal(p, cmds) ==
  /\ Room
  /\ s.kind = "rr"
  /\ \E qc_ref \in Certificates(p) :
       s' = Remember(Extend(s, p, cmds, qc_ref), Len(s.chain) + 1)

\* The block is delivered for something else: a block on top of it or a vote.
FetchBlk(p, cmds) ==
  /\ Room
  /\ s.kind = "rr"
  /\ Cardinality(s.unheard) < MaxUnheard
  /\ \E qc_ref \in Certificates(p) :
       s' = [Deliver(s, p, cmds, qc_ref) EXCEPT !.unheard = @ \cup {Len(s.chain) + 1}]

\* on_receive_proposal of a block that is delivered already.
ReceiveLate(b) ==
  /\ b \in s.unheard
  /\ s' = [Remember(update(s, b), b) EXCEPT !.unheard = @ \ {b}]

\* The application's impeachment timer.
Impeach ==
  /\ s.kind = "rr"
  /\ s.decision_waiting # {}
  /\ ~s.rotating
  /\ s' = rotate(s)

OnExpTimeout ==
  /\ Room
  /\ s.timer = "exp"
  /\ s' = [(IF s.proposer = Self THEN do_new_consensus(s, 0, {}) ELSE s)
             EXCEPT !.timer = "prop"]

PropTimeout ==
  /\ s.timer = "prop"
  /\ s' = rotate(s)

\* The call that stop_rotate of an elected proposer leaves to the event loop.
Elected ==
  /\ Room
  /\ s.elected > 0
  /\ LET t == [s EXCEPT !.elected = @ - 1]
     IN  s' = IF t.decision_waiting = {} THEN t
              ELSE do_new_consensus(t, 0, t.decision_waiting)

Next ==
  \/ \E c \in Cmds : ExecCommand(c)
  \/ \E b \in DOMAIN s.chain : QcFinish(b)
  \/ \E p \in Others, cmds \in {{}, s.decision_waiting} : ReceiveProposal(p, cmds)
  \/ \E p \in Others, cmds \in {{}, s.decision_waiting} : FetchBlk(p, cmds)
  \/ \E b \in DOMAIN s.chain : ReceiveLate(b)
  \/ Impeach
  \/ OnExpTimeout
  \/ PropTimeout
  \/ Elected

Spec == Init /\ [][Next]_s

\* Votes arrive in the end: with a fixed proposer nothing else has to happen.
\* (Nothing is assumed, or claimed, of votes under "rr".)
FairSpec ==
  Spec /\ WF_s(s.kind = "dummy" /\ \E b \in DOMAIN s.chain : QcFinish(b))

-----------------------------------------------------------------------------
(* Correctness. *)

Own(t) == {b \in DOMAIN t.chain : t.chain[b].by = Self}

OwnBlocks == Own(s)

\* The callbacks of a kind that wait for the certificate of b.
On(t, b, kind) == {i \in DOMAIN t.qc_waiting[b].cbs : kind \in DOMAIN t.qc_waiting[b].cbs[i]}

Waiting(b, kind) == On(s, b, kind)

\* The lock is released by the proposal of a beat, so while a proposer holds it
\* outside of rotations a beat must be waiting for the certificate of
\* last_proposed, which must be an own block without one, on a promise that nobody
\* has rejected.  Otherwise no beat is ever resolved again.
LockHasBeat ==
  ~s.rotating /\ s.locked /\ s.proposer = Self =>
    s.last_proposed \in OwnBlocks \ s.certified /\ Waiting(s.last_proposed, "beat") # {}

\* "beat only when the last block proposed by itself gets its QC" (liveness.h:132):
\* with PMWaitQC all own blocks but the last one are certified.
QcBeforeBeat ==
  s.kind = "dummy" => \A b, c \in OwnBlocks : b < c => b \in s.certified

\* At most one sequence of empty blocks is driven by do_new_consensus, however
\* often the replica is elected.
OneManualChain ==
  \A b, c \in OwnBlocks : Waiting(b, "manual") # {} /\ Waiting(c, "manual") # {} => b = c

\* The beats that wait for the certificate of last_proposed.
Waits(t) ==
  IF t.last_proposed = 0 THEN << >>
  ELSE LET cbs == t.qc_waiting[t.last_proposed].cbs IN [i \in DOMAIN cbs |-> cbs[i].beat]

\* The way of commands through a fixed proposer, by batches: those in blocks,
\* those in beats, the buffer.
Batches(t) == [b \in DOMAIN t.chain |-> t.chain[b].cmds]

Queue(t) == Batches(t) \o Waits(t) \o t.pending_beats

Line(t) == Append(Queue(t), ToSet(t.cmd_pending_buffer))

\* Promises that are rejected, replaced or resolved twice lose no beat of a fixed
\* proposer and propose none twice: every command is in the line, once.
EachOnce ==
  s.kind = "dummy" =>
    /\ s.sent = UNION ToSet(Line(s))
    /\ \A i, j \in DOMAIN Line(s) : Line(s)[i] \cap Line(s)[j] # {} => i = j

\* No batch overtakes another one: the line only moves on.
InOrder == [][s.kind = "dummy" => IsPrefix(Queue(s), Line(s'))]_s

\* A rotation ends with the decision of a block of the replica that is the proposer
\* then, and one that this replica has proposed or received since the rotation began:
\* neither a block that it knows of an earlier term of that proposer, nor one of which
\* it has only been told by the blocks on top of it.  (When the block was made is not
\* for this replica to know: a proposal of an earlier term may be late.)
SettlesOnNewBlock ==
  [][s.rotating /\ ~s'.rotating =>
       \E b \in (s.b_exec + 1)..s'.b_exec : b \in s'.heard /\ s'.chain[b].by = s'.proposer]_s

\* With a fixed proposer every command gets into a block.
EventuallyProposed ==
  \A c \in Cmds :
    (s.kind = "dummy" /\ c \in s.sent) ~> (\E b \in OwnBlocks : c \in s.chain[b].cmds)

(* The inductive invariant, of the record t of a replica. *)

Ids == 0..(NReplicas - 1)

Callback == [beat : SUBSET Cmds] \cup [manual : Nat]

Fields ==
  [kind : Kinds, chain : Seq([by : Ids, cmds : SUBSET Cmds, qc_ref : Nat]),
   certified : SUBSET Nat, hqc : Nat, b_exec : Nat,
   decision_waiting : SUBSET Cmds, cmd_pending_buffer : Seq(Cmds),
   proposer : Ids, rotating : BOOLEAN, timer : {"none", "exp", "prop"},
   prop_blk : [Ids -> Nat \cup {None}],
   reg_proposal : BOOLEAN, reg_receive_proposal : BOOLEAN,
   pending_beats : Seq(SUBSET Cmds), last_proposed : Nat, locked : BOOLEAN,
   pm_qc_finish : Nat \cup {None}, pm_qc_manual : Nat \cup {None},
   pm_wait_propose : BOOLEAN,
   qc_waiting : [1..(MaxBlocks + 2) ->
                   [state : {"absent", "pending", "rejected"}, cbs : Seq(Callback)]],
   elected : Nat, sent : SUBSET Cmds, beats : SUBSET Cmds,
   unheard : SUBSET Nat, heard : SUBSET Nat]

\* What refers to a block refers to one that exists, and certificates refer to
\* lower blocks.
ChainInv(t) ==
  /\ \A b \in {t.hqc, t.b_exec, t.last_proposed, t.pm_qc_finish, t.pm_qc_manual} :
       b <= Len(t.chain)
  /\ \A b \in DOMAIN t.chain : t.chain[b].qc_ref < b
  /\ t.last_proposed \in {0} \cup Own(t)
  /\ 0 \in t.certified /\ t.certified \subseteq {0} \cup Own(t)
  /\ t.heard \subseteq DOMAIN t.chain /\ t.unheard \subseteq DOMAIN t.chain \ Own(t)

\* A promise waits for a certificate that is yet to come.  It has at most one
\* callback of each kind, and that of do_new_consensus only if pm_qc_manual is it.
PromiseInv(t) ==
  \A b \in DOMAIN t.qc_waiting :
    /\ b > Len(t.chain) \/ b \in t.certified => t.qc_waiting[b] = Absent
    /\ t.qc_waiting[b].state # "pending" => t.qc_waiting[b].cbs = << >>
    /\ Len(t.qc_waiting[b].cbs) <= 2
    /\ \A kind \in {"beat", "manual"} :
         \A i, j \in On(t, b, kind) : i = j
    /\ On(t, b, "manual") # {} => b = t.pm_qc_manual

\* While a replica rotates the lock is not used, and prop_blk has blocks only that were
\* proposed or received since the rotation, each of its proposer.
TermInv(t) ==
  /\ (t.pm_wait_propose <=> ~t.rotating)
  /\ \A q \in Ids : t.prop_blk[q] # None =>
       t.prop_blk[q] \in t.heard /\ t.chain[t.prop_blk[q]].by = q

\* Who does not hold the lock may take it: nobody waits for the certificate of
\* last_proposed with a beat, and taking the lock does not reject that promise.
FreeInv(t) ==
  ~t.rotating /\ ~t.locked /\ t.last_proposed # 0 =>
    /\ t.qc_waiting[t.last_proposed].state # "rejected"
    /\ On(t, t.last_proposed, "beat") = {}
    /\ t.pm_qc_finish # t.last_proposed

\* A fixed proposer proposes alone, one block after the other.
DummyInv(t) ==
  t.kind = "dummy" =>
    /\ ~t.rotating /\ t.proposer = Self /\ t.elected = 0 /\ t.timer = "none"
    /\ Own(t) = DOMAIN t.chain
    /\ t.last_proposed = Len(t.chain)
    /\ \A b \in DOMAIN t.chain : b < Len(t.chain) => b \in t.certified
    /\ t.pm_qc_manual = None

IInv ==
  /\ s \in Fields
  /\ Len(s.chain) <= MaxBlocks + 1
  /\ ChainInv(s) /\ PromiseInv(s) /\ TermInv(s) /\ FreeInv(s) /\ DummyInv(s)
  /\ LockHasBeat

\* "Get a promise resolved when the pace maker thinks it is a *good* time to issue
\* new commands" (liveness.h:38): the promise that beat() returned to the proposer
\* stays alive, pending or with a block, until it is proposed.
BeatKept ==
  ~s.rotating =>
    \A c \in s.beats :
      \/ \E i \in DOMAIN s.pending_beats : c \in s.pending_beats[i]
      \/ \E b \in OwnBlocks :
           \/ c \in s.chain[b].cmds
           \/ \E i \in Waiting(b, "beat") : c \in s.qc_waiting[b].cbs[i].beat

\* "Impeach the current proposer" (liveness.h:52): impeach() does nothing while
\* rotating, so a rotating replica needs a timer to give up on the new proposer.
RotationTimed == s.rotating => s.timer # "none"
=============================================================================
