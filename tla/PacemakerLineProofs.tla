------------------------ MODULE PacemakerLineProofs ------------------------
(***************************************************************************)
(* No command of a fixed proposer is lost, proposed twice or overtaken:    *)
(* EachOnce and InOrder of Pacemaker, for every number of commands, batch  *)
(* size and bound on the chain.  The argument follows the line of batches  *)
(* through the functions that move them.                                   *)
(***************************************************************************)
EXTENDS PacemakerProofs, SequenceTheorems

\* Functions on 1..n are sequences.
LEMMA FunctionIsSeq ==
  ASSUME NEW S, NEW n \in Nat, NEW f \in [1..n -> S]
  PROVE  f \in Seq(S) /\ Len(f) = n /\ DOMAIN f = 1..n
<1>1. f \in Seq(S)
  BY SeqDef
<1>2. DOMAIN f = 1..n
  OBVIOUS
<1>3. Len(f) \in Nat /\ DOMAIN f = 1..Len(f)
  BY <1>1
<1>4. Len(f) = n
  BY <1>2, <1>3
<1> QED BY <1>1, <1>2, <1>4

\* The first of the queue moves on to its end of the blocks.
LEMMA HeadMoves ==
  ASSUME NEW S, NEW p \in Seq(S), NEW q \in Seq(S), q # << >>
  PROVE  p \o <<Head(q)>> \o Tail(q) = p \o q
<1>1. Head(q) \in S /\ Tail(q) \in Seq(S) /\ <<Head(q)>> \in Seq(S)
  BY HeadTailProperties
<1>2. <<Head(q)>> \o Tail(q) = q
  BY HeadTailProperties, <1>1
<1> QED BY <1>1, <1>2, ConcatAssociative

LEMMA AppendConcat ==
  ASSUME NEW S, NEW p \in Seq(S), NEW q \in Seq(S), NEW x \in S
  PROVE  /\ Append(p, x) = p \o <<x>>
         /\ p \o Append(q, x) = Append(p \o q, x)
         /\ p \o << >> = p
         /\ p \o q \in Seq(S)
<1>1. Append(p, x) = p \o <<x>> /\ Append(q, x) = q \o <<x>>
  BY AppendIsConcat
<1>2. p \o q \in Seq(S) /\ <<x>> \in Seq(S)
  BY ConcatProperties
<1>3. p \o q \o <<x>> = Append(p \o q, x)
  BY <1>2, AppendIsConcat
<1>4. p \o q \o <<x>> = p \o (q \o <<x>>)
  BY <1>2, ConcatAssociative
<1>5. p \o << >> = p
  BY ConcatEmptySeq
<1> QED BY <1>1, <1>2, <1>3, <1>4, <1>5

-----------------------------------------------------------------------------
\* A fixed proposer within a handler.
Fixed(t) ==
  /\ Good(t) /\ t.kind = "dummy" /\ t.pm_qc_manual = None
  /\ Len(t.chain) <= MaxBlocks + 2

\* The types of the parts of the line.
LEMMA QueueFacts ==
  ASSUME NEW t, t \in Fields
  PROVE  /\ Batches(t) \in Seq(SUBSET Cmds) /\ t.pending_beats \in Seq(SUBSET Cmds)
         /\ Len(Batches(t)) = Len(t.chain)
<1>1. /\ t.pending_beats \in Seq(SUBSET Cmds)
      /\ Len(t.chain) \in Nat /\ DOMAIN t.chain = 1..Len(t.chain)
      /\ \A b \in 1..Len(t.chain) : t.chain[b].cmds \in SUBSET Cmds
  BY ChainFacts DEF Fields
<1>2. Batches(t) \in [1..Len(t.chain) -> SUBSET Cmds]
  BY <1>1 DEF Batches
<1> QED BY <1>1, <1>2, FunctionIsSeq

\* At most one beat waits for the last proposal, and nothing else does.
LEMMA WaitsFacts ==
  ASSUME NEW t, Fixed(t)
  PROVE  /\ Waits(t) \in Seq(SUBSET Cmds)
         /\ t.last_proposed = 0 => Waits(t) = << >>
         /\ t.last_proposed # 0 =>
              LET cbs == t.qc_waiting[t.last_proposed].cbs IN
              /\ t.last_proposed \in DOMAIN t.qc_waiting
              /\ cbs = << >> => Waits(t) = << >>
              /\ cbs # << >> => /\ cbs[1].beat \in SUBSET Cmds /\ Len(cbs) = 1
                                /\ "beat" \in DOMAIN cbs[1]
                                /\ Waits(t) = <<cbs[1].beat>>
<1>1. CASE t.last_proposed = 0
  BY <1>1 DEF Waits
<1>2. CASE t.last_proposed # 0
  <2> DEFINE b == t.last_proposed
             cbs == t.qc_waiting[b].cbs
  <2>1. t \in Fields /\ b \in DOMAIN t.chain
    BY <1>2 DEF Fixed, Good, ChainInv, Own
  <2>2. b \in DOMAIN t.qc_waiting /\ b \in Nat
    BY <2>1, DomainFacts DEF Fixed
  <2>3. cbs \in Seq(Callback) /\ Len(cbs) <= 2
    BY <2>1, <2>2 DEF Fields, Fixed, Good, PromiseInv
  <2>4. Waits(t) = [i \in DOMAIN cbs |-> cbs[i].beat]
    BY <1>2 DEF Waits
  <2>5. On(t, b, "manual") = {} /\ \A i, j \in On(t, b, "beat") : i = j
    <3>1. b # None
      BY <2>2 DEF None
    <3> QED BY <2>2, <3>1 DEF Fixed, Good, PromiseInv
  <2>6. \A i \in DOMAIN cbs : "manual" \notin DOMAIN cbs[i]
    BY <2>5 DEF On
  <2>7. \A i, j \in DOMAIN cbs : "beat" \in DOMAIN cbs[i] /\ "beat" \in DOMAIN cbs[j] => i = j
    BY <2>5 DEF On
  <2> HIDE DEF cbs, b
  <2>8. Len(cbs) \in Nat /\ DOMAIN cbs = 1..Len(cbs) /\ \A i \in 1..Len(cbs) : cbs[i] \in Callback
    BY <2>3
  <2>9. \A i \in 1..Len(cbs) : "beat" \in DOMAIN cbs[i] /\ cbs[i].beat \in SUBSET Cmds
    BY <2>6, <2>8 DEF Callback
  <2>10. Len(cbs) <= 1
    <3>1. ~(1 \in 1..Len(cbs) /\ 2 \in 1..Len(cbs))
      BY <2>7, <2>8, <2>9
    <3> QED BY <2>3, <2>8, <3>1
  <2>11. CASE cbs = << >>
    <3>1. Waits(t) = << >>
      BY <2>4, <2>11
    <3> QED BY <1>2, <2>2, <2>11, <3>1 DEF cbs, b
  <2>12. CASE cbs # << >>
    <3>1. Len(cbs) = 1
      BY <2>3, <2>8, <2>10, <2>12
    <3>2. Waits(t) = <<cbs[1].beat>>
      BY <2>4, <2>8, <3>1
    <3>3. cbs[1].beat \in SUBSET Cmds /\ "beat" \in DOMAIN cbs[1]
      BY <2>9, <3>1
    <3>4. Waits(t) \in Seq(SUBSET Cmds)
      BY <3>2, <3>3
    <3> QED BY <1>2, <2>2, <2>12, <3>1, <3>2, <3>3, <3>4 DEF cbs, b
  <2> QED BY <2>11, <2>12
<1> QED BY <1>1, <1>2

-----------------------------------------------------------------------------
\* schedule_next moves a batch from the queue to the promise, no further.
LEMMA ScheduleLine ==
  ASSUME NEW t, Fixed(t), FreeInv(t), LockInv(t), ~t.rotating,
         t.locked \/ t.last_proposed \notin t.certified
  PROVE  LET u == schedule_next(t) IN Queue(u) = Queue(t) /\ SameBuffer(t, u)
<1> DEFINE u == schedule_next(t)
           b == t.last_proposed
           h == Head(t.pending_beats)
<1>1. Scheduled(t, u) /\ Queued(t, u)
  BY ScheduleFacts DEF Fixed
<1> HIDE DEF u
<1>2. SameBuffer(t, u)
  BY <1>1 DEF Queued
<1>3. CASE u = t
  BY <1>2, <1>3 DEF u
<1>4. CASE u # t
  <2>1. /\ t.pending_beats # << >> /\ ~t.locked
        /\ u.pending_beats = Tail(t.pending_beats)
        /\ u.qc_waiting[b].cbs = Append(t.qc_waiting[b].cbs, [beat |-> h])
    BY <1>1, <1>4 DEF Queued
  <2>2. Good(u) /\ SamePast(t, u) /\ u.last_proposed = b
    BY <1>1 DEF Scheduled
  <2>3. Fixed(u) /\ Batches(u) = Batches(t)
    BY <2>2 DEF Fixed, SamePast, SameRole, Batches
  <2>4. b # 0
    BY <2>1 DEF Fixed, Good, ChainInv
  <2>5. t.qc_waiting[b].cbs = << >> /\ Waits(t) = << >>
    <3> DEFINE cbs == t.qc_waiting[b].cbs
    <3>1. On(t, b, "beat") = {}
      BY <2>1, <2>4 DEF FreeInv
    <3>2. b \in DOMAIN t.qc_waiting
          /\ (cbs = << >> => Waits(t) = << >>)
          /\ (cbs # << >> => Len(cbs) = 1 /\ "beat" \in DOMAIN cbs[1])
      BY <2>4, WaitsFacts
    <3>3. cbs \in Seq(Callback)
      BY <3>2 DEF Fixed, Good, Fields
    <3>4. cbs # << >> => 1 \in DOMAIN cbs
      BY <3>2, <3>3
    <3>5. cbs = << >>
      BY <3>1, <3>2, <3>4 DEF On
    <3> QED BY <3>2, <3>5
  <2>6. Waits(u) = <<h>>
    <3> DEFINE cbs == u.qc_waiting[b].cbs
    <3>1. cbs = <<[beat |-> h]>>
      BY <2>1, <2>5
    <3>2. cbs # << >> => Waits(u) = <<cbs[1].beat>>
      BY <2>2, <2>3, <2>4, WaitsFacts
    <3> QED BY <3>1, <3>2
  <2>7. Batches(t) \in Seq(SUBSET Cmds) /\ t.pending_beats \in Seq(SUBSET Cmds)
    BY QueueFacts DEF Fixed, Good
  <2>8. Queue(t) = Batches(t) \o t.pending_beats
    BY <2>5, <2>7, ConcatEmptySeq DEF Queue
  <2>9. Queue(u) = Batches(t) \o <<h>> \o Tail(t.pending_beats)
    BY <2>1, <2>3, <2>6, SMTT(40) DEF Queue
  <2>10. Queue(u) = Queue(t)
    BY <2>1, <2>7, <2>8, <2>9, HeadMoves
  <2> QED BY <1>2, <2>10 DEF u
<1> QED BY <1>3, <1>4

\* A batch that is proposed joins the blocks, before those that wait.
LEMMA ProposeLine ==
  ASSUME NEW t, Fixed(t), Ready(t), NEW cmds \in SUBSET Cmds, Len(t.chain) <= MaxBlocks + 1
  PROVE  LET u == on_propose(t, cmds) IN
         Queue(u) = Append(Batches(t), cmds) \o t.pending_beats /\ SameBuffer(t, u)
<1> DEFINE u == on_propose(t, cmds)
           n == Len(t.chain) + 1
           h == Head(t.pending_beats)
<1>1. ~t.rotating
  BY DEF Ready, DummyInv, Fixed
<1>2. Proposed(t, u) /\ Moved(t, cmds, u)
  BY <1>1, ProposeFacts DEF Fixed
<1>3. /\ t \in Fields /\ Len(t.chain) \in Nat /\ DOMAIN t.chain = 1..Len(t.chain)
      /\ n <= MaxBlocks + 2 /\ n # 0
  BY ChainFacts, SizeAssumption DEF Fixed, Good
<1> HIDE DEF u
<1>4. /\ Good(u) /\ DummyInv(u) /\ Stay(t, u) /\ Len(u.chain) = n
      /\ u.chain[n].cmds = cmds /\ SameBuffer(t, u)
  BY <1>2 DEF Proposed, Moved
<1>5. u.kind = "dummy" /\ u.last_proposed = n /\ u.pm_qc_manual = None
  BY <1>4 DEF Stay, Fixed, DummyInv
<1>6. Fixed(u)
  BY <1>3, <1>4, <1>5 DEF Fixed
<1>7. Batches(u) = Append(Batches(t), cmds)
  <2>1. /\ DOMAIN u.chain = 1..n
        /\ \A b \in 1..Len(t.chain) : u.chain[b] = t.chain[b]
    BY <1>3, <1>4, ChainFacts DEF Good, Stay
  <2>2. /\ Batches(u) \in Seq(SUBSET Cmds) /\ Len(Batches(u)) = n
        /\ Batches(t) \in Seq(SUBSET Cmds) /\ Len(Batches(t)) = Len(t.chain)
    BY <1>3, <1>4, QueueFacts DEF Good
  <2>3. \A b \in 1..n : Batches(u)[b] = u.chain[b].cmds
    BY <2>1 DEF Batches
  <2>4. \A b \in 1..Len(t.chain) : Batches(t)[b] = t.chain[b].cmds
    BY <1>3 DEF Batches
  <2> DEFINE A == Append(Batches(t), cmds)
  <2>5. /\ A \in Seq(SUBSET Cmds) /\ Len(A) = n /\ A[n] = cmds
        /\ \A b \in 1..Len(t.chain) : A[b] = Batches(t)[b]
    BY <2>2
  <2> HIDE DEF A
  <2>6. \A b \in 1..n : b = n \/ b \in 1..Len(t.chain)
    BY <1>3
  <2>7. \A b \in 1..n : Batches(u)[b] = A[b]
    BY <1>4, <2>1, <2>3, <2>4, <2>5, <2>6
  <2> QED BY <2>2, <2>5, <2>7, SeqEqual DEF A
<1>8. Batches(t) \in Seq(SUBSET Cmds) /\ t.pending_beats \in Seq(SUBSET Cmds)
  BY <1>3, QueueFacts
<1>9. Append(Batches(t), cmds) \in Seq(SUBSET Cmds)
  BY <1>8
<1>10. CASE t.pending_beats = << >>
  <2>1. u.pending_beats = << >> /\ u.qc_waiting[n].cbs = << >>
    BY <1>2, <1>10 DEF Moved
  <2>2. Waits(u) = << >>
    BY <1>3, <1>5, <1>6, <2>1, WaitsFacts
  <2> HIDE DEF n
  <2>3. Queue(u) = Append(Batches(t), cmds) \o << >> \o << >>
    BY <1>7, <2>1, <2>2 DEF Queue
  <2> QED BY <1>4, <1>9, <1>10, <2>3, ConcatEmptySeq DEF u
<1>11. CASE t.pending_beats # << >>
  <2>1. u.pending_beats = Tail(t.pending_beats)
        /\ u.qc_waiting[n].cbs = <<[beat |-> h]>>
    BY <1>2, <1>11 DEF Moved
  <2>2. Waits(u) = <<h>>
    <3> DEFINE cbs == u.qc_waiting[n].cbs
    <3>1. cbs # << >> => Waits(u) = <<cbs[1].beat>>
      BY <1>3, <1>5, <1>6, WaitsFacts
    <3> QED BY <2>1, <3>1
  <2> HIDE DEF n
  <2>3. Queue(u) = Append(Batches(t), cmds) \o <<h>> \o Tail(t.pending_beats)
    BY <1>7, <2>1, <2>2 DEF Queue
  <2> QED BY <1>4, <1>8, <1>9, <1>11, <2>3, HeadMoves DEF u
<1> QED BY <1>10, <1>11

\* Inv of a fixed proposer.
LEMMA InvFixed ==
  ASSUME NEW t, Inv(t), t.kind = "dummy", Len(t.chain) <= MaxBlocks + 1
  PROVE  Fixed(t) /\ ~t.rotating /\ t.proposer = Self
<1>1. Len(t.chain) <= MaxBlocks + 2
  BY ChainFacts, SizeAssumption DEF Inv, Good
<1> QED BY <1>1 DEF Inv, DummyInv, Fixed

\* A batch that the buffer hands to beat() goes to the end of the queue.
LEMMA BeatLine ==
  ASSUME NEW t, Inv(t), t.kind = "dummy", NEW batch \in SUBSET Cmds,
         Len(t.chain) <= MaxBlocks + 1
  PROVE  LET u == beat(t, batch) IN
         Queue(u) = Append(Queue(t), batch) /\ SameBuffer(t, u)
<1> DEFINE u == Enqueued(t, batch)
           r == beat(t, batch)
<1>1. Fixed(t) /\ ~t.rotating /\ t \in Fields
  BY InvFixed DEF Fixed, Good
<1>2. /\ Inv(u) /\ SameCore(t, u) /\ SameBuffer(t, u)
      /\ u.pending_beats = Append(t.pending_beats, batch)
      /\ u.pending_beats \in Seq(SUBSET Cmds) /\ u.pending_beats # << >>
  BY EnqueuedFacts
<1>3. Beaten(t, batch, u)
  BY BeatCases
<1> HIDE DEF u, r
<1>4. /\ u.chain = t.chain /\ u.kind = "dummy" /\ ~u.rotating
      /\ u.last_proposed = t.last_proposed /\ u.qc_waiting = t.qc_waiting
  BY <1>1, <1>2 DEF SameCore, SamePast, SameRole, SameTerm
<1>5. Fixed(u)
  BY <1>2, <1>4, InvFixed
<1>6. Batches(u) = Batches(t) /\ Waits(u) = Waits(t)
  BY <1>4 DEF Batches, Waits
<1>7. /\ Batches(t) \in Seq(SUBSET Cmds) /\ t.pending_beats \in Seq(SUBSET Cmds)
      /\ Waits(t) \in Seq(SUBSET Cmds)
  BY <1>1, QueueFacts, WaitsFacts
<1>8. Queue(u) = Append(Queue(t), batch)
  <2> DEFINE P == Batches(t) \o Waits(t)
  <2>1. /\ Queue(t) = P \o t.pending_beats
        /\ Queue(u) = P \o Append(t.pending_beats, batch)
    BY <1>2, <1>6 DEF Queue
  <2>2. P \in Seq(SUBSET Cmds)
    BY <1>7, ConcatProperties
  <2> HIDE DEF P
  <2>3. P \o Append(t.pending_beats, batch) = Append(P \o t.pending_beats, batch)
    BY <1>7, <2>2, AppendConcat
  <2> QED BY <2>1, <2>3
<1>9. CASE (u.locked \/ u.last_proposed \notin u.certified) /\ r = schedule_next(u)
  <2>1. Queue(r) = Queue(u) /\ SameBuffer(u, r)
    BY <1>2, <1>4, <1>5, <1>9, ScheduleLine DEF Inv
  <2> QED BY <1>2, <1>8, <2>1 DEF SameBuffer, r
<1>10. CASE /\ u.last_proposed \in u.certified
            /\ \E y \in {Taken(u), TakenLocked(u)} : r = on_propose(y, Head(u.pending_beats))
  <2> DEFINE h == Head(u.pending_beats)
  <2>1. PICK y \in {Taken(u), TakenLocked(u)} : r = on_propose(y, h)
    BY <1>10
  <2>2. /\ Good(y) /\ Ready(y) /\ y.chain = t.chain /\ y.kind = "dummy"
        /\ y.pending_beats = Tail(u.pending_beats) /\ SameBuffer(u, y)
    BY <1>2, <1>4, <1>10, TakenFacts
  <2>3. Fixed(y) /\ Batches(y) = Batches(t) /\ Len(y.chain) <= MaxBlocks + 1
    BY <1>1, <2>2 DEF Fixed, Ready, DummyInv, Batches
  <2>4. h \in SUBSET Cmds
    BY <1>2
  <2>5. Queue(r) = Append(Batches(t), h) \o Tail(u.pending_beats) /\ SameBuffer(y, r)
    BY <2>1, <2>2, <2>3, <2>4, ProposeLine
  <2>6. Waits(t) = << >>
    <3>1. CASE u.last_proposed = 0
      BY <1>4, <1>5, <1>6, <3>1, WaitsFacts
    <3>2. CASE u.last_proposed # 0
      <4>1. u.last_proposed \in DOMAIN u.qc_waiting
        BY <1>5, <3>2, WaitsFacts
      <4>2. u.qc_waiting[u.last_proposed] = Absent
        BY <1>5, <1>10, <4>1 DEF Fixed, Good, PromiseInv
      <4>3. u.qc_waiting[u.last_proposed].cbs = << >>
        BY <4>2 DEF Absent
      <4> QED BY <1>5, <1>6, <3>2, <4>3, WaitsFacts
    <3> QED BY <3>1, <3>2
  <2> HIDE DEF h
  <2>7. Queue(u) = Batches(t) \o u.pending_beats
    BY <1>6, <1>7, <2>6, ConcatEmptySeq DEF Queue
  <2>8. Append(Batches(t), h) = Batches(t) \o <<h>>
    BY <1>7, <2>4, AppendConcat
  <2>9. Queue(r) = Queue(u)
    BY <1>2, <1>7, <2>5, <2>7, <2>8, HeadMoves DEF h
  <2> QED BY <1>2, <1>8, <2>2, <2>5, <2>9 DEF SameBuffer, r
<1> QED BY <1>1, <1>3, <1>9, <1>10 DEF Beaten, r

-----------------------------------------------------------------------------
\* A step takes a command into the buffer or with it into a batch, or none.
Entered(t, u) ==
  \/ Queue(u) = Queue(t) /\ SameBuffer(t, u)
  \/ \E c \in Cmds \ t.sent :
       /\ u.sent = t.sent \cup {c}
       /\ \/ /\ Queue(u) = Queue(t)
             /\ u.cmd_pending_buffer = Append(t.cmd_pending_buffer, c)
          \/ /\ Queue(u) = Append(Queue(t), ToSet(Append(t.cmd_pending_buffer, c)))
             /\ u.cmd_pending_buffer = << >>

\* Room is left for the proposal of a step.
LEMMA RoomFixed ==
  ASSUME Inv(s), s.kind = "dummy", Room
  PROVE  Fixed(s) /\ ~s.rotating /\ s.proposer = Self /\ Len(s.chain) <= MaxBlocks + 1
BY RoomFacts, InvFixed DEF Inv, Good

LEMMA ExecCommandLine ==
  ASSUME Inv(s), s.kind = "dummy", NEW c \in Cmds, ExecCommand(c)
  PROVE  Entered(s, s')
<1> DEFINE t == [s EXCEPT !.sent = @ \cup {c}, !.decision_waiting = @ \cup {c}]
           buffer == Append(s.cmd_pending_buffer, c)
           v == [t EXCEPT !.cmd_pending_buffer = buffer]
           w == [t EXCEPT !.cmd_pending_buffer = << >>]
           batch == ToSet(buffer)
<1>1. /\ Room /\ c \notin s.sent
      /\ Fixed(s) /\ s.proposer = Self /\ Len(s.chain) <= MaxBlocks + 1
  BY RoomFixed DEF ExecCommand
<1>2. /\ s \in Fields /\ s.sent \in SUBSET Cmds /\ s.decision_waiting \in SUBSET Cmds
      /\ s.cmd_pending_buffer \in Seq(Cmds)
  BY <1>1 DEF Fixed, Good, Fields
<1>3. buffer \in Seq(Cmds) /\ << >> \in Seq(Cmds) /\ batch \in SUBSET Cmds
  <2>1. buffer \in Seq(Cmds)
    BY <1>2
  <2> HIDE DEF buffer
  <2> QED BY <2>1 DEF ToSet
<1>4. s' = IF t.proposer # Self THEN t ELSE IF Len(buffer) < BlkSize THEN v ELSE beat(w, batch)
  BY <1>2 DEF ExecCommand, Fields
<1> HIDE DEF buffer, batch
<1>5. t \in Fields
  BY <1>2, ZenonT(60) DEF Fields
<1>6. SameCore(s, t) /\ Calls(s, t) /\ t.pending_beats = s.pending_beats
      /\ t.sent = s.sent \cup {c} /\ t.cmd_pending_buffer = s.cmd_pending_buffer
  BY <1>2 DEF Fields, SameCore, SamePast, SameRole, SameTerm, Decided, Calls
<1> HIDE DEF t
<1>7. v \in Fields /\ w \in Fields
  BY <1>3, <1>5 DEF Fields
<1>8. /\ SameCore(t, v) /\ Calls(t, v) /\ v.pending_beats = t.pending_beats
      /\ v.sent = t.sent /\ v.cmd_pending_buffer = buffer
      /\ SameCore(t, w) /\ Calls(t, w) /\ w.pending_beats = t.pending_beats
      /\ w.sent = t.sent /\ w.cmd_pending_buffer = << >>
  BY <1>5 DEF Fields, SameCore, SamePast, SameRole, SameTerm, Decided, Calls
<1> HIDE DEF v, w
<1>9. ASSUME NEW y \in {v, w}
      PROVE  /\ Inv(y) /\ y.chain = s.chain /\ y.kind = "dummy" /\ Queue(y) = Queue(s)
             /\ y.sent = s.sent \cup {c}
  <2>1. /\ y \in Fields /\ SameCore(s, y) /\ Calls(s, y) /\ y.pending_beats = s.pending_beats
        /\ y.sent = s.sent \cup {c}
    BY <1>6, <1>7, <1>8, <1>9 DEF SameCore, SamePast, SameRole, SameTerm, Decided, Calls
  <2>2. Inv(y) /\ y.chain = s.chain /\ y.kind = "dummy"
    BY <2>1, SameCoreKeeps DEF Inv, SameCore, SamePast, SameRole
  <2>3. Queue(y) = Queue(s)
    BY <2>1 DEF Queue, Batches, Waits, SameCore, SamePast, SameTerm
  <2> QED BY <2>1, <2>2, <2>3
<1>10. t.proposer = Self
  BY <1>1, <1>6 DEF SameCore, SamePast, SameRole
<1>11. CASE s' = v
  BY <1>1, <1>8, <1>9, <1>11 DEF Entered, buffer
<1>12. CASE s' = beat(w, batch)
  <2>1. Queue(s') = Append(Queue(w), batch) /\ SameBuffer(w, s')
    BY <1>1, <1>3, <1>9, <1>12, BeatLine
  <2> QED BY <1>1, <1>8, <1>9, <2>1 DEF Entered, SameBuffer, buffer, batch
<1> QED BY <1>4, <1>10, <1>11, <1>12

LEMMA QcFinishLine ==
  ASSUME Inv(s), s.kind = "dummy", NEW b \in DOMAIN s.chain, QcFinish(b)
  PROVE  Entered(s, s')
<1> DEFINE cbs == s.qc_waiting[b].cbs
           t == [s EXCEPT !.certified = @ \cup {b}, !.hqc = Max({@, b}),
                          !.qc_waiting[b] = Absent]
           u == IF Len(cbs) > 0 THEN Resume(t, cbs[1]) ELSE t
<1>1. /\ Room /\ s.chain[b].by = Self /\ b \notin s.certified
      /\ s' = IF Len(cbs) > 1 THEN Resume(u, cbs[2]) ELSE u
  BY DEF QcFinish
<1>2. /\ Good(t) /\ FreeInv(t) /\ Ready(t) /\ Stay(s, t) /\ t.chain = s.chain
      /\ b \in DOMAIN s.qc_waiting
  <2>1. Room /\ s.chain[b].by = Self /\ b \notin s.certified
    BY DEF QcFinish
  <2> QED BY <2>1, CertifiedFacts, ZenonT(90)
<1>3. /\ Fixed(s) /\ s.proposer = Self /\ Len(s.chain) <= MaxBlocks + 1 /\ s \in Fields
  BY <1>1, RoomFixed DEF Fixed, Good
<1>4. /\ t.pending_beats = s.pending_beats /\ SameBuffer(s, t)
      /\ t.last_proposed = s.last_proposed /\ t.kind = s.kind
      /\ t.proposer = Self /\ t.pm_qc_manual = s.pm_qc_manual
      /\ t.qc_waiting[b] = Absent
  BY <1>2, <1>3, ZenonT(60) DEF SameBuffer, Fields
<1> HIDE DEF t
<1>5. Fixed(t) /\ Batches(t) = Batches(s)
  BY <1>2, <1>3, <1>4 DEF Fixed, Batches
<1>6. b = s.last_proposed /\ b # 0
  <2>1. DOMAIN s.chain = 1..Len(s.chain) /\ Len(s.chain) \in Nat
    BY <1>3, ChainFacts
  <2>2. b = Len(s.chain)
    BY <1>1, <2>1 DEF Inv, DummyInv
  <2> QED BY <2>1, <2>2 DEF Inv, DummyInv
<1>7. t.qc_waiting[b].cbs = << >>
  BY <1>4 DEF Absent
<1>8. Waits(t) = << >>
  BY <1>4, <1>5, <1>6, <1>7, WaitsFacts
<1>9. Batches(s) \in Seq(SUBSET Cmds) /\ s.pending_beats \in Seq(SUBSET Cmds)
  BY <1>3, QueueFacts
<1>10. CASE cbs = << >>
  <2>1. Len(cbs) = 0
    BY <1>10
  <2>2. s' = t
    BY <1>1, <2>1
  <2>3. Waits(s) = << >>
    BY <1>3, <1>6, <1>10, WaitsFacts
  <2> QED BY <1>4, <1>5, <1>8, <2>2, <2>3 DEF Entered, Queue
<1>11. CASE cbs # << >>
  <2> DEFINE x == cbs[1].beat
  <2>1. /\ x \in SUBSET Cmds /\ Len(cbs) = 1 /\ "beat" \in DOMAIN cbs[1]
        /\ Waits(s) = <<x>>
    BY <1>3, <1>6, <1>11, WaitsFacts
  <2>2. s' = Resume(t, cbs[1])
    BY <1>1, <2>1
  <2>3. s' = on_propose(t, x)
    BY <1>4, <2>1, <2>2 DEF Resume
  <2>4. Len(t.chain) <= MaxBlocks + 1
    BY <1>2, <1>3
  <2> HIDE DEF x
  <2>5. Queue(s') = Append(Batches(t), x) \o t.pending_beats /\ SameBuffer(t, s')
    BY <1>2, <1>5, <2>1, <2>3, <2>4, ProposeLine
  <2>6. Append(Batches(s), x) = Batches(s) \o Waits(s)
    BY <1>9, <2>1, AppendIsConcat
  <2>7. Queue(s) = Append(Batches(s), x) \o s.pending_beats
    BY <2>6 DEF Queue
  <2>8. Queue(s') = Queue(s)
    BY <1>4, <1>5, <2>5, <2>7
  <2> QED BY <1>4, <2>5, <2>8 DEF Entered, SameBuffer
<1> QED BY <1>10, <1>11

\* Nothing else happens to a fixed proposer.
LEMMA NextLine ==
  ASSUME Inv(s), s.kind = "dummy", Next
  PROVE  Entered(s, s')
<1>1. ~s.rotating /\ s.elected = 0 /\ s.timer = "none" /\ s.unheard = {}
  BY DEF Inv, DummyInv, Good, ChainInv
<1>2. ASSUME NEW c \in Cmds, ExecCommand(c) PROVE Entered(s, s')
  BY <1>2, ExecCommandLine
<1>3. ASSUME NEW b \in DOMAIN s.chain, QcFinish(b) PROVE Entered(s, s')
  BY <1>3, QcFinishLine
<1>4. ~Impeach /\ ~OnExpTimeout /\ ~PropTimeout /\ ~Elected
  BY <1>1 DEF Impeach, OnExpTimeout, PropTimeout, Elected
<1>5. ASSUME NEW p \in Others, NEW cmds \in {{}, s.decision_waiting}
      PROVE  ~ReceiveProposal(p, cmds) /\ ~FetchBlk(p, cmds)
  BY DEF ReceiveProposal, FetchBlk
<1>6. ASSUME NEW b \in DOMAIN s.chain PROVE ~ReceiveLate(b)
  BY <1>1 DEF ReceiveLate
<1> QED BY <1>2, <1>3, <1>4, <1>5, <1>6 DEF Next

-----------------------------------------------------------------------------
\* Every command of S is in the line L, once.
Once(L, S) ==
  /\ S = UNION ToSet(L)
  /\ \A i, j \in DOMAIN L : L[i] \cap L[j] # {} => i = j

LEMMA LineFacts ==
  ASSUME NEW t, Fixed(t)
  PROVE  Queue(t) \in Seq(SUBSET Cmds) /\ ToSet(t.cmd_pending_buffer) \in SUBSET Cmds
<1>1. /\ Batches(t) \in Seq(SUBSET Cmds) /\ t.pending_beats \in Seq(SUBSET Cmds)
      /\ Waits(t) \in Seq(SUBSET Cmds) /\ t.cmd_pending_buffer \in Seq(Cmds)
  BY QueueFacts, WaitsFacts DEF Fixed, Good, Fields
<1>2. Batches(t) \o Waits(t) \in Seq(SUBSET Cmds)
  BY <1>1, ConcatProperties
<1>3. Queue(t) \in Seq(SUBSET Cmds)
  BY <1>1, <1>2, ConcatProperties DEF Queue
<1>4. ToSet(t.cmd_pending_buffer) \in SUBSET Cmds
  BY <1>1 DEF ToSet
<1> QED BY <1>3, <1>4

\* A new command joins the buffer, which is the end of the line.
LEMMA JoinOnce ==
  ASSUME NEW S, NEW Q \in Seq(SUBSET Cmds), NEW A \in SUBSET Cmds, NEW c \in Cmds, c \notin S,
         Once(Append(Q, A), S)
  PROVE  Once(Append(Q, A \cup {c}), S \cup {c})
<1> DEFINE L == Append(Q, A)
           M == Append(Q, A \cup {c})
           n == Len(Q) + 1
<1>1. /\ Len(Q) \in Nat /\ DOMAIN L = 1..n /\ DOMAIN M = 1..n
      /\ L[n] = A /\ M[n] = A \cup {c}
      /\ \A i \in 1..n : i # n => M[i] = L[i]
  BY SMTT(30)
<1> HIDE DEF L, M
<1>2. /\ S = UNION {L[i] : i \in 1..n}
      /\ \A i, j \in 1..n : L[i] \cap L[j] # {} => i = j
  BY <1>1 DEF Once, ToSet, L
<1>3. n \in 1..n
  BY <1>1
<1> HIDE DEF n
<1>4. \A i \in 1..n : c \notin L[i]
  BY <1>2
<1>5. UNION {M[i] : i \in 1..n} = S \cup {c}
  <2>1. ASSUME NEW i \in 1..n, NEW d \in M[i] PROVE d \in S \cup {c}
    BY <1>1, <1>2, <2>1
  <2>2. ASSUME NEW d \in S PROVE \E i \in 1..n : d \in M[i]
    <3>1. PICK i \in 1..n : d \in L[i]
      BY <1>2
    <3> QED BY <1>1, <3>1
  <2>3. c \in M[n]
    BY <1>1
  <2> QED BY <1>3, <2>1, <2>2, <2>3
<1>6. ASSUME NEW i \in 1..n, NEW j \in 1..n, i # j PROVE M[i] \cap M[j] = {}
  BY <1>1, <1>2, <1>4, <1>6
<1> QED BY <1>1, <1>5, <1>6 DEF Once, ToSet, M

\* The buffer becomes a batch, and an empty one follows.
LEMMA EmptyOnce ==
  ASSUME NEW S, NEW Q \in Seq(SUBSET Cmds), Once(Q, S)
  PROVE  Once(Append(Q, {}), S)
<1> DEFINE M == Append(Q, {})
           n == Len(Q) + 1
<1>1. /\ Len(Q) \in Nat /\ DOMAIN Q = 1..Len(Q) /\ DOMAIN M = 1..n /\ M[n] = {}
      /\ \A i \in 1..Len(Q) : M[i] = Q[i]
  BY SMTT(30)
<1>2. \A i \in 1..n : i = n \/ i \in 1..Len(Q)
  BY <1>1
<1>3. 1..Len(Q) \subseteq 1..n
  BY <1>1
<1> HIDE DEF M, n
<1>4. /\ S = UNION {Q[i] : i \in 1..Len(Q)}
      /\ \A i, j \in 1..Len(Q) : Q[i] \cap Q[j] # {} => i = j
  BY <1>1 DEF Once, ToSet
<1>5. UNION {M[i] : i \in 1..n} = S
  BY <1>1, <1>2, <1>3, <1>4
<1>6. ASSUME NEW i \in 1..n, NEW j \in 1..n, i # j PROVE M[i] \cap M[j] = {}
  BY <1>1, <1>2, <1>4, <1>6
<1> QED BY <1>1, <1>5, <1>6 DEF Once, ToSet, M

\* A step keeps every command in the line, once.
LEMMA EnteredOnce ==
  ASSUME NEW t, Fixed(t), Once(Line(t), t.sent), NEW u, Entered(t, u)
  PROVE  Once(Line(u), u.sent)
<1> DEFINE Q == Queue(t)
           A == ToSet(t.cmd_pending_buffer)
<1>1. Q \in Seq(SUBSET Cmds) /\ A \in SUBSET Cmds /\ t.cmd_pending_buffer \in Seq(Cmds)
  BY LineFacts DEF Fixed, Good, Fields
<1>2. Once(Append(Q, A), t.sent)
  BY DEF Line
<1>3. CASE Queue(u) = Queue(t) /\ SameBuffer(t, u)
  BY <1>3 DEF Line, SameBuffer
<1>4. CASE ~(Queue(u) = Queue(t) /\ SameBuffer(t, u))
  <2> DEFINE buffer(c) == Append(t.cmd_pending_buffer, c)
  <2>1. PICK c \in Cmds \ t.sent :
          /\ u.sent = t.sent \cup {c}
          /\ \/ Queue(u) = Q /\ u.cmd_pending_buffer = buffer(c)
             \/ Queue(u) = Append(Q, ToSet(buffer(c))) /\ u.cmd_pending_buffer = << >>
    BY <1>4 DEF Entered
  <2>2. ToSet(buffer(c)) = A \cup {c}
    <3> DEFINE old == t.cmd_pending_buffer
               new == Append(old, c)
    <3>1. /\ Len(old) \in Nat /\ DOMAIN old = 1..Len(old)
          /\ DOMAIN new = 1..(Len(old) + 1) /\ new[Len(old) + 1] = c
          /\ \A i \in 1..Len(old) : new[i] = old[i]
      BY <1>1
    <3>2. \A i \in 1..(Len(old) + 1) : i = Len(old) + 1 \/ i \in 1..Len(old)
      BY <3>1
    <3>3. 1..Len(old) \subseteq 1..(Len(old) + 1) /\ Len(old) + 1 \in 1..(Len(old) + 1)
      BY <3>1
    <3> HIDE DEF old, new
    <3>4. ToSet(new) = ToSet(old) \cup {c}
      BY <3>1, <3>2, <3>3 DEF ToSet
    <3> QED BY <3>4 DEF old, new
  <2> HIDE DEF Q, A, buffer
  <2>3. A \cup {c} \in SUBSET Cmds /\ c \in Cmds /\ c \notin t.sent
    BY <1>1, <2>1
  <2>4. Once(Append(Q, A \cup {c}), t.sent \cup {c})
    BY <1>1, <1>2, <2>3, JoinOnce
  <2>5. CASE Queue(u) = Q /\ u.cmd_pending_buffer = buffer(c)
    BY <2>1, <2>2, <2>4, <2>5 DEF Line
  <2>6. CASE Queue(u) = Append(Q, ToSet(buffer(c))) /\ u.cmd_pending_buffer = << >>
    <3>1. ToSet(u.cmd_pending_buffer) = {}
      BY <2>6 DEF ToSet
    <3>2. Append(Q, A \cup {c}) \in Seq(SUBSET Cmds)
      BY <1>1, <2>3
    <3>3. Once(Append(Append(Q, A \cup {c}), {}), t.sent \cup {c})
      BY <2>4, <3>2, EmptyOnce
    <3> QED BY <2>1, <2>2, <2>6, <3>1, <3>3 DEF Line
  <2> QED BY <2>1, <2>5, <2>6
<1> QED BY <1>3, <1>4

\* With a fixed proposer every command received is in a block, in a beat or in the
\* buffer, in one of them and once, whatever happens to the promises of beat() and
\* of async_qc_finish.
THEOREM EachOnceHolds == Spec => []EachOnce
<1>1. Init => EachOnce
  <2> SUFFICES ASSUME NEW kind \in Kinds, s = Initial(kind) PROVE Once(Line(s), s.sent)
    BY DEF Init, EachOnce, Once
  <2>1. /\ s.chain = << >> /\ s.last_proposed = 0 /\ s.pending_beats = << >>
        /\ s.cmd_pending_buffer = << >> /\ s.sent = {}
    BY DEF Initial
  <2>2. Batches(s) = << >> /\ Waits(s) = << >> /\ ToSet(s.cmd_pending_buffer) = {}
    BY <2>1 DEF Batches, Waits, ToSet
  <2>3. << >> \o << >> \o << >> = << >>
    OBVIOUS
  <2>4. Line(s) = <<{}>>
    BY <2>1, <2>2, <2>3 DEF Line, Queue
  <2>5. DOMAIN <<{}>> = {1} /\ <<{}>>[1] = {}
    OBVIOUS
  <2> QED BY <2>1, <2>4, <2>5 DEF Once, ToSet
<1>2. IInv /\ EachOnce /\ [Next]_s => EachOnce'
  <2> SUFFICES ASSUME IInv, EachOnce, [Next]_s PROVE EachOnce'
    OBVIOUS
  <2>1. CASE Next
    <3> SUFFICES ASSUME s'.kind = "dummy" PROVE Once(Line(s'), s'.sent)
      BY DEF EachOnce, Once
    <3>1. Inv(s) /\ Len(s.chain) <= MaxBlocks + 1 /\ After(s, s')
      BY <2>1, IInvIsInv, NextStep
    <3>2. ~s'.rotating
      BY <3>1 DEF After, Inv, DummyInv
    <3>3. s.kind = "dummy"
      BY <3>1, <3>2 DEF After, Stay
    <3>4. Entered(s, s')
      BY <2>1, <3>1, <3>3, NextLine
    <3>5. Fixed(s)
      BY <3>1, <3>3, InvFixed
    <3>6. Once(Line(s), s.sent)
      BY <3>3 DEF EachOnce, Once
    <3> QED BY <3>4, <3>5, <3>6, EnteredOnce
  <2>2. CASE UNCHANGED s
    BY <2>2 DEF EachOnce
  <2> QED BY <2>1, <2>2
<1> QED BY <1>1, <1>2, PacemakerInvariance, PTL DEF Spec

\* No batch of a fixed proposer overtakes another one, on whichever of the ways
\* through beat(), schedule_next and the certificate of the last block it goes.
THEOREM InOrderHolds == Spec => InOrder
<1> DEFINE Moves == s.kind = "dummy" => IsPrefix(Queue(s), Line(s'))
<1>1. IInv /\ [Next]_s => [Moves]_s
  <2> SUFFICES ASSUME IInv, Next, s.kind = "dummy" PROVE IsPrefix(Queue(s), Line(s'))
    OBVIOUS
  <2>1. Inv(s) /\ Len(s.chain) <= MaxBlocks + 1
    BY IInvIsInv
  <2>2. Entered(s, s')
    BY <2>1, NextLine
  <2>3. Queue(s) \in Seq(SUBSET Cmds)
    BY <2>1, InvFixed, LineFacts
  <2> DEFINE Q == Queue(s)
             A == ToSet(s'.cmd_pending_buffer)
  <2>4. \/ Line(s') = Append(Q, A)
        \/ \E batch : Line(s') = Append(Append(Q, batch), A)
    BY <2>2 DEF Entered, Line
  <2> HIDE DEF Q, A
  <2>5. CASE Line(s') = Append(Q, A)
    BY <2>3, <2>5 DEF Q, IsPrefix
  <2>6. ASSUME NEW batch, Line(s') = Append(Append(Q, batch), A)
        PROVE  IsPrefix(Q, Line(s'))
    BY <2>3, <2>6 DEF Q, IsPrefix
  <2> QED BY <2>4, <2>5, <2>6 DEF Q
<1> QED BY <1>1, PacemakerInvariance, PTL DEF Spec, InOrder
=============================================================================
