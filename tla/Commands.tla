------------------------------ MODULE Commands ------------------------------
(***************************************************************************)
(* The way of a command from the client (hotstuff_client.cpp) through the  *)
(* replicas (hotstuff_app.cpp, HotStuffBase of hotstuff.cpp) and back: the *)
(* window of the client, the queue, buffer and batches of the proposer,    *)
(* the table decision_waiting of every replica, the execution of decided   *)
(* blocks, the answers, and how the client counts them.                    *)
(*                                                                         *)
(* Consensus is taken from below as the other modules leave it: with the   *)
(* fixed proposer of PaceMakerDummyFixed the blocks form one chain, each   *)
(* proposed when its predecessor has its quorum certificate (PMWaitQC) and *)
(* carrying that certificate, so that a replica that handles block k       *)
(* commits the blocks up to k - Depth.                                     *)
(*                                                                         *)
(* A connection delivers in order.  A replica that is down never answers.  *)
(* The client numbers its commands from 0, after a restart again, and the  *)
(* hash of a command covers just the client's id and that number.          *)
(***************************************************************************)
EXTENDS Integers, FiniteSets, Sequences, SequencesExt

CONSTANTS
  Replicas,       \* ids of the replicas
  Down,           \* the replicas that have crashed
  Proposer,       \* the fixed proposer
  nfaulty,        \* the faults that are tolerated
  TwoStep,        \* is the build made with HOTSTUFF_TWO_STEP?
  blk_size,       \* commands per block
  max_async_num,  \* the client's window
  Total,          \* max_iter_num at the start: how many commands it sends
  MaxRestarts     \* bound: restarts of the client

Live == Replicas \ Down

ASSUME ReplicasAssumption ==
  /\ IsFiniteSet(Replicas)
  /\ Down \subseteq Replicas
  /\ Proposer \in Live
  /\ nfaulty \in Nat
  /\ Cardinality(Live) > 2 * nfaulty

ASSUME NumbersAssumption ==
  /\ TwoStep \in BOOLEAN
  /\ blk_size \in Nat \ {0}
  /\ max_async_num \in Nat \ {0}
  /\ Total \in Nat
  /\ MaxRestarts \in Nat

VARIABLES
  inc,        \* incarnation of the client
  cnt,        \* client: number of the next command
  waiting,    \* client: the commands sent and not confirmed
  acks,       \* client: replies counted, pairs <<command, replica>>
  confirmed,  \* client: the commands reported as confirmed
  sent,       \* requests sent so far to every replica: <<command, incarnation>>
  heard,      \* per replica: how many of them it has handled
  decision_waiting, \* per replica: commands to answer when they are decided
  buffer,     \* cmd_pending_buffer of the proposer
  beats,      \* its batches that wait for pmaker->beat()
  chain,      \* the blocks proposed so far, each a sequence of commands
  got,        \* per replica: how many of them it has handled
  answers     \* replies in flight: <<replica, command, decision, incarnation>>

client == <<inc, cnt, waiting, acks, confirmed, sent>>
vars == <<client, heard, decision_waiting, buffer, beats, chain, got, answers>>

Cmds == 0..(Total - 1)

Depth == IF TwoStep THEN 2 ELSE 3

nmajority == Cardinality(Replicas) - nfaulty

\* Block k commits the blocks up to this one.
CommittedBy(k) == IF k > Depth THEN k - Depth ELSE 0

\* The blocks that r has executed, in order.
Executed(r) == SubSeq(chain, 1, CommittedBy(got[r]))

HasExecuted(r, c) == \E i \in 1..CommittedBy(got[r]) : Contains(chain[i], c)

-----------------------------------------------------------------------------
\* (Changed: the window is compared one too early.)
TrySend_OneLess(c, w, i) ==
  LET room == max_async_num - 1 - Cardinality(w)
      n == IF room < Total - c THEN room ELSE Total - c
  IN  /\ cnt' = c + n
      /\ waiting' = w \cup c..(c + n - 1)
      /\ sent' = sent \o [k \in 1..n |-> <<c + k - 1, i>>]

\* while (try_send()): fill the window, from command number c on.
TrySend(c, w, i) ==
  LET room == max_async_num - Cardinality(w)
      n == IF room < Total - c THEN room ELSE Total - c
  IN  /\ cnt' = c + n
      /\ waiting' = w \cup c..(c + n - 1)
      /\ sent' = sent \o [k \in 1..n |-> <<c + k - 1, i>>]

Init ==
  /\ inc = 0
  /\ cnt = 0
  /\ waiting = {}
  /\ acks = {}
  /\ confirmed = {}
  /\ sent = << >>
  /\ heard = [r \in Replicas |-> 0]
  /\ decision_waiting = [r \in Replicas |-> {}]
  /\ buffer = << >>
  /\ beats = << >>
  /\ chain = << >>
  /\ got = [r \in Replicas |-> 0]
  /\ answers = {}

\* main() of the client.
ClientStart ==
  /\ sent = << >>
  /\ TrySend(0, {}, 0)
  /\ UNCHANGED <<inc, acks, confirmed, heard, decision_waiting, buffer, beats,
                 chain, got, answers>>

\* The client is killed and run again: same id, same numbers.
ClientRestart ==
  /\ inc < MaxRestarts
  /\ inc' = inc + 1
  /\ acks' = {}
  /\ confirmed' = {}
  /\ answers' = {}
  /\ TrySend(0, {}, inc + 1)
  /\ UNCHANGED <<heard, decision_waiting, buffer, beats, chain, got>>

\* (Changed: f replies are enough.)
Enough_OneLess(G) == Cardinality(G) >= nfaulty

\* f + 1 replies.
Enough(G) == Cardinality(G) > nfaulty

\* client_resp_cmd_handler: the decision in the reply is not looked at.
HandleAnswer(m) ==
  LET c == m[2]
      repliers == {m[1]} \cup {r \in Replicas : <<c, r>> \in acks}
  IN
  /\ m \in answers
  /\ m[4] = inc
  /\ answers' = answers \ {m}
  /\ IF c \notin waiting
     THEN UNCHANGED client
     ELSE /\ UNCHANGED inc
          /\ acks' = acks \cup {<<c, m[1]>>}
          /\ IF Enough(repliers)
             THEN confirmed' = confirmed \cup {c} /\ TrySend(cnt, waiting \ {c}, inc)
             ELSE UNCHANGED <<cnt, waiting, confirmed, sent>>
  /\ UNCHANGED <<heard, decision_waiting, buffer, beats, chain, got>>

-----------------------------------------------------------------------------
\* (Changed: the commands of a batch stay in the buffer.)
Batch_Keeps(c) ==
  IF Len(buffer) + 1 < blk_size
  THEN buffer' = Append(buffer, c) /\ UNCHANGED beats
  ELSE buffer' = Append(buffer, c) /\ beats' = Append(beats, Append(buffer, c))

\* The proposer puts c into the buffer, and a full buffer into a batch.
Batch(c) ==
  IF Len(buffer) + 1 < blk_size
  THEN buffer' = Append(buffer, c) /\ UNCHANGED beats
  ELSE buffer' = << >> /\ beats' = Append(beats, Append(buffer, c))

\* client_request_cmd_handler, exec_command and the handler of cmd_pending.
HandleRequest(r) ==
  LET e == sent[heard[r] + 1]
      known == \E d \in decision_waiting[r] : d[1] = e[1]
  IN
  /\ heard[r] < Len(sent)
  /\ heard' = [heard EXCEPT ![r] = @ + 1]
  /\ IF known
     THEN /\ answers' = answers \cup {<<r, e[1], 0, e[2]>>}
          /\ UNCHANGED decision_waiting
     ELSE /\ decision_waiting' = [decision_waiting EXCEPT ![r] = @ \cup {e}]
          /\ UNCHANGED answers
  /\ IF r = Proposer THEN Batch(e[1]) ELSE UNCHANGED <<buffer, beats>>
  /\ UNCHANGED <<client, chain, got>>

\* (Changed: a decided command stays in decision_waiting.)
Advance_Keeps(r, k) ==
  LET run == CommittedBy(got[r]) + 1 .. CommittedBy(k)
      now == {e \in decision_waiting[r] : \E i \in run : Contains(chain'[i], e[1])}
  IN  /\ got' = [got EXCEPT ![r] = k]
      /\ UNCHANGED decision_waiting
      /\ answers' = answers \cup {<<r, e[1], 1, e[2]>> : e \in now}

\* r handles block k: do_decide for every command that this commits.
Advance(r, k) ==
  LET run == CommittedBy(got[r]) + 1 .. CommittedBy(k)
      now == {e \in decision_waiting[r] : \E i \in run : Contains(chain'[i], e[1])}
  IN  /\ got' = [got EXCEPT ![r] = k]
      /\ decision_waiting' = [decision_waiting EXCEPT ![r] = @ \ now]
      /\ answers' = answers \cup {<<r, e[1], 1, e[2]>> : e \in now}

\* (Changed: the new block counts as committed one too early.)
Propose_OneAhead ==
  /\ beats # << >>
  /\ chain = << >> \/ Cardinality({q \in Live : got[q] = Len(chain)}) >= nmajority
  /\ chain' = Append(chain, Head(beats))
  /\ beats' = Tail(beats)
  /\ Advance(Proposer, Len(chain') + 1)
  /\ UNCHANGED <<client, heard, buffer>>

\* A beat: the last block has its quorum certificate, the next batch goes out.
Propose ==
  /\ beats # << >>
  /\ chain = << >> \/ Cardinality({q \in Live : got[q] = Len(chain)}) >= nmajority
  /\ chain' = Append(chain, Head(beats))
  /\ beats' = Tail(beats)
  /\ Advance(Proposer, Len(chain'))
  /\ UNCHANGED <<client, heard, buffer>>

\* on_receive_proposal of block k, those before it having been delivered.
ReceiveBlock(r, k) ==
  /\ k > got[r]
  /\ UNCHANGED chain
  /\ Advance(r, k)
  /\ UNCHANGED <<client, heard, buffer, beats>>

Next ==
  \/ ClientStart
  \/ \E m \in answers : HandleAnswer(m)
  \/ \E r \in Live : HandleRequest(r)
  \/ Propose
  \/ \E r \in Live, k \in 1..Len(chain) : ReceiveBlock(r, k)

\* Every process that is up goes on, and connections deliver.
Fairness ==
  /\ WF_vars(ClientStart)
  /\ WF_vars(\E m \in answers : HandleAnswer(m))
  /\ WF_vars(Propose)
  /\ \A r \in Live :
       /\ WF_vars(HandleRequest(r))
       /\ WF_vars(\E k \in 1..Len(chain) : ReceiveBlock(r, k))

Spec == Init /\ [][Next]_vars /\ Fairness

\* The same system with a client that may be killed and run again.
RestartSpec == Init /\ [][Next \/ ClientRestart]_vars

-----------------------------------------------------------------------------
(***************************************************************************)
(* Correctness.                                                            *)
(***************************************************************************)

TypeOK ==
  /\ inc \in 0..MaxRestarts
  /\ cnt \in 0..Total
  /\ waiting \in SUBSET Cmds
  /\ acks \in SUBSET (Cmds \X Replicas)
  /\ confirmed \in SUBSET Cmds
  /\ sent \in Seq(Cmds \X (0..MaxRestarts))
  /\ heard \in [Replicas -> 0..Len(sent)]
  /\ decision_waiting \in [Replicas -> SUBSET (Cmds \X (0..MaxRestarts))]
  /\ buffer \in Seq(Cmds)
  /\ beats \in Seq(Seq(Cmds))
  /\ chain \in Seq(Seq(Cmds))
  /\ got \in [Replicas -> 0..Len(chain)]
  /\ answers \in SUBSET (Replicas \X Cmds \X {0, 1} \X (0..MaxRestarts))

\* "wait for f + 1 ack" (hotstuff_client.cpp:112): when the client counts a
\* command as confirmed, more replicas than may be faulty have executed it.
ConfirmedIsExecuted ==
  \A c \in confirmed :
    Cardinality({r \in Live : HasExecuted(r, c)}) > nfaulty

Open(r, c) == \E e \in decision_waiting[r] : e[1] = c

InFlight(r, c) == \E m \in answers : m[1] = r /\ m[2] = c

Counted(r, c) == <<c, r>> \in acks

\* A replica answers each request once, and only when it has executed the
\* command (as long as the client is not restarted: hotstuff.cpp:461): what it
\* has yet to answer, what it has answered on the way to the client, what the
\* client has counted and what it has not heard of are disjoint.
AnsweredOnce ==
  \A r \in Live, c \in Cmds :
    /\ InFlight(r, c) => ~Open(r, c)
    /\ Counted(r, c) => ~Open(r, c) /\ ~InFlight(r, c)
    /\ InFlight(r, c) \/ Counted(r, c) => HasExecuted(r, c)
    /\ Open(r, c) \/ InFlight(r, c) \/ Counted(r, c) =>
         \E i \in 1..heard[r] : sent[i][1] = c

(* The inductive invariant: TypeOK with the parts below. *)

\* A client that was not restarted numbers its requests without gaps, and its
\* window is never overfull.
ClientInv ==
  /\ inc = 0
  /\ cnt = Len(sent)
  /\ \A i \in 1..Len(sent) : sent[i] = <<i - 1, 0>>
  /\ waiting \subseteq 0..(cnt - 1)
  /\ Cardinality(waiting) <= max_async_num

\* Only live replicas answer, what they have executed, and as in AnsweredOnce.
AnswerInv ==
  /\ \A r \in Replicas : \A e \in decision_waiting[r] : e[2] = 0 /\ e[1] < heard[r]
  /\ \A m \in answers :
       /\ m[1] \in Live /\ m[3] = 1 /\ m[4] = 0
       /\ m[2] < heard[m[1]]
       /\ HasExecuted(m[1], m[2])
       /\ ~Open(m[1], m[2])
  /\ \A a \in acks :
       /\ a[2] \in Live
       /\ a[1] < heard[a[2]]
       /\ HasExecuted(a[2], a[1])
       /\ ~Open(a[2], a[1]) /\ ~InFlight(a[2], a[1])

\* The proposer is the replica that is ahead.
ChainInv ==
  /\ got[Proposer] = Len(chain)
  /\ \A r \in Replicas : got[r] <= Len(chain)

\* The commands in the blocks, the batches and the buffer stand in the order in
\* which the proposer has heard them, each at one place.
Pipeline == (chain \o beats) \o <<buffer>>

PipelineInv ==
  \A i, j \in 1..Len(Pipeline) :
    \A k \in 1..Len(Pipeline[i]), l \in 1..Len(Pipeline[j]) :
      /\ i < j \/ (i = j /\ k < l) => Pipeline[i][k] < Pipeline[j][l]
      /\ Pipeline[i][k] < heard[Proposer]

IInv ==
  /\ TypeOK
  /\ ClientInv
  /\ AnswerInv
  /\ ChainInv
  /\ PipelineInv
  /\ ConfirmedIsExecuted

\* r has executed c before it has handled the request for it: it will put the
\* request into decision_waiting and never answer it.
Late(r, c) ==
  /\ HasExecuted(r, c)
  /\ \/ Open(r, c)
     \/ \A i \in 1..heard[r] : sent[i][1] # c

\* The blocks that the commands fill, but for the last ones: those commit only
\* when further blocks follow.
Followed == 0..((Total \div blk_size - Depth) * blk_size - 1)

\* With a window of Depth + 1 blocks every command that enough others follow
\* is confirmed, with crashed replicas too, unless so many requests for some
\* command are late that it cannot be.
CommandsAreConfirmed ==
  \A c \in Followed :
    <>(\/ c \in confirmed
       \/ \E d \in Cmds : ~Enough({r \in Live : ~Late(r, d)}))

\* What the client sees is the promised service.  The log is that of the
\* replica that is ahead.
Longest == CHOOSE r \in Live : \A q \in Live : got[q] <= got[r]

Service == INSTANCE CommandService WITH
  Commands <- Cmds,
  submitted <- {sent[i][1] : i \in DOMAIN sent},
  log <- Executed(Longest),
  confirmed <- confirmed

ImplementsService == Service!Spec
=============================================================================
