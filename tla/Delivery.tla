------------------------------ MODULE Delivery ------------------------------
(***************************************************************************)
(* How a replica comes to hold a block and its whole branch: fetching and  *)
(* delivery in HotStuffBase (hotstuff.cpp:79-255, hotstuff.h) over the     *)
(* entity storage and the worker pool that verifies certificates.          *)
(*                                                                         *)
(* The promises of the code run their continuations inside the handler     *)
(* that resolves them, so one handler may open and deliver many blocks.    *)
(* The state of a replica is the record of its tables; a promise that is   *)
(* still pending is an element of one of the sets `awaits`, `checking` and *)
(* `qcwait`, a pending delivery an element of Waiting.                     *)
(*                                                                         *)
(* A proposal may be handled late, repeatedly or never.  A request or a    *)
(* response is in flight until it is handled or lost.  Nothing is          *)
(* persisted: a replica that restarts has forgotten all its blocks.        *)
(***************************************************************************)
EXTENDS BlockTree

CONSTANTS
  Replicas,     \* ids of the replicas
  Blocks,       \* the blocks that may be proposed (a bound when model checking)
  Author,       \* per block: the replica that proposes it
  Invalid,      \* the blocks whose certificate does not verify
  MaxLosses,    \* bound: messages that are lost
  MaxRestarts   \* bound: restarts of replicas

ASSUME BlocksAssumption ==
  /\ Blocks \subseteq Tree \ {b0}
  /\ \A b \in Blocks : b[Len(b)].qc < Len(b)
  /\ \A b \in Blocks : Branch(b) \subseteq Blocks \cup {b0}

ASSUME AuthorAssumption == Author \in [Blocks -> Replicas]

\* The certificate of the genesis block is the only one that is not checked.
ASSUME InvalidAssumption ==
  Invalid \subseteq Blocks /\ \A b \in Invalid : QcRef(b) # b0

ASSUME BoundsAssumption == MaxLosses \in Nat /\ MaxRestarts \in Nat

VARIABLES
  rep,        \* the tables of every replica
  proposals,  \* the blocks proposed so far
  reqs,       \* MsgReqBlock in flight: <<from, to, block>>
  resps,      \* MsgRespBlock in flight: <<from, to, block>>
  losses,     \* messages lost so far
  restarts    \* restarts so far

vars == <<rep, proposals, reqs, resps, losses, restarts>>

Block == Blocks \cup {b0}

Msg == Replicas \X Replicas \X Blocks

Replica ==
  [store     : SUBSET Block,                \* EntityStorage::blk_cache
   delivered : SUBSET Block,                \* those with Block::delivered
   ctx       : SUBSET Blocks,               \* blk_fetch_waiting
   asked     : SUBSET (Blocks \X Replicas), \* FetchContext::replicas
   owed      : SUBSET (Blocks \X Replicas), \* requests to answer when fetched
   awaits    : SUBSET (Blocks \X Replicas), \* deliveries waiting for the fetch
   opened    : SUBSET Blocks,               \* deliveries past the fetch
   checking  : SUBSET Blocks,               \* of these, being verified
   refused   : SUBSET Blocks,               \* of these, found invalid
   qcwait    : SUBSET Blocks]               \* of these, waiting for qc_ref

NewReplica ==
  [store |-> {b0}, delivered |-> {b0}, ctx |-> {}, asked |-> {}, owed |-> {},
   awaits |-> {}, opened |-> {}, checking |-> {}, refused |-> {}, qcwait |-> {}]

Init ==
  /\ rep = [r \in Replicas |-> NewReplica]
  /\ proposals = {}
  /\ reqs = {}
  /\ resps = {}
  /\ losses = 0
  /\ restarts = 0

-----------------------------------------------------------------------------
(***************************************************************************)
(* The functions of HotStuffBase, on the record s.                         *)
(***************************************************************************)

\* What the set of pairs E tells of block b.
Of(E, b) == {e \in E : e[1] = b}

\* The keys of blk_delivery_waiting.
Waiting(s) == {e[1] : e \in s.awaits} \cup s.opened

\* (Changed: the block of a certificate is fetched without naming a replica.)
async_deliver_blk_CertOfNobody(s, b, p) ==
  LET known == s.delivered \cup Waiting(s)
      stops == Branch(b) \ (s.store \ known)
      run == {a \in Branch(b) : \A c \in stops : Height(c) < Height(a)}
      missing == {a \in stops \ known : \A c \in stops : Height(c) <= Height(a)}
      certs == {QcRef(a) : a \in run} \ s.store
  IN  [s EXCEPT !.opened = @ \cup run,
                !.checking = @ \cup {a \in run : QcRef(a) # b0},
                !.qcwait = @ \cup {a \in run : QcRef(a) \notin s.store},
                !.awaits = @ \cup (missing \X {p}),
                !.ctx = @ \cup missing \cup certs,
                !.asked = @ \cup (missing \X {p})]

\* async_deliver_blk(b, p): open b and, down its branch, the ancestors that
\* are stored too, up to the first one that is delivered, already waiting, or
\* has to be fetched from p.
async_deliver_blk(s, b, p) ==
  LET known == s.delivered \cup Waiting(s)
      stops == Branch(b) \ (s.store \ known)
      run == {a \in Branch(b) : \A c \in stops : Height(c) < Height(a)}
      missing == {a \in stops \ known : \A c \in stops : Height(c) <= Height(a)}
      certs == {QcRef(a) : a \in run} \ s.store
  IN  [s EXCEPT !.opened = @ \cup run,
                !.checking = @ \cup {a \in run : QcRef(a) # b0},
                !.qcwait = @ \cup {a \in run : QcRef(a) \notin s.store},
                !.awaits = @ \cup (missing \X {p}),
                !.ctx = @ \cup missing \cup certs,
                !.asked = @ \cup ((missing \cup certs) \X {p})]

\* The opened blocks that wait for nothing but their ancestors.
Clear(s) == s.opened \ (s.checking \cup s.refused \cup s.qcwait)

\* (Changed: a block waits for nothing but its own verification.)
Settle_Verified(s) ==
  LET done == s.opened \ (s.checking \cup s.refused)
  IN  [s EXCEPT !.delivered = @ \cup done, !.opened = @ \ done]

\* on_deliver_blk for every opened block of which verification, qc_ref and all
\* ancestors are there.
Settle(s) ==
  LET done == {b \in Clear(s) : Branch(b) \subseteq s.delivered \cup Clear(s)}
  IN  [s EXCEPT !.delivered = @ \cup done, !.opened = @ \ done]

\* (Changed: the entry that waited for the fetch is dropped.)
on_fetch_blk_Forgets(s, b) ==
  [s EXCEPT !.ctx = @ \ {b},
            !.asked = @ \ Of(@, b),
            !.owed = @ \ Of(@, b),
            !.awaits = @ \ Of(@, b),
            !.qcwait = {a \in @ : QcRef(a) # b}]

\* on_fetch_blk(b): resolve and forget the fetch of b, if there is one.
on_fetch_blk(s, b) ==
  LET s1 == [s EXCEPT !.ctx = @ \ {b},
                      !.asked = @ \ Of(@, b),
                      !.owed = @ \ Of(@, b),
                      !.awaits = @ \ Of(@, b),
                      !.qcwait = {a \in @ : QcRef(a) # b}]
  IN  IF b \notin s.ctx THEN s
      ELSE IF Of(s.awaits, b) = {} THEN s1
      ELSE async_deliver_blk(s1, b, (CHOOSE e \in Of(s.awaits, b) : TRUE)[2])

\* add_replica sends the request to the first replica of a context only.
NewRequests(r, s, t) ==
  {<<r, e[2], e[1]>> : e \in {f \in t.asked : Of(s.asked, f[1]) = {}}}

\* r's handler leaves the record t, and asks for what it has to fetch.
Becomes(r, new) ==
  \E t \in {new} :
    /\ rep' = [rep EXCEPT ![r] = Settle(t)]
    /\ reqs' = reqs \cup NewRequests(r, rep[r], t)

-----------------------------------------------------------------------------
(***************************************************************************)
(* The steps of the system.                                                *)
(***************************************************************************)

\* on_propose: the new block is stored and delivered at once.
Propose(r, b) ==
  /\ Author[b] = r
  /\ b \notin proposals
  /\ Parent(b) \in rep[r].delivered
  /\ rep' = [rep EXCEPT ![r].store = @ \cup {b}, ![r].delivered = @ \cup {b}]
  /\ proposals' = proposals \cup {b}
  /\ UNCHANGED <<reqs, resps, losses, restarts>>

\* (Changed: the ancestors are asked of any replica.)
ReceiveProposal_AskAny(r, b) ==
  /\ Author[b] # r
  /\ b \notin rep[r].delivered
  /\ \E p \in Replicas :
       Becomes(r, async_deliver_blk([rep[r] EXCEPT !.store = @ \cup {b}], b, p))
  /\ UNCHANGED <<proposals, resps, losses, restarts>>

\* propose_handler, for a block that is not delivered yet (otherwise the promise
\* is resolved at once).  Parsing the message stores the block.
ReceiveProposal(r, b) ==
  /\ Author[b] # r
  /\ b \notin rep[r].delivered
  /\ Becomes(r, async_deliver_blk([rep[r] EXCEPT !.store = @ \cup {b}], b, Author[b]))
  /\ UNCHANGED <<proposals, resps, losses, restarts>>

\* vote_handler: the vote of a replica that has b delivered, at b's proposer.
ReceiveVote(r, v, b) ==
  /\ Author[b] = r
  /\ b \in rep[v].delivered
  /\ b \notin rep[r].delivered
  /\ Becomes(r, async_deliver_blk(rep[r], b, v))
  /\ UNCHANGED <<proposals, resps, losses, restarts>>

\* req_blk_handler: answer, now or when the block has been fetched.
ReceiveReq(m) ==
  LET r == m[2] IN
  /\ m \in reqs
  /\ reqs' = reqs \ {m}
  /\ IF m[3] \in rep[r].store
     THEN /\ resps' = resps \cup {<<r, m[1], m[3]>>}
          /\ UNCHANGED rep
     ELSE /\ rep' = [rep EXCEPT ![r].ctx = @ \cup {m[3]},
                                ![r].owed = @ \cup {<<m[3], m[1]>>}]
          /\ UNCHANGED resps
  /\ UNCHANGED <<proposals, losses, restarts>>

\* resp_blk_handler.  Parsing the message stores the block.
ReceiveResp(m) ==
  LET r == m[2] IN
  /\ m \in resps
  /\ \E s \in {[rep[r] EXCEPT !.store = @ \cup {m[3]}]} : Becomes(r, on_fetch_blk(s, m[3]))
  /\ resps' = (resps \ {m})
                \cup {<<r, e[2], m[3]>> : e \in Of(rep[r].owed, m[3])}
  /\ UNCHANGED <<proposals, losses, restarts>>

\* (Changed: the timer of a fetch is not armed again.)
Timeout_Silent(r, b) ==
  /\ b \in rep[r].ctx
  /\ UNCHANGED vars

\* FetchContext::timeout_cb: ask everybody again.
Timeout(r, b) ==
  /\ b \in rep[r].ctx
  /\ reqs' = reqs \cup {<<r, e[2], b>> : e \in Of(rep[r].asked, b)}
  /\ UNCHANGED <<rep, proposals, resps, losses, restarts>>

\* (Changed: the result of the verification is ignored.)
Verified_Anything(r, b) ==
  /\ b \in rep[r].checking
  /\ Becomes(r, [rep[r] EXCEPT !.checking = @ \ {b}])
  /\ UNCHANGED <<proposals, resps, losses, restarts>>

\* A worker has checked the certificate in b.
Verified(r, b) ==
  /\ b \in rep[r].checking
  /\ Becomes(r, [rep[r] EXCEPT !.checking = @ \ {b},
                               !.refused = @ \cup ({b} \cap Invalid)])
  /\ UNCHANGED <<proposals, resps, losses, restarts>>

\* A connection breaks and takes a message with it.
Lose(m) ==
  /\ losses < MaxLosses
  /\ losses' = losses + 1
  /\ reqs' = reqs \ {m}
  /\ resps' = resps \ {m}
  /\ UNCHANGED <<rep, proposals, restarts>>

\* r starts again from nothing, on new connections.
Restart(r) ==
  /\ restarts < MaxRestarts
  /\ restarts' = restarts + 1
  /\ rep' = [rep EXCEPT ![r] = NewReplica]
  /\ reqs' = {m \in reqs : r \notin {m[1], m[2]}}
  /\ resps' = {m \in resps : r \notin {m[1], m[2]}}
  /\ UNCHANGED <<proposals, losses>>

Next ==
  \/ \E r \in Replicas, b \in Blocks : Propose(r, b)
  \/ \E r \in Replicas, b \in proposals : ReceiveProposal(r, b)
  \/ \E r, v \in Replicas, b \in proposals : ReceiveVote(r, v, b)
  \/ \E m \in reqs : ReceiveReq(m)
  \/ \E m \in resps : ReceiveResp(m)
  \/ \E r \in Replicas, b \in Blocks : Timeout(r, b) \/ Verified(r, b)
  \/ \E m \in reqs \cup resps : Lose(m)
  \/ \E r \in Replicas : Restart(r)

\* The event loop of every replica goes on: it handles a message that is not
\* lost, its timers expire, its workers finish.  Nothing is assumed once a
\* replica has restarted, where nothing is promised either.
Steady == restarts = 0

Fairness ==
  \A r \in Replicas :
    /\ WF_vars(Steady /\ \E m \in reqs : m[2] = r /\ ReceiveReq(m))
    /\ WF_vars(Steady /\ \E m \in resps : m[2] = r /\ ReceiveResp(m))
    /\ WF_vars(Steady /\ \E b \in rep[r].ctx : Timeout(r, b))
    /\ WF_vars(Steady /\ \E b \in rep[r].checking : Verified(r, b))

Spec == Init /\ [][Next]_vars /\ Fairness

-----------------------------------------------------------------------------
(***************************************************************************)
(* Correctness.                                                            *)
(***************************************************************************)

TypeOK ==
  /\ rep \in [Replicas -> Replica]
  /\ proposals \in SUBSET Blocks
  /\ reqs \in SUBSET Msg
  /\ resps \in SUBSET Msg
  /\ losses \in 0..MaxLosses
  /\ restarts \in 0..MaxRestarts

\* The assertion of on_deliver_blk (hotstuff.cpp:103) never fails: in whatever
\* order proposals, answers and verifications of a branch come, a block is
\* delivered after its parent, and only when it is stored.
ParentsFirst ==
  \A r \in Replicas :
    \A b \in rep[r].delivered \ {b0} :
      b \in rep[r].store /\ Parent(b) \in rep[r].delivered

\* A block whose certificate does not verify is delivered nowhere but at the
\* replica that made it, and with it nothing on top of it.
OnlyOwnInvalid(s, r) ==
  \A b \in s.delivered : \A a \in Branch(b) \cap Invalid :
    \E c \in Branch(b) \cap Blocks : Author[c] = r /\ a \in Branch(c)

InvalidStaysOut == \A r \in Replicas : OnlyOwnInvalid(rep[r], r)

\* Whatever a pending delivery waits for is itself under way: its fetch has a
\* context that asks the right replica, the block of its certificate is being
\* fetched, its parent is delivered or pending.  A pending delivery is never
\* one that has happened, nor one that has all it waits for.  (One whose certificate
\* was refused waits for nothing and stays as it is: hotstuff.cpp:195.)
Backed(s) ==
  /\ Waiting(s) \cap s.delivered = {}
  /\ \A e \in s.awaits : e[1] \in s.ctx /\ e \in s.asked
  /\ \A b \in s.qcwait : QcRef(b) \in s.ctx /\ Of(s.asked, QcRef(b)) # {}
  /\ \A b \in s.opened : Parent(b) \in s.delivered \cup Waiting(s)

NoneReady(s) == \A b \in s.opened : ~(Branch(b) \subseteq s.delivered \cup Clear(s))

WaitsAreBacked == \A r \in Replicas : Backed(rep[r]) /\ NoneReady(rep[r])

\* As long as no replica has restarted, nobody is asked for a block that it
\* does not hold: asking whoever sent a proposal or a vote is asking somebody
\* who has the whole branch.
AskedHasIt ==
  Steady => \A r \in Replicas : \A e \in rep[r].asked : e[1] \in rep[e[2]].store

\* Why all this holds.  About one replica r, when P has been proposed:
RepInv(s, r, P) ==
  /\ b0 \in s.delivered
  /\ s.delivered \subseteq s.store
  /\ s.store \subseteq P \cup {b0}
  /\ \A b \in s.delivered : Branch(b) \subseteq s.delivered
  /\ s.opened \subseteq s.store
  /\ s.checking \cup s.refused \cup s.qcwait \subseteq s.opened
  /\ s.opened \cap Invalid \subseteq s.checking \cup s.refused
  /\ \A e \in s.awaits : e[1] \in P \ s.opened
  /\ OnlyOwnInvalid(s, r)
  /\ Backed(s)

\* Blocks are proposed after their ancestors, responses carry proposed blocks,
\* and without a restart an author keeps the branches of its blocks and whoever
\* is asked has the whole branch.
GlobalInv ==
  /\ \A b \in proposals : Branch(b) \subseteq proposals \cup {b0}
  /\ \A m \in resps : m[3] \in proposals
  /\ Steady =>
       /\ \A b \in proposals : Branch(b) \subseteq rep[Author[b]].store
       /\ \A r \in Replicas : \A e \in rep[r].asked : Branch(e[1]) \subseteq rep[e[2]].store

\* The inductive invariant.
IInv ==
  /\ TypeOK
  /\ \A r \in Replicas : RepInv(rep[r], r, proposals) /\ NoneReady(rep[r])
  /\ GlobalInv

\* A delivery that has begun ends, although messages are lost, unless a
\* replica restarts or a certificate on the branch does not verify.
DeliveryEnds ==
  \A r \in Replicas, b \in Blocks :
    b \in Waiting(rep[r]) ~>
      b \in rep[r].delivered \/ ~Steady \/ Branch(b) \cap Invalid # {}

\* The blocks that consensus has seen, per replica.
seen == [r \in Replicas |-> rep[r].delivered]

\* Consensus sees the blocks as it may expect.
Feed == INSTANCE BlockFeed WITH
  Nodes <- Replicas,
  Genuine <- Block \ Invalid,
  created <- proposals \cup {b0},
  delivered <- seen

ImplementsFeed == Feed!Spec
=============================================================================
