# A verification project for general-hotstuff

general-hotstuff is a fork of libhotstuff: a replicated state machine with the
chained HotStuff protocol, here with generalized quorums (a formula over
replicas instead of a threshold) and threshold BLS signatures.  These TLA+
modules model the protocol that the code runs; TLC checks them on small
instances, and TLAPS proves for every instance the safety of the protocol, of block
delivery, of the way of commands and of the pacemakers, and that generalized quorums
and the certificates made with them are what their configuration says.

Paths below are relative to the repository.

## The system

| Part | Code | State | Operations | What makes it correct |
|---|---|---|---|---|
| Blocks and their storage | `include/hotstuff/entity.h`, `src/entity.cpp` | hash, parents, `qc_ref`, height, `delivered`, `decision`, `voted`, `self_qc`; caches by hash | create, serialize, verify, `add_blk`, `find_blk` | a hash determines the whole branch; one object per block |
| HotStuffCore | `src/consensus.cpp`, `consensus.h` | `hqc`, `b_lock`, `b_exec`, `vheight`, `tails`, callbacks | `on_deliver_blk`, `update`, `on_propose`, `on_receive_proposal`, `on_receive_vote`, `on_qc_finish` | replicas never commit conflicting blocks; no double votes; locks are respected |
| PMHighTail | `include/hotstuff/liveness.h` 55-130 | `hqc_tail` | callbacks on hqc, own and received proposals; `get_parents` | the parent of a new block extends the block its certificate is for |
| PMWaitQC, PaceMakerDummy(Fixed) | `liveness.h` 132-223 | `pending_beats`, `last_proposed`, `locked` | `beat`, `schedule_next`, `beat_resp` | a proposal per QC; no beat is lost |
| PMRoundRobinProposer | `liveness.h` 225-409 | `proposer`, `rotating`, `prop_blk`, timer, `exp_timeout`, promises | `rotate`, `stop_rotate`, `on_exp_timeout`, `on_consensus`, `impeach` | some correct proposer is eventually agreed on |
| HotStuffBase, delivery | `src/hotstuff.cpp` 40-255, `hotstuff.h` | `blk_fetch_waiting`, `blk_delivery_waiting`, fetch contexts with timers | `async_fetch_blk`, `async_deliver_blk`, message handlers | parents are delivered first, each block once, waiters are resolved |
| HotStuffBase, commands | `src/hotstuff.cpp` 40-60, 404-481 | `cmd_pending`, `cmd_pending_buffer`, `decision_waiting` | `exec_command`, batching, `do_decide` | a command is answered once, after it is executed |
| Quorums | `src/quorums.cpp`, `src/linalg_util.cpp` | formula (`Theta`), matrix `M`, labels `L`, factors `U`, `y` | parse, evaluate, insertion, PLU, recombination | formula and matrix accept the same groups |
| Client and application | `src/hotstuff_client.cpp`, `src/hotstuff_app.cpp` | `waiting`, connections, impeachment timer | send, count replies | a confirmed command has been executed |
| Cryptography and key tools | `src/crypto.cpp`, `*_keygen.cpp` | keys, shares, part certificates | deal, sign, combine, verify | a quorum's parts, and only a quorum's, combine to a valid certificate |
| Promises, worker pool | `promise.hpp`, `task.h` | callbacks, threads | `then`, `resolve`, verify | every callback runs once; modelled where they are used |

Interaction.  Everything of one replica except verification runs in the thread
of one event loop.  A client's command goes through `exec_command` into a
queue; a full batch asks the pacemaker for a *beat* and is proposed by
`on_propose`.  The proposal is broadcast; a receiver delivers the block's branch
(fetching what it misses), runs `update` and may vote; the vote returns to the
proposer, where a quorum of votes becomes a certificate that the next proposal
carries.  `update` raises hqc and the lock and commits; `do_consensus` tells the
pacemaker, `do_decide` answers clients.

What is hard here: several proposers at once, messages that are late, repeated
or reordered, callbacks that run inside a handler and change what the handler
has read, early returns that skip parts of `update`, replicas that crash and come
back without their state, timers, certificates checked by worker threads
while deliveries and fetches go on, messages lost with a connection, answers
that outlive the client that asked, and arithmetic over finite fields.
`PROJECT.json` lists each hazard at its line with the properties that watch it.

## The modules

```
          Ledger            the log that clients rely on
            ^ refined by
        ChainVoting         voting, locking and commit
            ^ refined by
        HotStuffCore        handlers, messages, parent selection
            | sees blocks as promised by
            v
        BlockFeed           blocks come parents first and verified
            ^ refined by
        Delivery            fetching, retries, workers, restarts

CommandService  <--refined by--  Commands         Quorums        Pacemaker
```

All of these but Ledger and the last line are built on **BlockTree**.  The modules with
proofs are BlockTreeProofs, ChainVotingProofs, HotStuffCoreProofs, DeliveryProofs,
CommandsProofs, PacemakerProofs, PacemakerLineProofs and QuorumsProofs.

**BlockTree** is the tree of blocks and the two rules that `update` derives from
a block alone.  A block's hash covers its parents, commands and certificate, so
a block is the sequence of the contents on its branch: `Height` is the length,
`Parent` drops the last content, `check_ancestry` is the loop of the same name.
A content records its certificate by the height of the block that is certified;
this is enough because that block lies on the parent's branch, which
`TailFollowsHqc` of HotStuffCore checks.  `LockOf(n)` and `CommitOf(n)` are the
blocks that `update(n)` may lock and commit; the constant `TwoStep` chooses
between the two builds (`HOTSTUFF_TWO_STEP`).

**Ledger** is what clients rely on: each replica's log of executed blocks only
grows at its end, and of two logs one is a prefix of the other.

**ChainVoting** is HotStuffCore without messages and leaders: the created blocks,
the votes cast, and `vheight`, `b_lock`, `b_exec` of each replica.  `Handle` is
one run of `update` followed by the voting rule; `Propose` and `Receive` are the
two ways in which the code calls them.  A certificate for a block exists when a
quorum has voted for it.  Replicas in `Faulty` create and vote as they like.
In this program a replica becomes faulty by a restart, because it persists
nothing (`TODO.rst`).  The assumption on quorums is the one that any such
protocol needs: two quorums share a replica that is not faulty.

**HotStuffCore** is the program's class with PMHighTail, one per replica.  The
state of a replica is a record with the code's fields; `Block::delivered`,
`decision` and `voted` become sets.  Handlers that call one another in the code
are operators on that record, composed in the same order, and one action is one
whole handler:

| Action | Code |
|---|---|
| `Propose` | `on_propose` with `get_parents()`: create, deliver, `update`, the height test, own vote, PMHighTail's callback, broadcast |
| `ReceiveProposal` | `propose_handler`: deliver the branch, `update`, opinion, PMHighTail's callback, vote |
| `ReceiveVote` | `vote_handler` and `on_receive_vote`, including `update_hqc` and its callback |
| `DeliverBlk` | `async_deliver_blk` delivers an ancestor before the proposal itself is complete |

The sets of proposals and votes only grow, so any message may be late, repeated,
reordered or never handled; a crashed replica takes no more steps.  An uncaught
exception of the code stops its replica (`halted`).  `std::set` orders blocks by
address, so PMHighTail's choice among equally high tails is left open.

Mutated forms that bear the mark "(Changed: ...)" stand before the
definitions that they replace; no specification uses them.

Abstractions: commands are opaque; a signature is the fact that its replica
voted; all blocks come from `on_propose`, with hqc as certificate; `prune` (never called) and
`vote_disabled` (never set) are left out; the continuations
of `on_qc_finish` are pacemaker code, which here is the freedom to propose
between any two handlers (in the code a proposal can also start inside
`on_receive_proposal`, at line 222, between `update` and the vote).

HotStuffCore creates, delivers and knows blocks as BlockFeed promises
(`ImplementsFeed`), and Delivery keeps that promise; so the two meet at one
interface, as they do in `async_deliver_blk` and `on_deliver_blk`.

**BlockFeed** is what consensus is promised about the blocks it sees: a block
comes to a replica after its parent, after a replica made it that had the
parent, and with a certificate that has been verified unless the replica made it
itself.

**Delivery** is HotStuffBase from an incoming message to `on_deliver_blk`, over
the storage of blocks and the pool of verifying workers.  One record per replica
holds what the code keeps in tables and promises:

| Field | Code |
|---|---|
| `store`, `delivered` | `EntityStorage::blk_cache`, `Block::delivered` |
| `ctx`, `asked` | the keys of `blk_fetch_waiting`, `FetchContext::replicas` |
| `owed` | the continuations of `req_blk_handler` on a fetch |
| `awaits`, `opened` | the keys of `blk_delivery_waiting`: waiting for the fetch, or past it |
| `checking`, `refused`, `qcwait` | the pending members of the `promise::all` of a delivery: verification (unfinished, failed), the block of the certificate |

A promise that is resolved runs its continuations at once, and these resolve
others: one answer may open a whole branch of deliveries, and one verification
complete it.  `async_deliver_blk` and `Settle` say in one step where that ends.

| Action | Code |
|---|---|
| `Propose` | `on_propose` as far as storage and delivery are concerned |
| `ReceiveProposal`, `ReceiveVote` | `propose_handler`, `vote_handler`: deliver the branch, fetching from the sender |
| `ReceiveReq`, `ReceiveResp` | `req_blk_handler`, `resp_blk_handler` with `on_fetch_blk` |
| `Timeout` | `FetchContext::timeout_cb`: ask everybody again |
| `Verified` | a worker's answer about a certificate |
| `Lose`, `Restart` | a connection breaks; a replica starts again with nothing |

Requests and answers that are equal and in flight together count as one; the
timers repeat them any number of times.

**CommandService** is what a client is promised: its command is executed at most
once, in one order for all (`log`, the batches executed so far), and reported as
confirmed only after it has been executed.

**Commands** is the way of a command and back: the client's window, the
proposer's queue, buffer and batches, `decision_waiting` of every replica,
execution, answers and their counting.  Consensus is taken as one chain of
blocks, which is what a fixed proposer makes of it; a replica that handles block
k commits the blocks up to k - `Depth`.  Connections keep their order, and
clients send to every replica.

| Action | Code |
|---|---|
| `ClientStart`, `ClientRestart` | `main` of the client: same id and numbers from 0 |
| `HandleAnswer` | `client_resp_cmd_handler`, with `try_send` |
| `HandleRequest` | `client_request_cmd_handler`, `exec_command` and the handler of `cmd_pending` |
| `Propose` | a resolved beat: `on_propose` of the next batch |
| `ReceiveBlock` | `on_receive_proposal` with `do_decide` of every command that it commits |

The code counts replies and the model the repliers of a command; as no replica
answers a request twice (`AnsweredOnce`) these are the same number.

**Quorums** is the access structure of generalized quorums and what depends on
it.  A configuration (`quorums.json`) is parsed into a formula by `from_json`,
which separates replicas from nested formulas; `evalFomula` decides whether the
voters of a block are a quorum.  The key generator shares the secret key with a
monotone span program that `insertNextTheta` makes of the same formula; the
parts of a quorum are recombined with a vector that comes from a PLU
factorization at the start and a Gauss elimination per certificate.  Each
operator is the function of its name, over GF(P) for a prime P; shares stand
for the signatures made with them, in which recombination is linear.  In the build
without `USE_GENERALIZED_QUORUMS` votes are counted (`QuorumSize`), which is the formula
of a threshold; `share` deals out the values of a polynomial with `KeyThreshold`
coefficients, and `compute` calls `recoverThreshSig`, which interpolates over all parts
of the voters (`Weight` is the library's part of it), where `recoverGenThreshSig` meets
the shares by row with the recombination vector and skips empty ones.  `Confs` has a
field for the build, and `BuildAssumption` says what it fixes.  A
configuration is the list of its formulas in the order in which the text opens them,
and a nested one is named by its place in the list (`IsListing`); what the code does
by recursion over the tree or in a loop is a recursive function over such a list
or over the rows and columns of a matrix.  `Vote` is
`on_receive_vote` for one block: votes arrive in any order until a quorum is
reached and the certificate is computed.  The reference is `Satisfied`, the
meaning of the configuration itself.  It is not composed with the modules
above: these take the quorums as a constant and assume that any two of them
meet in a correct replica.  For the build with thresholds `ThresholdQuorumsMeet`
proves it.  Nothing in the code checks that a configuration has
this property (`conf/quorum_confs/unbalanced_7.json` has disjoint quorums,
{0, 4} and {1, 5}).

**Pacemaker** is one replica's pacemaker with the commands it paces: PMWaitQC
with a fixed proposer (kind "dummy") and PMRoundRobinProposer (kind "rr").  Its
hard part is promises.  `async_qc_finish(b)` gives all callers the same promise
for block b, so `pm_qc_finish.reject()` also rejects what `pm_qc_manual` waits
for; resolving it runs its continuations inside the vote handler, where they
propose, register and reject further promises.  A promise has at most two
continuations, a beat's and that of `do_new_consensus` (`PromiseInv`, an invariant),
so `QcFinish` runs two.  A replica that is not the proposer
may hold the lock, as the code's does; it matters when it is elected.  The fields
are one record, each function of the code an operator on it, and an action is an
event of the loop with all that it sets off:

| Action | Code |
|---|---|
| `ExecCommand` | the handler of `cmd_pending`: batch, `beat()`, and at once `on_propose` if the beat is due |
| `QcFinish` | the vote that completes a quorum for an own block: `on_qc_finish` and its continuations |
| `ReceiveProposal` | another replica's block: delivered, `update`, decisions, `prop_blk` |
| `FetchBlk` | another replica's block is delivered as an ancestor or for a vote; its proposal is still on its way |
| `ReceiveLate` | that proposal arrives, perhaps in a later term: `update`, decisions, `prop_blk` |
| `Impeach` | the application's timer: `rotate` unless rotating |
| `OnExpTimeout`, `PropTimeout` | the two uses of `timer` |
| `Elected` | the call that `stop_rotate` leaves to the event loop: re-propose `decision_waiting` |

`on_propose` runs `update`, which may decide blocks, which may end the rotation
(`stop_rotate`), before the callbacks on the proposal; all of this is inside
the operator.  The other replicas propose anything at any time, but on top of
one chain: forks are HotStuffCore's matter.  Votes for a block go to its proposer
(`beat_resp`), so the certificate in a received block is one that
the chain carries already or one for an own block of its proposer.  `on_consensus`
takes the blocks of one commit together; the timer and `prop_blk` end up
as they do one by one.  There are at least two replicas: a single one would be
a quorum by itself.  Votes for own blocks arrive in any order.
How long a timeout lasts is left out.  `beats` and `heard` are history: the commands
handed to `beat()`, and the blocks proposed or received, in this term.

A block can be in the chain before its proposal is handled (`unheard`), so a proposal
made in one term may be handled in a later one, after `rotate` has cleared `prop_blk`;
its decision then ends the rotation.  `SettlesOnNewBlock` therefore says what the code
does ensure: a rotation ends on a block of the replica that is then the proposer, and one that this
replica proposed or received since the rotation began, never on one that it knows of an
earlier term or only from the blocks on top of it.  `MaxUnheard` bounds the proposals
that are late at one time; the theorems are for any number.

`Line` is the way of commands through a fixed proposer, as a sequence of batches:
those in blocks, the beat on the promise of the last block, the beats in the
queue, the buffer.  `EachOnce` says that every command received is in it, once;
`InOrder` that it only moves on.

**MCChainVoting**, **MCHotStuffCore**, **MCDelivery**, **MCCommands**,
**MCQuorums** and **MCPacemaker** hold the instances: trees of blocks, authors,
quorums and symmetry; configurations; commands.

## What the runs check

A bound is a finite set `Blocks` of blocks that may be created.  Trees of blocks
are chosen so that the dangerous cases fit: two branches that can both commit,
a branch that overtakes the other one's lock, certificates that skip blocks.
Runs stop when no block is left, hence `CHECK_DEADLOCK FALSE`.

| Run | Instance | Shows |
|---|---|---|
| `voting` | 3 replicas, quorums {r1, r2} and {r1, r3}, r3 faulty, two branches, `TwoStep` | `IInv` (the invariant of the proofs, with `LockInv` and `NoBreach`), `Agreement`, `UniqueCertificate`, `DecisionIsFinal`, refinement of Ledger |
| `core` | 2 proposers of 3 replicas, default build, four branches | `CoreInv`, `HqcCertified`, `NoEquivocation`, `TailFollowsHqc`, `TailsAreLeaves`, `NoSafetyBreach`, `DecisionIsBranch`, `HqcAboveLock`; that it refines ChainVoting and Ledger and uses BlockFeed |
| `core_proposer_height` | as `core` | a counterexample, see below |
| `quorums` | 148 configurations, 6 replicas, P = 101; one is the counting of the build without generalized quorums | `QuorumIsConf`, `CertIffQuorum`, `CertVerifies`, `FactorsMultiply` |
| `quorums_threshold_build` | the build without generalized quorums, 6 replicas | a counterexample, see below |
| `quorums_small_modulus` | any three of five replicas, P = 5 | a counterexample, see below |
| `pacemakers` | both kinds, two replicas, three commands in blocks of one, up to 4 blocks before a handler, one late proposal at a time | `IInv` (the invariant of the proofs), `LockHasBeat`, `QcBeforeBeat`, `OneManualChain`, `EachOnce`, `SettlesOnNewBlock`, `InOrder`, `EventuallyProposed` |
| `pacemaker_beat` | "rr", proposer among two replicas, five commands | a counterexample, see below |
| `pacemaker_timer` | "rr", third of three replicas, two commands | a counterexample, see below |
| `delivery` | three proposers on one branch whose last block is invalid, one lost message, one restart | `IInv`, `ParentsFirst`, `InvalidStaysOut`, `WaitsAreBacked`, `AskedHasIt`, `DeliveryEnds`, refinement of BlockFeed |
| `commands` | 4 replicas, one down, window 8, blocks of 2, 9 commands, default build | `IInv` (the invariant of the proofs), `ConfirmedIsExecuted`, `AnsweredOnce`, `CommandsAreConfirmed`, refinement of CommandService |
| `commands_restart` | a client that is killed once, `TwoStep` | a counterexample, see below |

Three replicas with quorums of two are the smallest system whose quorums meet in
a replica that may have voted differently for each.  `core` takes any two of
them.  `voting` uses a generalized quorum, r1 with one of the others, because r3 was
restarted, remembers nothing and may vote for anything at any time: quorums must meet
in a replica that does remember.  With thresholds that takes a fourth
replica and several times the states; the theorems below are for any quorums
that meet so.  Heights up to 5 are what one
commit and one attempt to overtake it take.  In the tree of `voting` the x branch
commits its first block; the y branch certifies nothing until its fourth block,
where the vheight rule no longer stops it and only the lock does.  The tree of
`core` has a branch that commits two blocks, one that can commit against it, one
with a skipped certificate and a fork above a common block.  It runs the three-step build, the
default; the theorems hold for both builds and any tree.

The one branch of `delivery` has a different author for each block, so that every
block but the first is built on one that may still have to be fetched, and its last
block certifies not its parent but the first one: a delivery can wait for its
fetch, for the block of its certificate, for its parent and for a worker.
Messages are otherwise reordered and late at will.  Its fairness is that of
running processes: messages that are not lost are handled, timers expire, workers
finish, each per replica.  A proposal need not ever be handled; `DeliveryEnds`
speaks of deliveries that have begun.  It claims nothing once a replica has
restarted, for whoever is asked may have forgotten the block, nor above an invalid
certificate, where the code leaves the delivery pending for good
(`src/hotstuff.cpp:195`).

In `commands` the window just fills the pipeline of four blocks (`Depth` + 1), and
nine commands make it slide once; the replica that is down makes every quorum
need all others.  Its fairness is that every live process goes on and
connections deliver.  `CommandsAreConfirmed` speaks of commands that enough
others follow, as the last `Depth` blocks of a chain do not commit.  It also excludes
`Late` requests: a replica that executes a command before it hears of the request
(`src/hotstuff.cpp:458`) never answers it, and when too few replicas are left
that do, the client's window stays full.  That, and a window
of less than `Depth` + 1 blocks, are real ways to a standstill.  The demo
client's window is 3 commands in blocks of one (`scripts/run_demo_client.sh:8`,
`hotstuff.conf`), where a fixed proposer of the default build needs 4; the round
robin pacemaker of that demo gets on by impeachments.  The restart of a client is a specification of its
own, `RestartSpec`.

The configurations of `quorums` are all thresholds up to 4 of 4, two nested
thresholds beside a replica at each place and with overlapping members, formulas
nested twice, and two of the shipped files; matrices are up to 9 rows, which is
enough for pivots to be missing, rows to be swapped and free variables to
appear.  Voters are the groups that the votes pass through: every group that
is not a quorum, and quorums at the moment they are reached.  The random vector
is fixed and gives no replica a share that is 0, which `recoverGenThreshSig`
would mistake for a missing one; with a modulus of 255 bits that does not occur.
P = 101 is the modulus of the builds without BLS signatures.  That no group is
accepted by an accident of a field, as long as its points differ, is `AuthorizedIffConf`.

`pacemakers` uses the `TwoStep` build, in which a rotation ends two blocks
after the first one of its proposer.  The bound leaves room for a term with
beats, a rotation, the election with its re-proposal, and a second rotation; the
counterexamples are of the default build.  Blocks of one command make the most
of the beats and leave the buffer empty; larger ones are in `commands`, and the
theorems are for any size.  Its fairness is that votes for own blocks
arrive in the end, and is assumed of the fixed proposer only: with it,
`EventuallyProposed` needs nothing else, neither timers nor new commands.  The
code justifies it as far as the network does: every replica answers a proposal
with a vote (`on_receive_proposal`), and a fixed proposer makes no forks.  Of "rr"
no liveness is claimed; the two counterexamples say why.

### Findings

`core_proposer_height` violates `ProposesAboveVheight`: the exception "new block
should be higher than vheight" (`src/consensus.cpp:181`) is reachable when two
replicas propose, which `liveness.h:195` allows ("everyone can be a proposer at
any moment").  Replica r1 proposes x1 and x1-y2; r2 proposes y1, then votes for
r1's block of height 2; the votes for y1 arrive, hqc becomes y1 and PMHighTail
takes y1 as parent; r2's next block has height 2, not above its vheight.  Nobody
catches the exception.  `NoEquivocation` shows what the test is good for: without
it that replica would broadcast two blocks of one height.

`quorums_threshold_build` violates `ValidIffQuorum`, which `src/crypto.cpp:86` says of
certificates ("the thresh. sig. will be valid iff  a quorum has signed").  With 6
replicas a quorum is n - (n - 1) / 3 = 5 votes (`src/hotstuff.cpp:440`), but the
key generator shares the key with threshold n - n / 3 = 4
(`src/hotstuff_keygen.cpp:129`), so the parts of four replicas are interpolated to a
signature that verifies.  The two agree when 3 does not divide n.  No replica that
follows the code makes such a certificate, as each one counts votes itself; the
certificates that are made verify (`ThresholdCertVerifies`), and any two groups that can
make one still share a correct replica (`ThresholdQuorumsMeet`).

`quorums_small_modulus` violates `CertIffQuorum`.  Matrix and formula are two forms
of the same quorums ("encoded as an MSP, otherwise as a boolean formula",
`CMakeLists.txt:114`), but `getVandermonde` (`src/quorums.cpp:87`) numbers the members
of a formula without regard to the modulus.  That is 101 in a replica without
BLS signatures (`src/hotstuff_app.cpp:167`) and in every client
(`src/hotstuff_client.cpp:143`), and `conf/quorum_confs` has formulas of 101 members
and more.  The 101st gets the point 0 and with it a row that is the secret itself:
where any 51 of 101 are a quorum, the last replica is one alone when
`GENERALIZED_QUORUMS_WITH_MSP` is on.  The run shows it on a small scale, any 3 of 5
modulo 5; with the numbers of the file TLC finds the same, but needs a larger stack
than it has by default (`-Xss8m`).  The proof of `AuthorizedIffConf` asked for
the condition that fails here.

`pacemaker_beat` violates `BeatKept`: a beat of the round robin pacemaker can be
lost (`liveness.h:271`; `liveness.h:38` promises "a promise resolved when the pace
maker thinks it is a *good* time to issue new commands").  A proposer elected
while commands wait re-proposes them with `do_new_consensus`.  From then on a
certificate resolves two continuations: the first proposes a waiting batch and
puts the next beat on the certificate of that block; the second proposes an
empty block, which counts as the proposal of a beat as well, so that the beat
after the next is scheduled and the promise that the next one waits for is
rejected.  The commands of that batch wait until the next election.

`pacemaker_timer` violates `RotationTimed`: a replica that rotates away from a
slow proposer receives one more of its blocks, which decides another;
`on_consensus` deletes the timer (`liveness.h:360`), but the block is not the new
proposer's, so `rotating` stays true.  From then on `impeach()` ("Impeach the current
proposer", `liveness.h:52`) does nothing, and if the new proposer is down the
replica waits for ever.

`commands_restart` violates `ConfirmedIsExecuted`: a replica that still waits for
the decision of a command answers a repeated request at once with decision 0
(`src/hotstuff.cpp:461`), and the client counts every reply
(`src/hotstuff_client.cpp:112`, "wait for f + 1 ack").  A client that is killed and
run again, which `scripts/run_demo_client.sh:4` invites to, uses the same
numbers and so reports commands that nobody has executed.

Some smaller observations.  A promise of `async_fetch_blk` is resolved by
`resp_blk_handler` only, so a fetch goes on asking although a proposal has brought the
block meanwhile (`src/hotstuff.cpp:205`); as `DeliveryEnds` holds, this costs time and
messages only.  `on_exp_timeout`
sets the timer even when its own proposal has just ended the rotation, which
starts another one; and the call that an election leaves to the event loop does not
look whether the replica is still the proposer.  A proposal that its proposer made in an
earlier term and that arrives after `rotate` enters `prop_blk` (`liveness.h:262`): its decision ends the
rotation before the proposer has shown a sign of life, and if the block has been
fetched and decided before, it keeps the place of the proposer's later blocks, so that none of
them ends this rotation.  No document says that a late proposal must not count, and a
replica cannot tell when a block was made.

## What is proved

`BlockTreeProofs` has the facts about branches: ancestry is reflexive,
transitive and antisymmetric, the ancestors of a block form a chain, `LockOf`
and `CommitOf` are ancestors.  The proofs about voting, handlers and delivery rest on
it.  All theorems hold for both builds, and for any replicas and blocks or commands.

**Voting.**  `ChainVotingProofs` proves

- `Invariance`: `IInv` is an invariant; `TypeCorrect` is its typing part;
- `AgreementHolds`, `NoBreachHolds`, `UniqueCertificateHolds`,
  `DecisionIsFinalHolds`, `LockInvHolds`: the properties of the same names;
- `LedgerImplemented`: `Spec => ImplementsLedger`.

Why an invariant of its own: `Agreement` speaks of the ends of long histories and
says nothing of votes.  `IInv` adds what each step preserves.  `ChainInv`: blocks certify
proper ancestors.  `VoteInv`: votes of a correct replica are at different
heights, at most `vheight`, and each has raised the lock as far as its block
asked.  `VoteOrderInv` is the heart: when a correct replica voted for z and for
the higher w, then w certifies a block higher than LockOf(z), or extends a certified
block that is at least as high.  `LockInv`
and `ExecInv` tie lock and execution to certificates.  `FinalLemma` then shows
DecisionIsFinal by induction on heights: take the lowest certified block that
is not lower than, and not above, a final block; a replica in both quorums
voted for it and for the top of the final chain, and in either order one of its
certified ancestors is a lower such block.  That two replicas' executed blocks
never conflict, and that update() never throws, follow from it.

**Handlers.**  `HotStuffCoreProofs` proves

- `CoreInvariance`, and from it `HqcCertifiedHolds`, `NoEquivocationHolds`,
  `HqcAboveLockHolds`, `TailFollowsHqcHolds`, `TailsAreLeavesHolds`,
  `DecisionIsBranchHolds`, `NoSafetyBreachHolds`;
- `VotingImplemented`: `Spec => ImplementsVoting`, HotStuffCore refines ChainVoting;
- `LedgerImplemented`: `Spec => ImplementsLedger`, so its replicas execute prefixes
  of one log, whatever the order of handlers and messages;
- `FeedUsed`: `Spec => ImplementsFeed`, it uses blocks as BlockFeed promises.

`CoreInv` alone is not inductive: that a commit never throws is agreement, which
is ChainVoting's.  So the proof carries `FullInv`, which is `CoreInv` together with
ChainVoting's `IInv` under the refinement mapping (the instance `VP`), and the two
halves use each other: a handler keeps `CoreInv` because its step is one of
ChainVoting, from states in which `IInv` holds, and it is one of ChainVoting
because `CoreInv` says that `decision` is the branch of `b_exec`, that hqc is
certified and that hqc_tail extends it.  The lemmas go function by function
(`DeliverKeeps`, `UpdateHqcKeeps`, `UpdateKeeps`, `ConsiderKeeps`, `CountKeeps`, `CreateKeeps`),
then handler by handler (`DeliverBlkStep`, `ReceiveVoteStep`, `ReceiveProposalStep`,
`ProposeStep`).  By `VotingImplemented` the theorems about ChainVoting hold of the
handlers, agreement and the ledger first of all.

**Delivery.**  `DeliveryProofs` proves

- `DeliveryInvariance`, and from it `ParentsFirstHolds`, `InvalidStaysOutHolds`,
  `WaitsAreBackedHolds`, `AskedHasItHolds`;
- `FeedImplemented`: `Spec => ImplementsFeed`, Delivery keeps what BlockFeed promises.

Its `IInv` says of each replica (`RepInv`) that delivered blocks come with their
branches, that an invalid block which is opened is still being checked or has been
refused, that whatever a delivery waits for is under way (`Backed`; a refused delivery is left pending and waits for nothing), and that
nothing is left that could be delivered (`NoneReady`); and of all replicas (`GlobalInv`)
that whoever is asked for a block has its whole branch.  `NoneReady` is broken
inside every handler and restored by `Settle` at its end; hence `OpenKeeps` and
`FetchKeeps` are about `RepInv` alone and `SettleKeeps` adds `NoneReady`.

**Commands.**  `CommandsProofs` proves

- `CommandsInvariance`, and from it `ConfirmedIsExecutedHolds`, `AnsweredOnceHolds`;
- `ServiceImplemented`: `Spec => ImplementsService`.

`ConfirmedIsExecuted` needs to know where the client's replies come from, and that
needs the whole way: `ClientInv`, the client numbers its requests without gaps;
`AnswerInv`, an answer on the way or counted comes from a live replica that has
executed the command and has no open request for it left (of which `AnsweredOnce` is the
part about answers: none twice, none before execution); `ChainInv`, the proposer
is the replica that is ahead.  For the service, a command must be in one place only:
`PipelineInv` says that blocks, beats and buffer, one after the other, hold
increasing numbers of commands that the proposer has heard.  The specification is
that of a client that is not restarted; `commands_restart` shows why.

**Pacemakers.**  `PacemakerProofs` proves

- `PacemakerInvariance`, and from it `LockHasBeatHolds`, `QcBeforeBeatHolds`,
  `OneManualChainHolds`;
- `SettlesOnNewBlockHolds`: `Spec => SettlesOnNewBlock`, a property of steps.

`LockHasBeat` is not inductive by itself.  A proposer takes the lock when a beat is
scheduled, and the promise that the beat then waits for could have been rejected
before, by a handler that knows nothing of beats: `FreeInv` says of the free
lock that the promise of `last_proposed` is alive, has no beat, and is not the one
that `pm_qc_finish` is about to reject.  `PromiseInv` bounds the callbacks of a promise, one of each kind,
and ties that of `do_new_consensus` to `pm_qc_manual`; hence there is one sequence of empty blocks,
and a certificate finds what waits for it.
`TermInv` keeps the lock out of rotations, and in `prop_blk` only blocks of their
proposers that were proposed or received in this term, however late they came, which is
`SettlesOnNewBlock`.  `DummyInv` is what a fixed proposer has on top: all its
blocks but the last are certified, and no timer, rotation or election ever starts.
Inside a handler `FreeInv` and `LockHasBeat` are broken and repaired, so the lemmas
are about records and follow the code's calls: promises (`RejectFacts`, `OnQcFacts`),
`update` (`UpdateFacts`), a proposal (`ScheduleFacts`, `ExtendFacts`,
`ProposeFacts`), what calls it (`NewConsensusFacts`, `BeatFacts`, `ResumeFacts`), other
replicas' blocks (`OthersBlockFacts`), the steps.

`PacemakerLineProofs` proves, of a fixed proposer,

- `EachOnceHolds`: no command is lost, none is proposed twice;
- `InOrderHolds`: no batch overtakes another one.

Its lemmas say what each function makes of the `Queue` of batches: `schedule_next` and a
certificate leave it as it is (`ScheduleLine`, `QcFinishLine`), `beat` appends to
it (`BeatLine`), although it goes one of three ways.  Of round robin neither holds:
`pacemaker_beat` loses a batch, and `stop_rotate` proposes commands again.

**Quorums.**  `QuorumsProofs` proves, for every prime modulus, tree of thresholds and
vector of coins,

- `QuorumIsConfHolds`: parsing and evaluation accept the voters that the
  configuration accepts; `QuorumsGrow`: every group that contains a quorum is one;
- `FactorsMultiplyHolds`: PLU factors the matrix, whatever rows it swaps;
- `AuthorizedIffConf`: the matrix that the insertion algorithm makes of a
  configuration accepts the voters exactly when the configuration does, and so
  `CertIffQuorumHolds`: with generalized quorums a group can make a certificate exactly
  when it is a quorum;
- `CertVerifiesHolds`: the certificate of a quorum is the signature under the secret
  key, in both builds; `ThresholdCertVerifies` is the part about the build with thresholds;
- `ThresholdQuorumsMeet`: in that build two quorums, or groups that can make a
  certificate, have a correct replica in common.

Their conditions are in the statements.  `PointsDiffer`: no formula has as many members
as the modulus; the counterexample above shows what happens otherwise.
`NoShareIsZero`, with generalized quorums only: `recoverGenThreshSig` takes a share that
is 0 for a missing one.  In the build with thresholds `PointsDiffer` says that there are fewer
replicas than the modulus, and nothing else is asked.

The variables hardly change (`AccInv`: the access structure is that of the
configuration; `CertInv`: the certificate was recovered from votes that are there), so
the work is about the functions.

*Elimination.*  `FactoredBy` is the invariant of PLU's columns: permutation
times matrix is L times what is reduced so far, L having ones on its diagonal.  `IsEchelon` adds that each
pivot is alone below itself and that rows past the last pivot are zero so far.
From both, substitution forward and backward solve what they should (`ForwardSolves`,
`BackwardSolves`), the two ranks are equal exactly when there is a solution, and
`Recombination` says that a group is accepted exactly when its rows of M
have a combination that gives (1, 0, ..., 0), which the recombination vector then is.
`RecoveredShares` is about the order of the shares, `SecretRecovered` puts both
together.

*Interpolation.*  For the build with thresholds: weights on the points of a group whose
sum is 1 and whose higher moments vanish give back the first coefficient of every
polynomial that is short enough, and `EnoughPoints` (below) has such weights.
`LagrangeStep` takes one point away after the other, until `LagrangePoints` knows them to be the products
that `recoverThreshSig` computes.  `Interpolation` says what these make of the dealer's
values, and `ThresholdCert` that a quorum has enough of them.

*Insertion.*  `SpanInv` is the invariant of its steps: the matrix so far accepts a group
exactly when the first formula holds, if rows which still wait for their formula
(`IsPending`) count as owned where that formula holds.  `PendingStep` is why the place
of the next insertion is always that of the formula next in the text.  One step
replaces a row by a Vandermonde block (`IsGrown`), and the group's share of the block
by the row itself when enough of it is there (`IsFolded`).  Such a step changes nothing
for the others: `SpansShrink`, because weights on fewer than w points have the sum 0 when
their moments 1 to w - 1 vanish (`FewPoints`), and `SpansExtend`, because w points
suffice for weights of the sum 1 whose moments 1 to w - 1 vanish (`EnoughPoints`).
`MspSpans` is the result.

The functions are recursive, and the library's induction theorems
take operators, which these provers cannot instantiate.  The module therefore proves
that a set of numbers without a least element is empty (`LeastNatural`), gets from it
an induction rule about sets (`InductionOnNat`), and for each recursive function
that it exists and what its next value is (`TotalStep`, `AscendingStep`,
`PowerStep`, `BuildStep`, `MetExists` and others).

**Only model-checked.**  Liveness (`DeliveryEnds`, `CommandsAreConfirmed`,
`EventuallyProposed`) under fairness is out of the prover's reach.  The safety
properties and steps that the passing runs check are all proved, those of Quorums
under the conditions above.

**Assumptions**, all named ASSUMEs that the runs evaluate: any two quorums
share a correct replica, and HotStuffCore has at least one quorum; `Faulty` is a set of replicas;
`Blocks` are blocks of the tree other than the genesis block; in Delivery every
block of `Blocks` comes with its branch, has an author, certifies a proper ancestor, and an
invalid certificate is not that for the genesis block, which nobody checks;
`TwoStep` is a Boolean.  Commands assumes that more than twice `nfaulty` replicas
are up, the proposer among them, and positive sizes of batch and window; Pacemaker
two or more replicas and a positive batch size.  Quorums assumes that P is prime, that
configurations are lists as described above, that replicas are numbered from 1 and count
in the build without generalized quorums, and that the dealer draws a coin from the field
for each column or coefficient.  The theorems about HotStuffCore have no faulty
replicas: its handlers are those of the code.

## Not modelled

What is left of the program's own logic, about 6,000 lines:

- Elections and commands together.  `stop_rotate` proposes the commands of
  `decision_waiting` again although an earlier block with them may still commit, so that
  they are executed twice.  Pacemaker has the re-proposal but does not follow
  executions, Commands follows them under a fixed proposer; both together are too
  large for the model checker.
- Several replicas with round robin pacemakers together: whether they settle on
  one proposer depends on how long timeouts last.
- Delivery after a restart promises safety only; that a restarted replica
  catches up depends on who is asked.
- The other way to count answers in the client: in the build with generalized
  quorums an authorized group of repliers takes the place of f + 1.
- Serialization, the command cache, and `prune`, which is never called.

Left out for good: signatures and pairings (`crypto.cpp`), the tools' command lines,
sockets and TLS, option parsing, statistics and logging.  Most lines of the
repository, some 120,000, are the MIRACL Core library in `src/miracl_core`, a vendored
and generated library of curves that only a test program uses; it has no state and
no concurrency, and arithmetic on numbers of several hundred bits is not a matter for
a model checker.
