# TLA+ models of the Qumbra lab node

This directory holds TLA+ specifications of the consensus core of the Qumbra lab
repository (`src/`), of the node parts around it and of one service, the TLC configurations that check them on small instances,
and TLAPS proofs of their main safety properties. `PROJECT.json` lists the
components, the runs, the line ranges behind every definition, the hazards the
properties are aimed at, the findings and the theorems.

## 1. The system

A Qumbra network is a proof-of-work chain with a finality committee on top.

| Part | State | Operations | Where |
|---|---|---|---|
| fork choice | header tree, tip, height index, finalized head | insert header, set / restore finalized | `qlab-devnet/src/chain.rs` |
| committee | roster, votes, never-double-sign ledgers and their files | sign, persist, announce, finalize, restart | `committee.rs`, `finality.rs`, `qlab-node/src/recovery.rs`, `qumbra-node/src/run.rs` |
| vote ingest | bounded tally, signing window, jails, tombstones, epochs | add votes, prune, jail, tombstone, roll epoch | `tally.rs`, `epoch.rs`, `qlab-p2p/src/adapter.rs`, `punish.rs` |
| adapter | fork choice, tracker, state machine, held bodies | ingest header, block, votes; drain; rewind | `qlab-p2p/src/adapter.rs` |
| state machine | applied chain, finalized head, block log, snapshot | apply, finalize, rewind, replay | `qlab-node/src/node.rs`, `store.rs`, `persist.rs` |
| p2p node | peers, sync phase, checkpoint span buffer, body requests | handshake, headers, bodies, gossip, fallback | `qlab-p2p/src/node.rs`, `sync.rs`, `bodywait.rs` |
| mempool, names, emission | pooled transactions, name registry, supply | admit, evict, connect | `qlab-node/src/mempool.rs`, `name_registry.rs`, `emission.rs` |
| halt schedule | release rules by height | gate mining, signing, accepting | `halt.rs`, `release.rs` |
| prover service | jobs, queue, paid ledger; landed nullifiers and their file | admit, prove, post, cancel, expire; poll, roll back, rebuild | `qumbra-prover-service/src/annulet.rs`, `annulet_v3.rs`, `nullifier_store.rs` |
| pool, faucet, sequencer | outbox, queue, intake | submit, grant, seal | `qumbra-pool`, `qlab-faucet`, `qumbra-sequencer` |
| wallet, ledger, compact-block server, circuits, benchmarks | client data, proofs | scan, prove, measure | the other crates |

How they interact: the run loop of a node calls the p2p node, which calls the
adapter for every header, block and vote message; the adapter updates fork
choice, the tracker and the state machine one after the other and writes the
block log. A node that holds committee keys signs its own fork choice's block at
each checkpoint height, writes its ledgers and hands the votes to the p2p node.
One node is sequential; concurrency is between nodes, and between a node and the
moment its process dies. The prover service is a process of its own with threads
(requests, one dispatcher, one follower) that reads a node over HTTP and hands it
proved transactions.

What is hard, and hard to test: messages of three kinds (headers, bodies, votes)
in any order; three heads that should agree (fork choice's, the tracker's, the
state machine's) and follow different paths; rewinds of the applied chain that
the log does not record; crashes between two durable writes; votes of one slot
that arrive when the committee is already on another branch; headers and bodies
from peers that lie, stall or answer late; a pool judged once while the chain
below it moves; several reads of a chain that changes between them. `hazards` in
`PROJECT.json` lists them at their lines.

## 2. Modules

| Module | Models | Composes / refines |
|---|---|---|
| `FinalizedPrefix` | abstract: a list of final blocks that only grows | refined by `ChainState` and by `NodeHeads` |
| `ChainState` | fork choice (`chain.rs`) | implements `FinalizedPrefix` |
| `CommitteeFinality` | signing, ledgers, quorum and finality on several nodes | fork choice abstracted to branches |
| `NodeHeads` | one node's adapter, state machine and log | extends `ChainState`; its durable head implements `FinalizedPrefix` |
| `SnapshotResume` | snapshots, their sidecar, and the three ways a restart resumes | extends `NodeHeads`; implements `FinalizedPrefix` |
| `Mempool` | the pool, the name registry and the block template | extends `NodeHeads` |
| `CheckpointSync` | how a joining node learns headers: ordinary sync and the checkpoint session | extends `ChainState` |
| `BodyFetch` | how a node asks for bodies, and what it does with what arrives | fork choice reduced to the heaviest known header |
| `VoteIngest` | the tally, the active filter, the quorum gate and the downtime jail of one node | fork choice reduced to the tip's slot |
| `Punishment` | evidence, tombstones, epochs, the punishment ledger and its replay | |
| `NullifierFollow` | the prover service's landed nullifiers and their file | the node reduced to the chain it serves |
| `ProvingJobs` | the prover service's jobs, dispatcher and paid ledger | the follow's verdict is arbitrary |
| `MC*` | the instances TLC checks | |
| `*Proofs` | the theorems about all of the modules (section 4) | `NodeProofs` (heads and pool) and `CheckpointSyncProofs` build on `ChainStateProofs`, `SnapshotResumeProofs` on `NodeProofs`; `P2pProofs` has votes and bodies, `ProverServiceProofs` both parts of the service |

### ChainState

`blocks`, `tip`, `mainChain` and `finalized` are the fields of the Rust struct
(`mainChain` is `main_chain_by_height`). `InsertHeader`, `SetFinalized` and
`RestoreFinalized` are its three mutating methods; a refused call is a step that
is not taken. `Reindexed` is `adopt_tip`: it appends for a direct extension and
otherwise replaces the suffix above the fork, exactly as the code does, rather
than rebuilding the index. An entry keeps its branch in `line`, where the code
follows parent links (`ParentWalk`); `AncestryFollowsParentLinks` says that the two agree.

### CommitteeFinality

One action per durable or visible step of a checkpoint round, so that a crash
(`Restart`) can fall between any two: `SignCheckpoint` (the ledgers in memory),
`PersistLedger` (one file after the other), `AnnounceCheckpoint`. `Finalize` is
the effect of a quorum on one node: the tracker advances, fork choice if it can.
Votes that left a node may be counted by any node at any later time or never,
which covers delay, loss, duplication and regrouping. A Byzantine member has
voted for everything. `WriteOutcome` says what a ledger write may do; `"truncated"`
is `File::create` before the bytes follow.

### NodeHeads

`applied` and `stateFinal` are the state machine's chain and finalized head, `log`
the records of `blocks.log`, `pending` the held bodies, `latest` the tracker.
`IngestBlock` is the whole handler: header into fork choice, body into the window,
then the drain (`Rejoined`, `Grown`, `FinalityRecord`, retain). `IngestVotes` is
the quorum-completing call. `Restart` replays the log and rebuilds fork choice
and the tracker from the state machine, as `open_for` does; `CrashInDrain` does
the same after a prefix of the records one drain writes, each of which is synced
before the next. Intermediate values of the drain are bound with `\E x \in {e}`
so that TLC evaluates them once. `NodeHeads` has no run of its own: the node of
`SnapshotResume` (small windows, early votes) and the node of `Mempool` (ample
windows, votes after headers) are this node, and its properties are checked there.

### SnapshotResume

What the state machine derives from its blocks is represented by the line of blocks
it was folded from: `tree` for the commitment tree and the nullifiers, `names` for the
registry. `snap` and `sidecar` are `snapshot.bin` and `names.bin`, written one after the
other (`Saved`). `Opened` is `open_inner`: the snapshot if the log's prefix agrees with
it, else the near-tip resume if finality proves it, else the replay. `Shutdown` is the
clean stop with its flush; `Crash` and `CrashInDrainAfter` stop anywhere else. The loops
over the log are folds with the test of the code inside (`InPrefix`, `InTail`).

### Mempool

`pool` is `Mempool::txs`. `Admits`, `Evicts` and `Takes` are `admit_above`,
`on_block_connected_above` and `assemble`; `ValidBody` is the part of body validation
that depends on the chain: anchors, spent nullifiers, the median weight and the name
operations, whose registry is folded from the riders of a line (`ApplyBlockRiders`).
Every drain of `NodeHeads` calls `Connected` once per applied block.

### CheckpointSync

`session` is the checkpoint session with its buffer, `fallback` the flag that ends it
for good, `phase` the phase of ordinary sync, `msg` the message being handled, header by
header, and `span` the span being admitted. `asked` holds the requests on their way to
honest peers or their answers back, delivered in any order; a faulty peer sends any
headers at any time. `OnRelay` is an announced header or
block, which reaches fork choice beside the session.

### BodyFetch

`asks` is `BodyReq` per block (peer, age, decliners), `pending` the held bodies, `cache`
the bodies served to peers. `Tick` is `request_missing_bodies`: prune, window, rotation
over the peers (`Wanted`, `Target`, `SentTo`). `OnBody`, `OnAnnounce`, `OnCompact`, `OnBlockTxn` and `OnHeader` are the
ways an answer or an announcement arrives, each the whole handler with the drain and
the rewind. `Verdicts` is what body validation may say: bodies of a faulty peer are bad, one
of an honest peer may come when the applied state cannot judge it yet. A held body passed
that check only: the drain (`Drained`) validates it again against the state it is applied to,
and a body in `Refusable` may fail there (a spent nullifier is looked up nowhere else), which
drops it and lets the drain go on.

### NullifierFollow

Each request of `poll` is an action, and `ChainMoves` and `ChainFalls` change the node's
chain between any two: `PollTip`, `Reconcile`, then `RollBack` or `Rebuild`, then
`ReadHeaders`, `ReadNullifiers`, `Extend` per page and `CatchUp`. `set` is `Replayed`
(the landed nullifiers, the height, the window), `store` the file as its lines, and
`Replay` the replay of `open`. `FollowCrash` leaves the file whole, with some of the
lines being appended, or half reset; a refused file needs `MoveAside`.

### ProvingJobs

The steps are the critical sections of the job state and the calls made outside it.
`jobs` holds the retained jobs (and with them `by_intent`), `pending` the queue, `worker`
the dispatcher's stage. `Submit` is the part of `submit` under the lock: retries of a
known intent, the claims on nullifiers, the limits. `Cancel`, `Cleanup` and `Restart` may
fall between any two steps of the dispatcher (`Take`, `Proved`, the POST, `AppendPaid`,
`FinishSubmitted`).

### VoteIngest

`AbsorbVotes` is one message through `absorb_votes`: the votes are observed (a
conflict tombstones at once), then tallied, and a completed quorum finalizes,
records the round, jails and clears the slot in the same step. `Pruned`, `Admits`
and `Added` are the tally's prune, early returns and insertion with eviction;
`ActiveNow` is the second filter, at the count. A message is the part of
`Signed[slot][block]`, the votes that exist, that one of the sets in `Group`
carries, so votes of one slot arrive in any grouping, order and number of times.
`Dropped` is a message that is refused after the observation. The tip moves by
whole cadences and only the window looks at it.

### Punishment

`committee` is `EpochCommittee`: the roster of the current epoch in index order,
the rosters of the sealed epochs and the standing of the members. A vote carries
an index and the key that made it, because verification resolves the index in
the roster of the height (`Verifies`) while `Tombstoned` resolves it in the roster
of now. `ObserveVote` and `OnEvidence` are the two ways evidence is applied;
`Reopened` is the replay, and `RestartReproducesCommittee` compares it with the
live committee in every state, not only when a restart is taken. `tip` is the header tip
and `applied` the applied one, which `ApplyBody` moves: headers run ahead of bodies by up to
`BodyLag`, and a restart resumes at `applied` and lets the headers catch up. So the property
says that the ledger opens at `applied` and that the committee, advanced from there to `tip`,
is the live one, unless a record is in an epoch after that of `applied`. `InEpochOnly`
says whether votes and evidence arrive in the epoch of their height.

## 3. Runs

| Run | Result | What it shows |
|---|---|---|
| `chain_state` | passes | index, ancestry, heaviest tip and no reorganisation past the finalized head, any known block finalized |
| `committee` | passes | no equivocation by honest members, ledger ahead of the network, one checkpoint per slot |
| `committee_torn_ledger` | violation | a crash between truncation and rewrite of a ledger leads to a second vote for a slot |
| `vote_ingest` | passes | only members in good standing are counted, the tally keeps its caps, the finalized slots ascend |
| `punishment` | passes | in its own epoch, evidence punishes equivocators only, once; a restart behind the header tip opens the ledger and catches up to the same committee |
| `checkpoint_sync` | passes | no unvalidated header enters by a faulty peer, a span is admitted whole, the joiner reaches the honest chain |
| `body_fetch` | passes | a rewind applies something new unless the body it was taken for is refused at the drain, re-asks are paced, the state machine reaches the main chain |
| `snapshot_resume` | passes | with votes ahead of headers and one held body: rewinds undo losing blocks only, the durable head follows the tracker and is never undone; a resume yields the state of its chain and reaches what the replay reaches |
| `snapshot_reopen` | violation | after a clean shutdown and a resume, the node writes a log that it cannot open again |
| `mempool` | passes | with votes after headers: the log replays to memory, no reorganisation past the reported or the durable checkpoint, the state converges and its checkpoint reaches the log; the pool stays minable, a drain evicts only what is invalid at its end or had its name operation refused by a block it connected, and the template validates |
| `nullifier_follow` | passes | the landed set and its file are those of one branch, and a service that stays up reaches the settled chain |
| `proving_jobs` | passes | nothing cancelled or rivalled is posted, an accepted fee is recorded before the job reads `submitted`, every job ends |

The violations are disagreements between the code and its own comments or docs;
`findings` quotes both sides.

### Known exceptions

Some properties hold only under a condition that a run or a formula states, and
some claims of the code's comments do not hold. Those are definitions at the end of
their modules, checked by no run. To see one fail, put it in the named
configuration in place of its properties, with the constants given. Each was
confirmed with TLC unless marked as read from the code.

Fork choice, committee and votes:

- `HeaviestKept` leaves out the finalization of a known block of another branch.
  `set_finalized` then re-anchors the tip to that block, and heavier known
  descendants are adopted only when a further header arrives (`chain.rs:198`; the
  comment at `chain.rs:183` takes the case for misuse, but ordinary votes reach it; read
  from the code).
- `FinalsOnOneBranch` (`CommitteeFinality.cfg`, `Byzantine = {}`, `Branch <- EarlyFork`):
  checkpoints of two slots on two branches are both finalized, with no fault: votes
  of a slot reach a node late, when the committee signs the next slot on another
  branch, and `try_finalize` compares heights only (`finality.rs:109`; `finality.rs:5`
  "Once final, it is irreversible").
- `JailedOnlyIfAbsent` (`VoteIngest.cfg`, `MaxSlot = 3`, `Signed <- AllSign`,
  `Requestable = FALSE`, `MaxTalliedSlots = 2`, `MaxVariants = 2`, `Window = 2`): votes that
  arrive after the quorum are not recorded, so a member that signs everything, late,
  is jailed for downtime (`adapter.rs:3832`, `ebbflow.rs:26`).
- A jail is renewed at every finalization while it runs, because the member's
  votes are excluded meanwhile and the window does not improve (`adapter.rs:2129`),
  so it ends at the epoch's reset rather than at `until_height` (read from the code).
- `OnlyEquivocatorsPunished` and `RestartReproducesCommittee` fail with
  `InEpochOnly = FALSE`. Evidence applied after the boundary that dropped its signer
  tombstones whoever moved into the index, and a record is replayed in the epoch of
  its height while the live node applied it in the epoch of its tip. `epoch.rs:23`
  defers stale evidence; `punish.rs:340` says the replay reproduces the live path.
- `ReopensOwnLedger` (`Punishment.cfg`, `VoteHeight = {1, 2, 3, 4}`, `BodyLag = 1`): with
  the applied tip below a boundary that the headers have passed and a record above it, the
  node may refuse its own punishment ledger (`punish.rs:365`, `:591`). A resume of that kind
  that is accepted replays the record in an earlier epoch than the live node did.

One node's heads, its log and its snapshots:

- `NoReorgPastCheckpoint` and `StateFinalOnMainChain` (`Mempool.cfg`, `EarlyVotes = TRUE`):
  votes are tallied up to one cadence above the tip (`tally.rs:61`), so the tracker may
  finalize a block whose header has not arrived; `chain.set_finalized` answers
  `Unknown`, the refusal is only noted (`adapter.rs:3809`) and nothing repeats it. Fork
  choice may then leave the finalized block, against `chain.rs:173` "no reorg past a
  finalized checkpoint, EVER", and `rejoin_main_chain` is refused in the arm that
  `adapter.rs:1895` calls unreachable.
- `FinalityReachesLog` (`Mempool.cfg`, `DiskFails = {"finalize"}`, `MaxFailures = 1`,
  `MaxRestarts = 0`): the head moves in memory before the append, and the next call
  returns early at `adapter.rs:2066`, although the comment above it says that a
  persistence failure is retried.
- `LogReplays` (the same with `DiskFails = {"block"}`): a block whose append failed stays
  applied, and later records build on it (`node.rs:2279`, `adapter.rs:1998`); the comment at
  `node.rs:1765` says that a block's parent is the tip in log order.
- `ResumeReachesReplay` and `ResumeKeepsFinality` (`SnapshotReopen.cfg`, `MaxRestarts = 2`,
  `MaxTorn = 1`, `FinalLine = {a2, a3}`, `PendingHeights = 1`, `MaxPending = 1`): they hold
  for one restart. A resume may go ahead of its log's replay (the finding of
  `snapshot_reopen`): it takes up an abandoned block a3 again, which is then finalized,
  and its finalization is logged. If the sidecar of the next snapshot does not fit, the
  full replay, which rewound a3 and never sees it come back, ends below a3
  with no finalized head: a durable finalization is undone.
- `NamesOfItsChain` (`SnapshotResume.cfg`): a snapshot whose sidecar was not written
  resumes with an empty registry, or with that of another branch at the same height
  (`node.rs:3031`; `name_registry.rs:46` "must be detectable, not guessed across").

Sync and bodies:

- In a checkpoint session an empty batch does not count as a stall, so a peer that
  answers with nothing does not end it; that is why `Joins` needs the honest peer's
  relayed headers. Block announcements bypass the buffer, although a comment
  in `on_header` says that headers of the span do not. After a fallback the attested
  checkpoint is not pinned in fork choice (all read from the code).
- `HeldBodiesApply` (`BodyFetch.cfg`, `SPECIFICATION BodySpec`, `Tree <- Siblings`,
  `PendingMax = 3`, `PendingHeights = 2`, `Refusable = {}`): of two held siblings the one with the lower hash is applied, on the
  main chain or not, and the drain does not look again until a body arrives
  (`adapter.rs:2105`, `:1940`; `adapter.rs:3544` "is applied as soon as the state tip
  reaches its parent"). `FetchCompletes` therefore assumes that blocks keep being
  announced.
- `EveryRewindApplies` (`BodyFetch.cfg`, `SPECIFICATION BodySpec`): with a1 applied and the
  heavier b1 known, b1's body arrives, the chain is rewound to its parent, and only then is
  the body refused (`adapter.rs:2012`): a block was undone and none applied, against
  `adapter.rs:1856`. `RewindsApply` names this case and bounds it: it ends at the fork with
  the main chain, and the refused body is no longer held.
- `PacedRetries` leaves out two cases it names: a peer that declined is asked again every
  tick while the ones that did not are out of allowance (the run has such a peer), and a
  body left in the serving cache by a rewind clears the ask of a refused one (the second
  read from the code).

Pool:

- `OwnBlockValidates` (`Mempool.cfg`): the template is judged against the applied tip and
  mined on the fork-choice tip, which may be its sibling (`adapter.rs:2381`; `mempool.rs:31`
  "assembles into a body the node accepts").
- A transaction mined on a branch that loses is not put back into the pool (read from
  the code; the model does the same).

Prover service:

- `FollowsOneBranch` fails with `Moves <- AnyLonger` (`NullifierFollow.cfg`): when the chain
  leaves a branch and comes back to it between the reads of one page, the headers of one
  chain are paired with the nullifiers of the other, because the check looks at the last
  header only; the comment in `poll` (`annulet_v3.rs:506`) says that such a poll fails.
- After a rollback `caught_up_at` is kept, so `readiness` says ready for up to a slot while
  the set is behind the tip, and `check` may pass a nullifier that landed on both
  branches. A crash or a failed write inside `reset` may leave a file without its header,
  which refuses the start-up as `store-corrupt` until an operator moves it aside (both
  read from the code; the model does the same).
- `JobUrlLasts` (`ProvingJobs.cfg`): a retry of an intent removes its ended job at once,
  also when the retry is then refused, so the first URL stops answering before its
  result TTL (`annulet.rs:881`).
- A lost answer to the POST reads `failed` although the node may have accepted; the fee
  is then recorded only if the client retries before the transaction lands. After the TTL
  or a restart the same intent can be proved and recorded again (read from the code; the
  model does the same).

### Bounds, and why they are enough

- `ChainState`: five blocks beside genesis, two difficulties, heights to 4. Forks
  at two depths, a shorter branch that is heavier, and a second finalization all
  fit. Non-genesis hashes are symmetric.
- `CommitteeFinality`: two nodes, four members (quorum 3), two slots, two branches,
  any number of restarts. In `committee` one member is Byzantine and the branches
  part between the two slots: with one of four the threshold is tight, and one less
  is caught by the mutant. In the violation run every member is honest and the
  branches part before the first slot. Two nodes are enough for a split.
- `SnapshotResume`: two branches from height 1, of which each outweighs the other at
  some time; one held body, one body height ahead and a rewind depth of two, so that
  eviction and refusal happen; one torn snapshot, one restart (two are too many for the
  properties, see above). `snapshot_reopen` adds
  a fourth height, which its trace needs. `MaxRestarts` bounds the log, which would
  grow without limit when a node is restarted between two reorganisations.
- `Mempool`: two branches that carry different commits, two rival reveals of one name, a
  renewal and two payments of one note; anchors, commits and names age out within the
  four heights; the windows hold everything; one crash.
- `CheckpointSync`: an honest branch of three, a valid rival, two forged headers and one
  whose time goes back; batches and spans of two, so that a span takes the whole
  buffer; two stalls; one lost connection.
- `BodyFetch`: three blocks of which one is applied, rewound and needed again; windows of
  one and two (`MaxInFlight`, `MaxInFlightCatchup`), a cache of one, a timeout of two ticks,
  one peer of each kind, the faulty one out of allowance; one block's body may be refused at
  the drain, and bodies are held one height ahead. `RRCycle` makes the rotation's counter finite.
- `NullifierFollow`: two branches from height 1, a window of two blocks, pages of two, so
  that a reorganisation is within or past the window and the chain spans two pages; one
  block of regress, one failed poll (`MaxFailedPolls`) and one crash.
- `ProvingJobs`: two clients, two bundles that share a nullifier and one that does not, a
  queue of one and two retained jobs, so that every limit is met; any number of
  restarts, cancels and expiries; one failed append.
- `VoteIngest`: four members (quorum 3) on three hosts, two slots and two blocks in
  the passing run, with one tallied slot, one variant and a signing window of one,
  so that every cap and the jail are reached. The caps of the code are 8, 4 and 100; the rules do
  not depend on the values.
- `Punishment`: a committee of three, epochs of two blocks, heights to 4, so two
  boundaries are crossed. Two members equivocate in the passing run, which makes
  the second one's index move. Bonds of 100 show a second slash. The applied tip is one
  block behind at most, so a boundary may lie between it and the header tip; votes are at
  heights 1 and 3, so no record is in an epoch after the applied tip's.
- `MAX_PENDING_BODIES` and the other limits are constants of the modules; their
  small values in a `.cfg` stand for the large ones of the code.

### Fairness

- `mempool` (`FairPoolSpec`): weak fairness of `IngestBlock(h)` for each block. Peers
  announce blocks again and the node asks for missing bodies again until it has them,
  so every body is delivered over and over. Nothing is assumed of votes, headers,
  transactions or restarts.
- `checkpoint_sync` (`FairJoinSpec`): a message in hand is handled to its end (weak), the
  run loop ticks, and an honest peer comes back when its connection is lost, answers,
  and relays its tip (strong, because other messages interrupt each of them). Nothing is
  assumed of the faulty peer or of votes.
- `body_fetch` (`AnnouncedBodySpec`): the run loop ticks, an honest peer answers with a
  body that can be judged, and the block at the tip is announced, each again and again
  (strong).
- `nullifier_follow` (`FairFollowSpec`): weak fairness of the poll's steps; the thread never
  stops and every request has a timeout. Nothing is assumed of the operator.
- `proving_jobs` (`FairSpec`): weak fairness of the dispatcher; the child is timed out and
  the POST has a deadline.

The other runs assume none. Deadlock is checked everywhere except in `ChainState`,
whose finite set of hashes runs out.

`NodeTypeOK`, `ResumeTypeOK`, `PoolTypeOK`, `JoinTypeOK` and the `TypeOK` of
`CommitteeFinality` and `Punishment` state the types of their modules for the reader and
for proofs; they were checked on the same instances and are not listed in the runs.

## 4. Proofs

Each `*Proofs` module is checked by TLAPS, with no assumption beyond the named
ASSUMEs of the modules and the hypotheses named here. The theorems hold for every
value of the constants: any tree of blocks, committee, set of transactions, limits and
number of crashes.

| Module | Theorem | States | Hypotheses |
|---|---|---|---|
| `ChainStateProofs` | `TypeCorrect`, `IndexCorrect`, `FinalityGate` | `TypeOK`, `IndexIsTipBranch`, `TipDescendsFromFinalized` | |
| | `FinalityPreserved` | `FinalizedOnlyGrows`: implements `FinalizedPrefix` | |
| | `HeaviestStays`, `AncestryCorrect` | `HeaviestKept`, `AncestryFollowsParentLinks` | |
| `NodeProofs` | `FinalityFollows`, `RestartRebuilds`, `OnlyLosersUndone` | `StateFinalityFollows`, `RestartReproducesState`, `RewindsOnlyLosers` | `DiskHolds` |
| | `DurableFinality` | the durable head implements `FinalizedPrefix` | `DiskHolds` |
| | `RewindPermitted` | while fork choice has taken the checkpoint (`Taken`) and the durable head is on its branch: `StateFinalOnMainChain`, and the rewind is permitted | `DiskHolds` |
| | `TakenCheckpointStays` | a taken checkpoint stays taken, on the main chain, while it is reported | `DiskHolds` |
| | `PoolIsNode` | `PoolSpec => NodeSpec` | |
| | `PoolMinable`, `OnlyDoomedEvicted`, `TemplateIsValid` | `PoolStaysMinable`, `EvictsOnlyDoomed`, `TemplateValidates` | `DiskHolds` |
| `SnapshotResumeProofs` | `DerivedStateOfItsChain`, `ResumedFinalityFollows`, `ResumedLosersOnly` | `StateOfItsChain`, `StateFinalityFollows`, `RewindsOnlyLosers` | |
| | `FirstResumeReachesReplay`, `FirstResumeKeepsFinality` | `ResumeReachesReplay`, `ResumeKeepsFinality`: implements `FinalizedPrefix` | `DiskHolds`, `OneRestart` |
| `CheckpointSyncProofs` | `OnlyValidHeaders`, `AdmissionEndsFinal`, `JoinerKeepsFinality` | `NoForgedHeader`, `AdmissionCompletes`, `FinalizedOnlyGrows` | `HonestQuorum` |
| `CommitteeFinalityProofs` | `LedgerCorrect`, `HonestNeverEquivocates`, `OneCheckpointPerSlot` | `WriteAhead`, `NeverEquivocates`, `SlotAgreement` | `WritesAreWhole` |
| `P2pProofs` | `TallyBounded`, `FinalityAscends`, `QuorumMayVote` | `TypeOK`, `FinalizedAscends`, `CountedVotersMayVote` | |
| | `BodyTypeCorrect`, `RewindsAreApplied`, `RetriesArePaced` | `BodyTypeOK`, `RewindsApply`, `PacedRetries` | |
| `PunishmentProofs` | `ReplayIsExact`, `HonestUnpunished`, `TombstonesStay` | `RestartReproducesCommittee`, `OnlyEquivocatorsPunished`, `TombstonesArePermanent` | `InEpochOnly`, `ResumesPastRecords` |
| `ProverServiceProofs` | `OnlyClaimedSubmitted`, `FeeOnRecord` | `SubmissionsAreClaimed`, `PaidBeforeSubmitted` | |
| | `FollowedBranch` | `FollowsOneBranch` | `LeavesForGood` |

### The hypotheses

None is idle: a violation run or an exception of section 3 shows what goes wrong without it.

- `DiskHolds`: no append to `blocks.log` fails (`LogReplays`, `FinalityReachesLog`). Crashes
  between appends are allowed.
- `HonestQuorum`: the blocks a quorum attests to a joining node lie on one branch of valid
  headers. The headers of a span are not validated, so nothing else speaks for them.
- `WritesAreWhole`: a write of a finalizer ledger is neither torn nor fails silently
  (`committee_torn_ledger`).
- `InEpochOnly`: votes and evidence are handled in the epoch of their height
  (`OnlyEquivocatorsPunished` with `InEpochOnly = FALSE`).
- `ResumesPastRecords`: no restart so far was taken at an applied tip in an epoch before
  that of a record (`ReopensOwnLedger`). The bodies may be behind the headers by any
  number of blocks and boundaries.
- `OneRestart`: the node is restarted at most once, after any history and with anything a
  crash may leave on disk (`ResumeKeepsFinality` with `MaxRestarts = 2`).
- `LeavesForGood`: the node's chain does not come back to a branch it left while a page is
  being read (`FollowsOneBranch` with `Moves <- AnyLonger`).

The ASSUMEs on the constants are what validation guarantees of any tree of blocks: a
block's height is its parent's plus one (`HeightsAssumption`, `TreeAssumption`,
`BodyTreeAssumption`), it adds work, and it spends no nullifier that its branch has
spent (`SpentOnceAssumption`; `nullifier_store.rs:83`).

### The arguments

- *Fork choice.* The inductive invariant says of every stored entry that its `line` starts
  at genesis, ends at the block, has height + 1 blocks and extends the parent's
  line by one, that the index is the tip's line, and that the tip descends from
  the finalized head. The first part is needed because `Reindexed` reuses a
  prefix of the index: two lines that agree at a position agree below it; it also
  gives the walk along parent links, by induction on its length. The
  refinement of `FinalizedPrefix` follows: each step keeps or extends the
  part of the index up to the finalized head.
- *Node heads.* `HInv`, which needs no working disk, and `NInv` add to it that the applied chain is the line of a stored block,
  that replaying the log gives the applied chain and the finalized head (`LogOK`), and where
  that head stands to the tracker's. A rewind writes nothing; the log is right
  again only with the next block's record, from whose parent the replay infers the cut.
  So the proof needs that a drain that rewinds also applies a block, and that every
  prefix of a drain's records, which is what a crash leaves, replays to a chain that still
  holds the finalized head. A checkpoint that fork choice has taken is on the main chain
  by fork choice's invariant, and only a higher one replaces it. A durable head of the
  same branch is then on the main chain, so a cut at the fork keeps it. A checkpoint whose
  `set_finalized` was refused is outside of both theorems; `NoReorgPastCheckpoint`
  (section 3) shows what becomes of it.
- *Pool.* A pooled transaction was judged on an earlier chain. Eviction looks at the
  blocks a drain applies and not at those it rewinds. That suffices because a drain that
  changes the applied chain applies a block, so anchors and names are judged on the new
  tip; the nullifiers of blocks that stay were judged before; and finality only moves
  up. In the other direction, a rewind keeps the finalized head, so an anchor that is good
  on the new tip was good on each connected block, and of the eviction rules only the
  one for names can strike what is valid again at the end of the drain. The template also needs that pooled transactions share no nullifier (`NoConflict`).
- *Snapshots.* `RInv` says that the state in memory and the one in the snapshot are each the
  fold of a line of the tree. A resume keeps it whichever way it goes: the line to a block
  is unique, and the blocks it takes from the log have to end on the snapshot's tip, or
  to be the line of a finalized block. That needs nothing of the disk. To
  compare a resume with the replay (`TailReaches`) both are followed record by record: the
  tail never leaves the snapshot's line, and from the last time the replay comes onto that
  line the tail is ahead of it or equal to it, and has its head. This
  holds for a log whose replay refuses nothing (`OwnLog`), as the log of a
  first life is (`FirstLife`); a resume that is ahead of its log ends that.
- *Checkpoint sync.* The buffer of a session is a chain of headers, nothing more. Once its
  end is the attested block, all of it is the attested branch, because a hash has one
  parent. The finalized head is on the same branch and known, and no header of the span
  is, so the span attaches at or above it and neither an insertion nor the finalization
  can fail after the checks.
- *Committee.* The invariant relates four copies of a vote: in the
  outbox, in the ledger in memory, on disk, on the network. Once the ledgers are
  written, memory and disk agree on what is about to leave; what has left is
  on disk; a ledger entry never changes. Agreement on a slot is then quorum
  intersection (`QuorumsIntersect`): two quorums of more than two thirds share
  more members than there are Byzantine ones, and an honest member votes once.
  It needs that a quorum, once reached, stays one (`QuorumStays`), because a
  checkpoint finalized earlier is compared with one finalized now.
- *Vote ingest.* The type invariant with the caps is inductive: the eviction never drops
  the slot that comes in, which is why the accumulated set can be read back. What
  `Finalize` counts is then a filtered part of what was signed.
- *Bodies.* `BInv` says that the known headers are closed under `prev` and have a heaviest
  one, that the asks fit the window and how each is paced. The window holds because the
  wanted bodies are of one branch, where heights tell blocks apart. A rewind goes to the
  parent of a held body of the main chain, the drain looks at that body or at a sibling
  next, and no held body was applied, so what is applied then is new unless that body is
  refused, which also drops it. A slot without a peer is one never asked, or one that
  a decline left while some ready peer had not declined (`PaceOK`); that is
  the only way to a retry within the timeout.
- *Punishments.* `Reflects` says that a committee is determined by its epoch and a set of
  records: the roster of an epoch is the one before without the keys of the records up
  to then. The live committee reflects the ledger, and so does the end of a replay of the
  sorted records, since no record of an earlier epoch is outstanding when an epoch is
  sealed. Two committees of one epoch that reflect the same records are equal. A chain
  that resumes behind its header tip replays all of its records, and sealing the epochs up to the tip
  keeps `Reflects`.
- *Prover jobs.* The record of the job in hand is as the dispatcher left it, or cancelled
  with its flag set, or gone; once the dispatcher has read the flag and written
  `submitting`, no request touches it. That needs that the queue holds a job once and that
  a capability in use is not given out again.
- *Nullifier follow.* The set is the branch of its last followed block, the window the end of
  that branch, and the file replays to the set before or after the write in hand, or is
  refused. A page may pair the headers of one branch with the nullifiers of another, but
  then the node had left the branch of the headers, and if it does not come back
  (`LeavesForGood`) the page's last check fails. Every prefix of a page replays to
  the set of one branch, which is what a crash leaves. A rollback may remove the
  nullifiers of the dropped blocks because no branch spends one twice.

What a fold or a recursive function computes is proved by induction on an explicit set of
positions (`SetInduction`, from the well-foundedness of `<`), after showing that a table of
its intermediate results exists, because the library's induction theorems take an operator
parameter. For that reason `Template`, `Without` and the loops over a log are folds and not
`SelectSeq`.

### Model-checked only

- Liveness, which is out of the prover's reach: `Joins`, `FetchCompletes`, `FollowCatchesUp`,
  `EveryJobEnds`, and `Convergence` and `FinalityReachesLog` of the `mempool` run.
- `NoReorgPastCheckpoint` and `StateFinalOnMainChain` without a condition. The `mempool` run
  checks them where votes follow headers and finality has one branch; elsewhere they may
  fail (section 3), and `TakenCheckpointStays` and `RewindPermitted` say what always holds.

## 5. What is not modelled

Header and body validity (proof of work, difficulty, proofs, fees, emission) is
assumed, but for the rules of `Mempool`; bytes, codecs and sockets are left out.
Jails (one epoch, in `VoteIngest`) and epochs (in `Punishment`) are not composed. A V6
bundle body and an Annulet block take handlers of their own that are not modelled,
nor are the exemption that mines on the state tip while bodies are missing and the
parked state of the miner. The prover service's format-33 tokens and quota, its L1
experiment API, the child process and the HTTP layer are left out. Circuits, proofs
and benchmarks, most of the repository's lines, are arithmetic over large fields
and measurement code with no states to explore. The halt schedule, the round ledger,
peer limits, the stratum pool, the faucet and the sequencer could be modelled and are
not yet. `components` gives the status and the reason for every part.

## 6. Plan

1. Liveness of `VoteIngest`: a slot the whole committee voted for is finalized
   although other variants are sprayed.
2. `HaltSchedule`, `RoundLedger`.
3. Services: `PoolOutbox`, `FaucetQueue`, `Sequencer`.
