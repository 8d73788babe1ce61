------------------------------ MODULE NodeHeads ------------------------------
(***************************************************************************)
(* One node's three views of its chain, and how they follow each other:    *)
(*  - fork choice and its finalized head (ChainState, chain.rs);           *)
(*  - the committee's latest checkpoint (FinalityTracker, finality.rs);    *)
(*  - the state machine: the blocks whose bodies are applied, its own      *)
(*    finalized head, and the block log a restart replays (qlab-node).     *)
(*                                                                         *)
(* Headers, bodies and votes arrive in any order, repeated or never        *)
(* (adapter.rs).  A body is held until the state machine reaches its       *)
(* parent; every block message ends in drain_pending_bodies, which takes   *)
(* the state machine off a losing branch, applies what it can and then     *)
(* lets the durable finalized head follow the committee.                   *)
(*                                                                         *)
(* Simplifications.                                                        *)
(*  - Headers and bodies are valid: a refused one is a message that did    *)
(*    nothing, and a body that cannot be judged yet submits its header     *)
(*    alone, which is SubmitHeader.                                        *)
(*  - The held bodies are bounded by their number, not also by their bytes.*)
(*  - The log is replayed from genesis: snapshots are SnapshotResume's.    *)
(*  - Checkpoint header sync and the mempool are not represented here.     *)
(***************************************************************************)
EXTENDS ChainState, FiniteSets, FiniteSetsExt, SequencesExt

CONSTANTS
    Tree,           \* every other block the network mines: its prev, height, difficulty
    Rank,           \* the order of block hashes as byte strings
    FinalLine,      \* the blocks the committee finalizes; all on one branch
    EarlyVotes,     \* votes may come before the header of the block they name
    PendingHeights, \* MAX_PENDING_BODY_HEIGHTS
    RewindDepth,    \* MAX_REWIND_DEPTH
    MaxPending,     \* MAX_PENDING_BODIES
    DiskFails,      \* the kinds of log record whose append may fail
    MaxFailures,    \* bound: failed appends
    MaxRestarts     \* bound: crashes

ASSUME TreeAssumption ==
    Tree \in [Hash \ {Genesis} -> [prev : Hash, height : 1 .. MaxHeight, difficulty : Difficulties]]
ASSUME RankAssumption == Rank \in [Hash -> Nat] /\ IsInjective(Rank)
ASSUME FinalLineAssumption == FinalLine \subseteq Hash
ASSUME EarlyVotesAssumption == EarlyVotes \in BOOLEAN
ASSUME LimitAssumption == {PendingHeights, RewindDepth, MaxPending} \subseteq Nat \ {0}
ASSUME BoundAssumption == {MaxFailures, MaxRestarts} \subseteq Nat
ASSUME DiskAssumption == DiskFails \subseteq {"block", "finalize"}

VARIABLES
    latest,     \* FinalityTracker::latest, the block, or NoHash
    applied,    \* the state machine's chain, genesis to its tip
    stateFinal, \* the state machine's finalized head, or NoHash
    log,        \* the records of blocks.log
    pending,    \* pending_bodies: the blocks whose bodies are held
    failures,   \* appends that failed so far
    restarts    \* crashes so far

stateVars == <<applied, stateFinal, log, pending, failures>>
nodeVars == <<chainVars, latest, stateVars, restarts>>

Record == [kind : {"block", "finalize"}, hash : Hash]

NodeTypeOK ==
    /\ TypeOK
    /\ latest \in Hash \cup {NoHash}
    /\ applied \in Seq(Known) /\ Len(applied) > 0
    /\ stateFinal \in Hash \cup {NoHash}
    /\ log \in Seq(Record)
    /\ pending \subseteq Hash /\ Cardinality(pending) <= MaxPending
    /\ failures \in 0 .. MaxFailures
    /\ restarts \in 0 .. MaxRestarts

HeightIn(h) == IF h = Genesis THEN 0 ELSE Tree[h].height
PrevIn(h) == IF h = Genesis THEN NoHash ELSE Tree[h].prev
HeightOfLine(line) == Len(line) - 1

-----------------------------------------------------------------------------
(* The state machine and its log.                                          *)

\* rewind_path: a line may be cut back to its first n blocks.
MayRewind(line, final, n) == final # NoHash => final \in ToSet(SubSeq(line, 1, n))

\* ChainStore::set_finalized on the state machine's chain: the block is applied
\* and above the head.
Finalizes(line, final, h) ==
    h \in ToSet(line) /\ (final = NoHash \/ HeightIn(h) > HeightIn(final))

\* Mutant: a logged block must extend the replayed tip.
LoggedBlockAtTip(s, h) ==
    IF PrevIn(h) # Last(s.line) THEN [s EXCEPT !.ok = FALSE]
    ELSE [s EXCEPT !.line = Append(@, h)]

\* apply_logged_block: a record whose parent is not the running tip means that
\* the live node rewound to that parent first.
LoggedBlock(s, h) ==
    LET parents == {i \in DOMAIN s.line : s.line[i] = PrevIn(h)}
        n == IF parents = {} THEN 0 ELSE Max(parents)
    IN  IF parents = {} \/ ~ MayRewind(s.line, s.final, n)
        THEN [s EXCEPT !.ok = FALSE]
        ELSE [s EXCEPT !.line = Append(SubSeq(s.line, 1, n), h)]

LoggedFinalize(s, h) ==
    IF Finalizes(s.line, s.final, h) THEN [s EXCEPT !.final = h] ELSE s

LoggedRecord(s, r) ==
    IF ~ s.ok THEN s
    ELSE IF r.kind = "block" THEN LoggedBlock(s, r.hash) ELSE LoggedFinalize(s, r.hash)

\* resume_by_replay: the state a restart rebuilds from the log; ok is FALSE when
\* it refuses to open.
Replayed(records) ==
    FoldLeft(LoggedRecord, [line |-> <<Genesis>>, final |-> NoHash, ok |-> TRUE], records)

\* append_log, for each of the records in turn, of which those in lost fail.
Surviving(records, lost) ==
    IF lost = {} THEN records
    ELSE FoldLeft(LAMBDA kept, r : IF r \in lost THEN kept ELSE Append(kept, r), <<>>, records)

\* What may reach the file.
Appended(records) ==
    {Surviving(records, lost) :
        lost \in {l \in SUBSET {r \in ToSet(records) : r.kind \in DiskFails} :
                     failures + Cardinality(l) <= MaxFailures}}

WriteLog(records) ==
    \E kept \in Appended(records) :
        /\ log' = log \o kept
        /\ failures' = failures + Len(records) - Len(kept)

-----------------------------------------------------------------------------
(* Held bodies and the drain.                                              *)

\* Mutant: only bodies above the applied tip are held.
AboveTip(h, line) ==
    /\ h \notin ToSet(line)
    /\ HeightIn(h) >= Len(line)
    /\ HeightIn(h) < Len(line) + PendingHeights

\* is_body_worth_holding, against a given applied line.
WorthHolding(h, line) ==
    /\ h # Genesis
    /\ h \notin ToSet(line)
    /\ HeightIn(h) <= (Len(line) - 1) + PendingHeights
    /\ HeightIn(h) + RewindDepth > Len(line) - 1

\* The order of the pending_bodies map.
Below(a, b) ==
    \/ HeightIn(a) < HeightIn(b)
    \/ HeightIn(a) = HeightIn(b) /\ Rank[a] < Rank[b]

\* buffer_body: over the cap the highest entry is dropped.
Buffered(h) ==
    LET held == pending \cup {h}
    IN  IF ~ WorthHolding(h, applied) THEN pending
        ELSE IF Cardinality(held) <= MaxPending THEN held
        ELSE held \ {CHOOSE b \in held : \A c \in held \ {b} : Below(c, b)}

\* state_fork_point: how many blocks of the applied line are on the main chain.
Shared(main, line) ==
    Max({i \in 1 .. Len(line) : i <= Len(main) /\ main[i] = line[i]})

\* Mutant: the rewind goes one block below the fork point.
RejoinedOneBelow(main, line, held) ==
    LET n == Shared(main, line)
    IN  IF n < Len(line) /\ n < Len(main) /\ main[n + 1] \in held /\ MayRewind(line, stateFinal, n)
        THEN SubSeq(line, 1, Max({1, n - 1})) ELSE line

\* rejoin_main_chain: back to the fork point, if the next main-chain body is held
\* and the rewind is permitted.
Rejoined(main, line, held) ==
    LET n == Shared(main, line)
    IN  IF n < Len(line) /\ n < Len(main) /\ main[n + 1] \in held /\ MayRewind(line, stateFinal, n)
        THEN SubSeq(line, 1, n) ELSE line

\* next_applicable_body: the held bodies that fit the applied tip; the first by
\* hash is applied.
Applicable(line, held) == {b \in held : PrevIn(b) = Last(line)}
IsFirst(b, fits) == b \in fits /\ \A c \in fits : Rank[b] <= Rank[c]

\* The loop of drain_pending_bodies: the line once no held body fits its tip.
Grown(store, line, held) ==
    CHOOSE l \in {line} \cup {store[b].line : b \in held} :
        /\ IsPrefix(line, l)
        /\ \A i \in Len(line) + 1 .. Len(l) :
              IsFirst(l[i], Applicable(SubSeq(l, 1, i - 1), held))
        /\ Applicable(l, held) = {}

BlockRecords(line, from) ==
    [i \in 1 .. Len(line) - from |-> [kind |-> "block", hash |-> line[from + i]]]

\* sync_state_finality: the durable head follows the committee's checkpoint when
\* its block is applied.  Equal heights end it early.
FinalityRecord(cp, line) ==
    IF /\ cp # NoHash
       /\ stateFinal # NoHash => HeightIn(stateFinal) # HeightIn(cp)
       /\ Finalizes(line, stateFinal, cp)
    THEN <<[kind |-> "finalize", hash |-> cp]>> ELSE <<>>

FinalAfter(record) == IF record = <<>> THEN stateFinal ELSE record[1].hash

\* Mutant: finality reaches the state machine only with the votes themselves.
DrainedWithoutFinality(kept, line, held) ==
    [line    |-> line,
     final   |-> stateFinal,
     held    |-> {b \in held : WorthHolding(b, line)},
     records |-> BlockRecords(line, Len(kept))]

\* drain_pending_bodies: the applied line, what is still held, and the records
\* written, in order, when the state machine goes back to kept and on to line.
Drained(kept, line, held) ==
    LET final == FinalityRecord(latest, line)
    IN  [line    |-> line,
         final   |-> FinalAfter(final),
         held    |-> {b \in held : WorthHolding(b, line)},
         records |-> BlockRecords(line, Len(kept)) \o final]

-----------------------------------------------------------------------------
(* Handlers.                                                               *)

NodeInit ==
    /\ Init
    /\ latest = NoHash
    /\ applied = <<Genesis>>
    /\ stateFinal = NoHash
    /\ log = <<>>
    /\ pending = {}
    /\ failures = 0
    /\ restarts = 0

LearnHeader(h) == InsertHeader(h, Tree[h].prev, Tree[h].height, Tree[h].difficulty)

\* ingest_header.
SubmitHeader(h) ==
    /\ LearnHeader(h)
    /\ UNCHANGED <<latest, stateVars, restarts>>

\* ingest_block: the header is accepted or a duplicate; then buffer and drain.
IngestBlock(h) ==
    /\ \/ LearnHeader(h)
       \/ h \in Known /\ UNCHANGED chainVars
    /\ \E held \in {Buffered(h)} :
       \E kept \in {Rejoined(mainChain', applied, held)} :
       \E line \in {Grown(blocks', kept, held)} :
       \E after \in {Drained(kept, line, held)} :
          /\ applied' = after.line
          /\ stateFinal' = after.final
          /\ pending' = after.held
          /\ WriteLog(after.records)
    /\ UNCHANGED <<latest, restarts>>

\* Mutant: the fork-choice head is left to the drain.
ChainHeadLater(cp) == UNCHANGED chainVars

\* chain.set_finalized(cp.block_hash): refused when the header is unknown or the
\* block does not extend the head, and not tried again.
AdvanceChainHead(cp) ==
    IF CanFinalize(cp) THEN SetFinalized(cp) ELSE UNCHANGED chainVars

\* ingest_checkpoint_votes_from, on the votes that complete a quorum.
IngestVotes(cp) ==
    /\ EarlyVotes \/ cp \in Known
    /\ latest # NoHash => HeightIn(cp) > HeightIn(latest)
    /\ latest' = cp
    /\ AdvanceChainHead(cp)
    /\ LET record == FinalityRecord(cp, applied)
       IN  stateFinal' = FinalAfter(record) /\ WriteLog(record)
    /\ UNCHANGED <<applied, pending, restarts>>

\* A block of the tree as fork choice stores it, at the end of a line.
EntryOf(line) ==
    [prev   |-> PrevIn(Last(line)),
     height |-> Len(line) - 1,
     work   |-> FoldLeft(LAMBDA w, h : w + Weight(Tree[h].difficulty),
                         blocks[Genesis].work, Tail(line)),
     line   |-> line]

\* open_for: fork choice adopts the chain and the head the state machine resumed
\* with, and the tracker its head.  A refused resume (not ok) opens nothing.
Adopt(s, records) ==
    /\ restarts < MaxRestarts
    /\ restarts' = restarts + 1
    /\ s.ok
    /\ log' = records
    /\ applied' = s.line
    /\ stateFinal' = s.final
    /\ latest' = s.final
    /\ pending' = {}
    /\ blocks' = [h \in ToSet(s.line) |-> EntryOf(SubSeq(s.line, 1, HeightIn(h) + 1))]
    /\ tip' = Last(s.line)
    /\ mainChain' = s.line
    /\ finalized' = s.final
    /\ UNCHANGED failures

\* open_for on a log, with no snapshot: the state machine is replayed.
Reopen(records) == Adopt(Replayed(records), records)

Restart == Reopen(log)

\* The process dies inside a drain: each record is synced before the next one is
\* written, so the log ends after any of them.
CrashInDrain(h) ==
    /\ h \in Known
    /\ LET held  == Buffered(h)
           kept  == Rejoined(mainChain, applied, held)
           after == Drained(kept, Grown(blocks, kept, held), held)
       IN  \E n \in 1 .. Len(after.records) - 1 :
              Reopen(log \o SubSeq(after.records, 1, n))

NodeNext ==
    \/ \E h \in Hash \ {Genesis} : SubmitHeader(h)
    \/ \E h \in Hash \ {Genesis} : IngestBlock(h)
    \/ \E cp \in FinalLine : IngestVotes(cp)
    \/ Restart
    \/ \E h \in Hash \ {Genesis} : CrashInDrain(h)

NodeSpec == NodeInit /\ [][NodeNext]_nodeVars

-----------------------------------------------------------------------------
(* Properties.                                                             *)

\* Replaying the log gives the applied chain and the finalized head the node has
\* in memory, however often it rewound (apply_logged_block infers the rewinds).
RestartReproducesState ==
    LET s == Replayed(log) IN s.ok /\ s.line = applied /\ s.final = stateFinal

\* The applied blocks up to the state machine's finalized head.
DurableBlocks ==
    IF stateFinal = NoHash THEN <<Genesis>>
    ELSE SubSeq(applied, 1, Min({HeightIn(stateFinal) + 1, Len(applied)}))

DP == INSTANCE FinalizedPrefix WITH final <- DurableBlocks

\* "GUARANTEED: whenever the state machine holds the committee's finalized block,
\* its own finalized head is advanced to it" (sync_state_finality).
StateFinalityFollows == latest \in ToSet(applied) => stateFinal = latest

\* A drain against an unchanged main chain never costs the state machine blocks
\* it shares with that chain: a rewind only undoes losing blocks
\* (rejoin_main_chain).
RewindsOnlyLosers ==
    [][mainChain' = mainChain => Shared(mainChain, applied') >= Shared(mainChain, applied)]_nodeVars

\* "No reorg past a finalized checkpoint, EVER" (insert_header), for the checkpoint
\* the node reports as final: once on the main chain, it stays there.
NoReorgPastCheckpoint ==
    [][latest' = latest /\ latest \in ToSet(mainChain) => latest \in ToSet(mainChain')]_nodeVars

\* The durable finalized head is on the main chain, so a rewind to the main chain
\* is never refused for crossing it ("Unreachable", rejoin_main_chain).
StateFinalOnMainChain == stateFinal # NoHash => stateFinal \in ToSet(mainChain)

\* "The state machine converges on its own chain with no restart" (ingest_block):
\* in the end the whole main chain is applied.
Convergence == <>[] IsPrefix(mainChain, applied)

\* What the committee finalized becomes durable, however late the bodies are
\* (sync_state_finality): in the end the log holds the checkpoint the node reports.
FinalityReachesLog == <>[] (Replayed(log).final = latest)

-----------------------------------------------------------------------------
(* A claim of the code's comments that does not hold (README, section 3).  *)

\* "In log order every block's prev is the tip at the moment it was applied": the
\* log can always be replayed (apply_logged_block).
LogReplays == Replayed(log).ok
=============================================================================
