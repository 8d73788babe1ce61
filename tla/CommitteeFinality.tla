-------------------------- MODULE CommitteeFinality --------------------------
(***************************************************************************)
(* The finality committee across nodes: which votes leave which node, and  *)
(* which checkpoints become final where.                                   *)
(*                                                                         *)
(* Each committee member's key is held by one node (run.rs), which walks   *)
(* the checkpoint slots with a cursor, signs the block its own fork choice *)
(* has at the slot under each key's never-double-sign ledger (recovery.rs),*)
(* writes the ledgers to disk and only then announces the votes.  A node   *)
(* that has gathered a quorum of votes for a checkpoint finalizes it       *)
(* (adapter.rs, finality.rs).  Nodes crash and restart at any point.       *)
(*                                                                         *)
(* Simplifications.                                                        *)
(*  - A slot is a checkpoint height.  Slot 0, the hash-pinned genesis, is  *)
(*    the same on every branch and is left out: cursors start at slot 1.   *)
(*  - A branch is the function from slots to its blocks.  The blocks       *)
(*    between two slots, and the weights that decide between branches, are *)
(*    not represented: fork choice may move a node to any branch that      *)
(*    carries the node's finalized head, and the tip may have grown past a *)
(*    slot by CHECKPOINT_SIGN_HYSTERESIS_BLOCKS at any time.               *)
(*  - A vote, once announced, can be in any node's tally at any later time *)
(*    or never: gossip delays, loses, repeats and regroups votes.  What    *)
(*    a node's tally keeps of them may be any subset.                      *)
(*  - A Byzantine member has signed everything, always.                    *)
(*  - The roster is fixed (one epoch) and nobody is jailed.                *)
(***************************************************************************)
EXTENDS Integers, FiniteSets

CONSTANTS
    Node,         \* the node processes
    Member,       \* the committee
    Byzantine,    \* the members that do not follow the code
    Host,         \* the node that holds a member's key
    Block,        \* checkpoint blocks
    NoBlock,      \* "no block"
    MaxSlot,      \* bound: the slots the branches reach
    Branch,       \* the branches miners built: slot -> block
    WriteOutcome  \* the steps a ledger write may take: "written", "truncated", "failed"

Slot == 1 .. MaxSlot
Honest == Member \ Byzantine

ASSUME MemberAssumption == IsFiniteSet(Member) /\ Byzantine \subseteq Member
ASSUME ByzantineAssumption == 3 * Cardinality(Byzantine) < Cardinality(Member)
ASSUME HostAssumption == Host \in [Member -> Node]
ASSUME NoBlockAssumption == NoBlock \notin Block
ASSUME MaxSlotAssumption == MaxSlot \in Nat
ASSUME OutcomeAssumption == WriteOutcome \subseteq {"written", "truncated", "failed"}

\* A block has one parent: branches that share a block share what is below it.
ASSUME BranchAssumption ==
    /\ Branch \subseteq [Slot -> Block]
    /\ \A a, b \in Branch, s, t \in Slot :
          a[s] = b[t] => s = t /\ \A r \in 1 .. s : a[r] = b[r]

VARIABLES
    branch,   \* per node: the branch of its fork-choice tip
    cursor,   \* per node: next_checkpoint
    ledger,   \* per member: FinalizerState.signed in memory, slot -> block
    disk,     \* per member: what its finalizer-<i>.state file reads back as
    outbox,   \* per node: the checkpoint and votes signed and not yet announced
    unsaved,  \* per node: the members persist_finalizers has still to write
    votes,    \* the honest votes that ever left a node
    latest,   \* per node: FinalityTracker::latest
    head,     \* per node: ChainState.finalized
    finals    \* history: every checkpoint any node ever finalized

nodeVars == <<branch, cursor, outbox, unsaved>>
keyVars == <<ledger, disk>>
headVars == <<latest, head, finals>>
vars == <<nodeVars, keyVars, votes, headVars>>

Checkpoint == [slot : Slot, block : Block]
NoCheckpoint == [slot |-> 0, block |-> NoBlock]
Ledger == [Slot -> Block \cup {NoBlock}]
EmptyLedger == [s \in Slot |-> NoBlock]
Idle == [cp |-> NoCheckpoint, signers |-> {}]

TypeOK ==
    /\ branch \in [Node -> Branch]
    /\ cursor \in [Node -> 1 .. MaxSlot + 1]
    /\ ledger \in [Member -> Ledger]
    /\ disk \in [Member -> Ledger]
    /\ outbox \in [Node -> [cp : Checkpoint \cup {NoCheckpoint}, signers : SUBSET Member]]
    /\ unsaved \in [Node -> SUBSET Member]
    /\ votes \subseteq [signer : Honest, slot : Slot, block : Block]
    /\ latest \in [Node -> Checkpoint \cup {NoCheckpoint}]
    /\ head \in [Node -> Checkpoint \cup {NoCheckpoint}]
    /\ finals \subseteq Checkpoint

-----------------------------------------------------------------------------
(* Votes and branches.                                                     *)

\* Mutant: two thirds, not strictly more.
TwoThirds == (2 * Cardinality(Member)) \div 3

\* quorum_threshold.
QuorumThreshold == (2 * Cardinality(Member)) \div 3 + 1

\* The members whose vote for this checkpoint a node may hold.
Voters(cp) ==
    Byzantine \cup {m \in Honest : [signer |-> m, slot |-> cp.slot, block |-> cp.block] \in votes}

HasQuorum(cp) == Cardinality(Voters(cp)) >= QuorumThreshold

\* The branch carries the checkpoint.
Carries(b, cp) == cp.slot \in Slot => b[cp.slot] = cp.block

\* The honest members whose keys node n holds.
Hosted(n) == {m \in Honest : Host[m] = n}

-----------------------------------------------------------------------------
(* Actions.                                                                *)

Init ==
    /\ branch \in [Node -> Branch]
    /\ cursor = [n \in Node |-> 1]
    /\ ledger = [m \in Member |-> EmptyLedger]
    /\ disk = [m \in Member |-> EmptyLedger]
    /\ outbox = [n \in Node |-> Idle]
    /\ unsaved = [n \in Node |-> {}]
    /\ votes = {}
    /\ latest = [n \in Node |-> NoCheckpoint]
    /\ head = [n \in Node |-> NoCheckpoint]
    /\ finals = {}

\* Between two checkpoint rounds the node's loop runs its other handlers.
IsIdle(n) == outbox[n] = Idle

\* Headers arrive or are mined and fork choice moves the tip (ChainState).
NewTip(n) ==
    /\ IsIdle(n)
    /\ \E b \in Branch :
          /\ Carries(b, head[n])
          /\ branch' = [branch EXCEPT ![n] = b]
    /\ UNCHANGED <<cursor, outbox, unsaved, keyVars, votes, headVars>>

\* FinalizerState::authorize: a fresh slot, or the same checkpoint again.
Authorize(m, cp) == ledger[m][cp.slot] \in {NoBlock, cp.block}

\* try_checkpoint up to make_checkpoint_guarded: at the cursor's slot, once the
\* tip is past it by the hysteresis, every key that may signs the block fork
\* choice has there and records it in memory.
SignCheckpoint(n) ==
    LET cp == [slot |-> cursor[n], block |-> branch[n][cursor[n]]]
        signers == {m \in Hosted(n) : Authorize(m, cp)}
    IN  /\ IsIdle(n)
        /\ Hosted(n) # {}
        /\ cursor[n] \in Slot
        /\ ledger' = [m \in Member |-> IF m \in signers
                                       THEN [ledger[m] EXCEPT ![cp.slot] = cp.block]
                                       ELSE ledger[m]]
        /\ outbox' = [outbox EXCEPT ![n] = [cp |-> cp, signers |-> signers]]
        /\ unsaved' = [unsaved EXCEPT ![n] = Hosted(n)]
        /\ UNCHANGED <<branch, cursor, disk, votes, headVars>>

\* Mutant: the votes are announced before the ledgers are written.
MayAnnounceAnyTime(n) == ~ IsIdle(n)

\* announce_checkpoint follows persist_finalizers.
MayAnnounce(n) == ~ IsIdle(n) /\ unsaved[n] = {}

\* persist_finalizers rewrites one ledger file (write_file_durably).  File::create
\* truncates the file before the bytes are written ("truncated"), and what is left
\* reads back as no ledger at all; an error is logged and the round goes on
\* ("failed").  "written" is the whole of it.
PersistLedger(n, m) ==
    /\ m \in unsaved[n]
    /\ \E outcome \in WriteOutcome :
          /\ disk' = [disk EXCEPT ![m] =
                         CASE outcome = "written"   -> ledger[m]
                           [] outcome = "truncated" -> EmptyLedger
                           [] outcome = "failed"    -> disk[m]]
          /\ unsaved' = IF outcome = "truncated" THEN unsaved
                        ELSE [unsaved EXCEPT ![n] = @ \ {m}]
    /\ UNCHANGED <<branch, cursor, outbox, ledger, votes, headVars>>

\* The cursor's next stop on the cadence grid.
NextSlot(s) == s + 1

\* announce_checkpoint: the votes leave the node and the cursor moves on.
AnnounceCheckpoint(n) ==
    /\ MayAnnounce(n)
    /\ votes' = votes \cup {[signer |-> m, slot |-> outbox[n].cp.slot, block |-> outbox[n].cp.block]
                               : m \in outbox[n].signers}
    /\ outbox' = [outbox EXCEPT ![n] = Idle]
    /\ unsaved' = [unsaved EXCEPT ![n] = {}]
    /\ cursor' = [cursor EXCEPT ![n] = NextSlot(@)]
    /\ UNCHANGED <<branch, keyVars, headVars>>

\* chain.set_finalized(cp.block_hash): the header may not have arrived yet, and
\* a block off the node's finalized line is refused.  An accepted one off the
\* tip's branch becomes the tip.
AdvanceHead(n, cp) ==
    \/ UNCHANGED <<branch, head>>                          \* Unknown header
    \/ /\ \E b \in Branch :
             /\ Carries(b, cp) /\ Carries(b, head[n])
             /\ cp.slot > head[n].slot
             /\ IF Carries(branch[n], cp)
                THEN UNCHANGED branch
                ELSE branch' = [branch EXCEPT ![n] = b]
       /\ head' = [head EXCEPT ![n] = cp]

\* ingest_checkpoint_votes_from, when the votes complete a quorum: try_finalize
\* checks only that the slot advances.  Fork choice follows if it can.
Finalize(n, cp) ==
    /\ IsIdle(n)
    /\ cp.slot > latest[n].slot
    /\ HasQuorum(cp)
    /\ latest' = [latest EXCEPT ![n] = cp]
    /\ finals' = finals \cup {cp}
    /\ AdvanceHead(n, cp)
    /\ UNCHANGED <<cursor, outbox, unsaved, keyVars, votes>>

\* Mutant: a restarted finalizer starts with an empty ledger.
RestoredEmpty(m) == EmptyLedger

\* Finalizer::restore from the ledger file.
Restored(m) == disk[m]

\* The process dies at any point and is started again: the ledgers come from
\* their files, the cursor from the first slot, and both finality heads from the
\* durable log, which may have stopped at an earlier checkpoint (NodeHeads).
Restart(n) ==
    /\ ledger' = [m \in Member |-> IF m \in Hosted(n) THEN Restored(m) ELSE ledger[m]]
    /\ outbox' = [outbox EXCEPT ![n] = Idle]
    /\ unsaved' = [unsaved EXCEPT ![n] = {}]
    /\ cursor' = [cursor EXCEPT ![n] = 1]
    /\ \E cp \in finals \cup {NoCheckpoint} :
          /\ cp.slot <= latest[n].slot /\ Carries(branch[n], cp)
          /\ latest' = [latest EXCEPT ![n] = cp]
          /\ head' = [head EXCEPT ![n] = cp]
    /\ UNCHANGED <<branch, disk, votes, finals>>

Next ==
    \E n \in Node :
        \/ NewTip(n)
        \/ SignCheckpoint(n)
        \/ \E m \in Member : PersistLedger(n, m)
        \/ AnnounceCheckpoint(n)
        \/ \E cp \in Checkpoint : Finalize(n, cp)
        \/ Restart(n)

Spec == Init /\ [][Next]_vars

-----------------------------------------------------------------------------
(* Properties.                                                             *)

\* A member that follows the code never releases two votes for one slot, across
\* reorganisations, crashes and restarts: "a restarted proposer can never emit
\* the second half of an equivocation pair" (run.rs, recovery.rs).
NeverEquivocates ==
    \A v, w \in votes : v.signer = w.signer /\ v.slot = w.slot => v.block = w.block

\* The ledger on disk is ahead of the network: a vote that left the node is in
\* the file a restart reads (try_checkpoint persists before it announces).
WriteAhead == \A v \in votes : disk[v.signer][v.slot] = v.block

\* No two checkpoints are ever finalized at one slot, by any two nodes or by one
\* node before and after a restart (try_finalize, quorum_threshold).
SlotAgreement == \A f, g \in finals : f.slot = g.slot => f = g

-----------------------------------------------------------------------------
(* A claim of the code's comments that does not hold (README, section 3).  *)

\* A finalized checkpoint is irreversible (finality.rs): all the checkpoints
\* ever finalized, whatever their slots, lie on one branch.
FinalsOnOneBranch ==
    \A f, g \in finals : \E b \in Branch : Carries(b, f) /\ Carries(b, g)
=============================================================================
