----------------------------- MODULE ChainState -----------------------------
(***************************************************************************)
(* The fork-choice store of a node: qlab-devnet, chain.rs, ChainState.     *)
(*                                                                         *)
(* Headers form a tree.  The tip is the head of the heaviest branch, the   *)
(* finality gadget pins a finalized head below which fork choice may never *)
(* reorganise, and main_chain_by_height is an index of the tip's branch    *)
(* that is maintained incrementally, never rebuilt.                        *)
(*                                                                         *)
(* Simplifications.                                                        *)
(*  - A block is its hash; the hash determines the header, so a fresh hash *)
(*    is given its header when it is inserted.  Header contents other than *)
(*    the parent link, the height and the difficulty play no part here.    *)
(*  - An entry stores `line', the hashes from genesis to the block.  The   *)
(*    code finds ancestors by following parent links;                      *)
(*    AncestryFollowsParentLinks says that both give the same answer.      *)
(*  - A refused call (Err(..)) changes no state: it is the step in which   *)
(*    the corresponding action is not enabled.                             *)
(*  - FinalPoint.height always equals the stored height of FinalPoint.hash *)
(*    (both writers copy or compare it), so finalized is the hash alone.   *)
(***************************************************************************)
EXTENDS Integers, Sequences

CONSTANTS
    Hash,         \* block identities a peer may announce
    Genesis,      \* the genesis block
    NoHash,       \* Option::None
    Difficulties, \* the difficulties headers carry
    Annulet,      \* TRUE on a net of GenesisForm::Annulet
    MaxHeight     \* bound: no header above this height is announced

ASSUME GenesisAssumption == Genesis \in Hash
ASSUME NoHashAssumption == NoHash \notin Hash
ASSUME DifficultyAssumption == Difficulties \subseteq Nat
ASSUME AnnuletAssumption == Annulet \in BOOLEAN
ASSUME MaxHeightAssumption == MaxHeight \in Nat

VARIABLES
    blocks,     \* blocks: hash -> Entry, for the known hashes
    tip,        \* tip
    mainChain,  \* main_chain_by_height; index i holds height i - 1
    finalized   \* finalized.hash, or NoHash

chainVars == <<blocks, tip, mainChain, finalized>>

Entry == [prev : Hash \cup {NoHash}, height : Nat, work : Nat, line : Seq(Hash)]

TypeOK ==
    /\ DOMAIN blocks \subseteq Hash
    /\ blocks \in [DOMAIN blocks -> Entry]
    /\ tip \in DOMAIN blocks
    /\ mainChain \in Seq(Hash)
    /\ finalized \in DOMAIN blocks \cup {NoHash}

-----------------------------------------------------------------------------
(* Reading the store.                                                      *)

Known == DOMAIN blocks
HeightOf(h) == blocks[h].height
TipHeight == HeightOf(tip)
TipWork == blocks[tip].work
FinalizedHeight == IF finalized = NoHash THEN -1 ELSE HeightOf(finalized)

\* ancestor: walking from h down to the given height lands on this block.
AncestorAt(store, h, height) == store[h].line[height + 1]

\* Mutant: the walk's landing block is not compared.
IsAbove(store, h, ancestor, height) ==
    /\ h \in DOMAIN store
    /\ height <= store[h].height

\* is_descendant_of, in a given block store.
IsDescendantOf(store, h, ancestor, height) ==
    /\ h \in DOMAIN store
    /\ height <= store[h].height
    /\ AncestorAt(store, h, height) = ancestor

\* descends_from_finalized.
DescendsFromFinalized(store, h) ==
    finalized # NoHash =>
        IsDescendantOf(store, h, finalized, store[finalized].height)

\* The weight a header adds: its difficulty, or 1 on an Annulet net.
Weight(difficulty) == IF Annulet THEN 1 ELSE difficulty

-----------------------------------------------------------------------------
(* Changing the tip.                                                       *)

\* The highest position at which the index already holds the branch's block.
ForkPosition(line) ==
    CHOOSE i \in 1 .. Len(mainChain) :
        /\ i <= Len(line) /\ mainChain[i] = line[i]
        /\ \A j \in 1 .. Len(mainChain) :
              j <= Len(line) /\ mainChain[j] = line[j] => j <= i

\* Mutant: the losing suffix is not cut off.
ReindexedWithoutTruncating(newTip, entry) ==
    mainChain \o SubSeq(entry.line, ForkPosition(entry.line) + 1, Len(entry.line))

\* adopt_tip: the index once newTip, stored as entry, is the tip.  A direct
\* extension is appended; otherwise the suffix above the fork is replaced.
Reindexed(newTip, entry) ==
    IF entry.prev = tip /\ entry.height = Len(mainChain)
    THEN Append(mainChain, newTip)
    ELSE LET fork == ForkPosition(entry.line)
         IN  SubSeq(mainChain, 1, fork)
                \o SubSeq(entry.line, fork + 1, Len(entry.line))

-----------------------------------------------------------------------------
(* Operations.                                                             *)

Init ==
    /\ \E d \in Difficulties :
          blocks = [h \in {Genesis} |->
                       [prev |-> NoHash, height |-> 0, work |-> d, line |-> <<Genesis>>]]
    /\ tip = Genesis
    /\ mainChain = <<Genesis>>
    /\ finalized = NoHash

\* The store after a header is linked to its known parent.
Linked(hash, prev, difficulty) ==
    LET parent == blocks[prev]
        entry  == [prev   |-> prev,
                   height |-> parent.height + 1,
                   work   |-> parent.work + Weight(difficulty),
                   line   |-> Append(parent.line, hash)]
    IN  [h \in Known \cup {hash} |-> IF h = hash THEN entry ELSE blocks[h]]

\* Mutant: the longest branch wins, not the heaviest.
Longer(entry) == entry.height > TipHeight

\* A stored block replaces the tip only with strictly more work: ties keep the
\* incumbent.
Outweighs(entry) == entry.work > TipWork

\* insert_header.  Guards: not a Duplicate, the parent is known, the height is
\* the parent's plus one.  The tip moves to a strictly heavier block that
\* descends from the finalized head.
InsertHeader(hash, prev, height, difficulty) ==
    /\ hash \notin Known
    /\ prev \in Known
    /\ height = HeightOf(prev) + 1
    /\ blocks' = Linked(hash, prev, difficulty)
    /\ IF Outweighs(blocks'[hash]) /\ DescendsFromFinalized(blocks', hash)
       THEN /\ mainChain' = Reindexed(hash, blocks'[hash])
            /\ tip' = hash
       ELSE UNCHANGED <<mainChain, tip>>
    /\ UNCHANGED finalized

\* Mutant: a higher block of any branch is accepted.
CanFinalizeAnyHigher(hash) ==
    /\ hash \in Known
    /\ HeightOf(hash) > FinalizedHeight

\* set_finalized accepts hash.
CanFinalize(hash) ==
    /\ hash \in Known
    /\ HeightOf(hash) > FinalizedHeight
    /\ DescendsFromFinalized(blocks, hash)

\* Mutant: the tip stays where it is.
TipKeptOnFinalize(hash) ==
    /\ finalized' = hash
    /\ UNCHANGED <<tip, mainChain>>

\* set_finalized moves the head and, when the tip is on another branch,
\* re-anchors the tip to the finalized block itself.
FinalizeAndReanchor(hash) ==
    /\ finalized' = hash
    /\ IF IsDescendantOf(blocks, tip, hash, HeightOf(hash))
       THEN UNCHANGED <<tip, mainChain>>
       ELSE /\ mainChain' = Reindexed(hash, blocks[hash])
            /\ tip' = hash

SetFinalized(hash) ==
    /\ CanFinalize(hash)
    /\ FinalizeAndReanchor(hash)
    /\ UNCHANGED blocks

\* Mutant: the recorded point is taken as it is.
RestoreUnchecked(hash, height) ==
    /\ finalized = NoHash
    /\ finalized' = hash
    /\ UNCHANGED <<blocks, tip, mainChain>>

\* restore_finalized, called while a store is rebuilt and has no head yet: the
\* recorded point must be known at the recorded height and below the tip.
RestoreFinalized(hash, height) ==
    /\ finalized = NoHash
    /\ hash \in Known
    /\ HeightOf(hash) = height
    /\ IsDescendantOf(blocks, tip, hash, height)
    /\ finalized' = hash
    /\ UNCHANGED <<blocks, tip, mainChain>>

Next ==
    \/ \E hash \in Hash, prev \in Known, height \in 0 .. MaxHeight, d \in Difficulties :
          InsertHeader(hash, prev, height, d)
    \/ \E hash \in Hash : SetFinalized(hash)
    \/ \E hash \in Hash, height \in 0 .. MaxHeight : RestoreFinalized(hash, height)

Spec == Init /\ [][Next]_chainVars

-----------------------------------------------------------------------------
(* Properties.                                                             *)

\* The incrementally maintained index is the tip's branch, genesis to tip: the
\* suffix replacement in adopt_tip cuts and appends at the right place.
IndexIsTipBranch == mainChain = blocks[tip].line

\* Every tip descends from the finalized head, whatever work competing branches
\* carry (the comment on ChainState.finalized and on insert_header).
TipDescendsFromFinalized == DescendsFromFinalized(blocks, tip)

\* The block n parent links below h, for every n; NoHash past genesis.
ParentWalk(h) ==
    LET walk[n \in Nat] ==
            IF n = 0 THEN h
            ELSE IF walk[n - 1] = NoHash THEN NoHash ELSE blocks[walk[n - 1]].prev
    IN  walk

\* is_descendant_of, which follows parent links in ChainState::ancestor, gives
\* the same answer as the stored branch of the block, for every pair of blocks.
AncestryFollowsParentLinks ==
    \A a, b \in Known :
        IsDescendantOf(blocks, b, a, HeightOf(a))
            <=> /\ HeightOf(a) <= HeightOf(b)
                /\ ParentWalk(b)[HeightOf(b) - HeightOf(a)] = a

\* The blocks of the main chain up to the finalized head.
FinalizedBlocks ==
    IF finalized = NoHash THEN <<Genesis>>
    ELSE SubSeq(mainChain, 1, HeightOf(finalized) + 1)

FP == INSTANCE FinalizedPrefix WITH final <- FinalizedBlocks

\* "No reorg past a finalized checkpoint, EVER": the main chain below the
\* finalized head is a list that only grows (insert_header, set_finalized).
FinalizedOnlyGrows == FP!Spec

\* No stored block that fork choice may adopt outweighs the tip.
TipIsHeaviest ==
    \A h \in Known : DescendsFromFinalized(blocks, h) => blocks[h].work <= TipWork

\* The tip is "the heaviest-chain head" (the comments on ChainState and on
\* tip_hash): it stays the heaviest block, whatever headers arrive, until finality
\* marks a block that is not on the main chain.
HeaviestKept ==
    [][/\ TipIsHeaviest
       /\ finalized' = NoHash \/ \E i \in DOMAIN mainChain : finalized' = mainChain[i]
       => TipIsHeaviest']_chainVars
=============================================================================
