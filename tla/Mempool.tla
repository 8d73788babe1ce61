------------------------------- MODULE Mempool -------------------------------
(***************************************************************************)
(* The transaction pool and the name registry of a node whose state        *)
(* machine advances, rewinds and restarts as in NodeHeads (mempool.rs,     *)
(* names.rs, name_registry.rs).                                            *)
(*                                                                         *)
(* A transaction is judged once, at admission, against the applied chain;  *)
(* after that only on_block_connected looks at it again, once per applied  *)
(* block, and a block template is whatever is pooled.  The pool is right   *)
(* when that maintenance keeps it equal to what block validation would say.*)
(*                                                                         *)
(* A transaction is its nullifiers, its anchor (the block after which the  *)
(* commitment root was current), its weight and the name operation it      *)
(* carries.  Simplifications: proofs, discovery groups, fees and record    *)
(* grammar are pure functions of the transaction and are good; every root  *)
(* is the root after one block only; riders are active at every height     *)
(* (GenesisForm::V5, no V6 sections); bodies the network mines are valid.  *)
(***************************************************************************)
EXTENDS NodeHeads

CONSTANTS
    Tx,           \* the transactions of wallets and miners
    Surface,      \* their nullifiers, anchor, weight and name operation
    Commits,      \* the values of commit_hash
    Body,         \* the transactions of each block, in order
    FeeOrder,     \* all transactions, highest fee first, then by id
    Names,        \* names that can be registered
    MaxAnchorAge, \* MAX_ANCHOR_AGE_BLOCKS
    CommitMinAge, \* COMMIT_MIN_AGE
    CommitMaxAge, \* COMMIT_MAX_AGE
    NameTerm,     \* NAME_TERM_BLOCKS
    NameGrace,    \* NAME_GRACE_BLOCKS
    Median        \* the effective median block weight

NameOps == [kind : {"none", "commit", "reveal", "renew"}, name : Names, commit : Commits]

ASSUME SurfaceAssumption ==
    Surface \in [Tx -> [nullifiers : SUBSET Nat, anchor : Hash, weight : Nat, op : NameOps]]
ASSUME BodyAssumption == Body \in [Hash -> Seq(Tx)]
ASSUME OrderAssumption == FeeOrder \in Seq(Tx) /\ IsInjective(FeeOrder) /\ ToSet(FeeOrder) = Tx
ASSUME AgeAssumption ==
    {MaxAnchorAge, CommitMinAge, CommitMaxAge, NameTerm, NameGrace, Median} \subseteq Nat

VARIABLE pool \* Mempool::txs

poolVars == <<nodeVars, pool>>

PoolTypeOK ==
    /\ NodeTypeOK
    /\ pool \subseteq Tx
    /\ \A t, u \in pool : t # u => Surface[t].nullifiers \cap Surface[u].nullifiers = {}

-----------------------------------------------------------------------------
(* The name registry, replayed from the riders of a line of blocks.        *)

\* NameRegistry: the height of each commit and the expiry of each name; -1 for none.
EmptyRegistry == [commits |-> [c \in Commits |-> -1], expiry |-> [n \in Names |-> -1]]

\* extended_expiry.
ExtendedExpiry(current, height) == Max({current, height}) + NameTerm

\* One rider of apply_block_riders.
ApplyRider(reg, op, height) ==
    CASE op.kind = "none" -> reg
      [] op.kind = "commit" ->
            IF reg.commits[op.commit] = -1 THEN [reg EXCEPT !.commits[op.commit] = height] ELSE reg
      [] op.kind = "reveal" -> [reg EXCEPT !.expiry[op.name] = ExtendedExpiry(-1, height)]
      [] op.kind = "renew" ->
            IF reg.expiry[op.name] = -1 THEN reg
            ELSE [reg EXCEPT !.expiry[op.name] = ExtendedExpiry(@, height)]

\* apply_block_riders: commits no reveal can use any more are pruned first.
ApplyBlockRiders(reg, block) ==
    LET height == HeightIn(block)
        kept   == [reg EXCEPT !.commits =
                      [c \in Commits |-> IF @[c] >= height - CommitMaxAge THEN @[c] ELSE -1]]
    IN  FoldLeft(LAMBDA r, t : ApplyRider(r, Surface[t].op, height), kept, Body[block])

Registry(line) == FoldLeft(ApplyBlockRiders, EmptyRegistry, Tail(line))

\* reopens_at: a name is held to the end of its grace.
Held(reg, name, height) ==
    reg.expiry[name] # -1 /\ height < reg.expiry[name] + NameGrace

\* commit_included_in, for a reveal at the given height.
CommitInWindow(reg, commit, height) ==
    /\ height >= CommitMinAge
    /\ reg.commits[commit] # -1
    /\ reg.commits[commit] \in height - CommitMaxAge .. height - CommitMinAge

\* check_op; pending: the names revealed earlier in the same block.
CheckOp(reg, height, op, pendingNames) ==
    CASE op.kind \in {"none", "commit"} -> TRUE
      [] op.kind = "reveal" ->
            /\ CommitInWindow(reg, op.commit, height)
            /\ op.name \notin pendingNames
            /\ ~ Held(reg, op.name, height)
      [] op.kind = "renew" -> op.name \in pendingNames \/ Held(reg, op.name, height)

-----------------------------------------------------------------------------
(* What block validation asks of a transaction on a line of blocks.        *)

\* is_valid_anchor: the root of a finalized block within the window.
IsValidAnchor(line, final, anchor) ==
    /\ final # NoHash
    /\ anchor \in ToSet(line)
    /\ HeightIn(anchor) <= HeightIn(final)
    /\ HeightOfLine(line) - HeightIn(anchor) <= MaxAnchorAge

\* is_spent.
Spent(line) ==
    UNION {UNION {Surface[t].nullifiers : t \in ToSet(Body[h])} : h \in ToSet(line)}

\* validate_body_form and the nullifier check of apply_state, on the block that
\* extends line with txs.
ValidBody(line, final, txs) ==
    LET reg    == Registry(line)
        height == Len(line)
        spent  == Spent(line)
        earlier(i) == {txs[j] : j \in 1 .. i - 1}
        revealed(i) == {Surface[t].op.name : t \in {u \in earlier(i) : Surface[u].op.kind = "reveal"}}
    IN  \A i \in DOMAIN txs :
           LET s == Surface[txs[i]]
           IN  /\ IsValidAnchor(line, final, s.anchor)
               /\ CheckOp(reg, height, s.op, revealed(i))
               /\ s.nullifiers \cap spent = {}
               /\ \A t \in earlier(i) : s.nullifiers \cap Surface[t].nullifiers = {}

-----------------------------------------------------------------------------
(* The pool.                                                               *)

\* admit_above: the candidate alone would be valid next, and shares no nullifier
\* with a pooled one.
Admits(t) ==
    /\ ValidBody(applied, stateFinal, <<t>>)
    /\ t \notin pool
    /\ \A u \in pool : Surface[t].nullifiers \cap Surface[u].nullifiers = {}

\* Mutant: the name leg is left out.
EvictsSpentOnly(line, final, t) ==
    \/ Surface[t].nullifiers
          \cap UNION {Surface[u].nullifiers : u \in ToSet(Body[Last(line)])} # {}
    \/ ~ IsValidAnchor(line, final, Surface[t].anchor)

\* Mutant: anchors are not looked at again.
EvictsWithoutAnchor(line, final, t) ==
    \/ Surface[t].nullifiers
          \cap UNION {Surface[u].nullifiers : u \in ToSet(Body[Last(line)])} # {}
    \/ ~ CheckOp(Registry(line), Len(line), Surface[t].op, {})

\* Mutant: the anchor's age is judged at the height of the next block.
EvictsEarly(line, final, t) ==
    \/ Surface[t].nullifiers
          \cap UNION {Surface[u].nullifiers : u \in ToSet(Body[Last(line)])} # {}
    \/ ~ IsValidAnchor(line, final, Surface[t].anchor)
    \/ Len(line) - HeightIn(Surface[t].anchor) > MaxAnchorAge
    \/ ~ CheckOp(Registry(line), Len(line), Surface[t].op, {})

\* on_block_connected_above: what the block at the end of line evicts.
Evicts(line, final, t) ==
    \/ Surface[t].nullifiers
          \cap UNION {Surface[u].nullifiers : u \in ToSet(Body[Last(line)])} # {}
    \/ ~ IsValidAnchor(line, final, Surface[t].anchor)
    \/ ~ CheckOp(Registry(line), Len(line), Surface[t].op, {})

\* The drain: each applied block is connected in turn, before finality follows.
Connected(txs, line, from) ==
    FoldLeft(LAMBDA p, n : {t \in p : ~ Evicts(SubSeq(line, 1, n), stateFinal, t)},
             txs, [i \in 1 .. Len(line) - from |-> from + i])

\* Mutant: the fill takes every reveal that fits.
TakesEveryReveal(chosen, t) ==
    FoldLeft(LAMBDA w, u : w + Surface[u].weight, 0, chosen) + Surface[t].weight <= Median

\* The fill loop of assemble: one reveal of a name, within the penalty-free zone.
Takes(chosen, t) ==
    /\ Surface[t].op.kind = "reveal" =>
          \A u \in ToSet(chosen) :
             Surface[u].op.kind = "reveal" => Surface[u].op.name # Surface[t].op.name
    /\ FoldLeft(LAMBDA w, u : w + Surface[u].weight, 0, chosen) + Surface[t].weight <= Median

\* assemble: the pooled transactions in the order of their fees.
Template(txs) ==
    FoldLeft(LAMBDA chosen, t : IF t \in txs /\ Takes(chosen, t) THEN Append(chosen, t) ELSE chosen,
             <<>>, FeeOrder)

\* StateLag::is_lagging.
Lagging == Len(mainChain) > Len(applied)

-----------------------------------------------------------------------------

PoolInit == NodeInit /\ pool = {}

\* submit_tx_typed: refused while the state machine lags.
SubmitTx(t) ==
    /\ ~ Lagging
    /\ Admits(t)
    /\ pool' = pool \cup {t}
    /\ UNCHANGED nodeVars

\* The block handlers, with what their drain does to the pool.
ConnectsBlocks == pool' = Connected(pool, applied', Shared(applied, applied'))

PoolNext ==
    \/ \E t \in Tx : SubmitTx(t)
    \/ \E h \in Hash \ {Genesis} : SubmitHeader(h) /\ UNCHANGED pool
    \/ \E h \in Hash \ {Genesis} : IngestBlock(h) /\ ConnectsBlocks
    \/ \E cp \in FinalLine : IngestVotes(cp) /\ UNCHANGED pool
    \/ Restart /\ pool' = {}
    \/ \E h \in Hash \ {Genesis} : CrashInDrain(h) /\ pool' = {}

PoolSpec == PoolInit /\ [][PoolNext]_poolVars

\* Peers keep announcing blocks, and missing bodies are asked for again: every
\* body arrives over and over.
FairPoolSpec ==
    /\ PoolSpec
    /\ \A h \in Hash \ {Genesis} : WF_nodeVars(IngestBlock(h))

-----------------------------------------------------------------------------
(* Properties.                                                             *)

\* "Keeps the pool a set of txs that can still be mined next" (on_block_connected):
\* across rewinds, finalizations and expiries.
PoolStaysMinable == \A t \in pool : ValidBody(applied, stateFinal, <<t>>)

\* "A mempool-admitted tx set assembles into a body the node accepts": on the tip
\* the pool was judged against.
TemplateValidates == ValidBody(applied, stateFinal, Template(pool))

\* on_block_connected, once per block of a drain, drops no transaction that can still be
\* mined: one that leaves is invalid on the chain the drain ends with, or its name
\* operation was refused on the block of the drain that evicted it (a later block of
\* the same drain may carry its commit again: the pool does not take it back).
EvictsOnlyDoomed ==
    [][restarts' = restarts =>
          \A t \in pool \ pool' :
             \/ ~ ValidBody(applied', stateFinal, <<t>>)
             \/ \E n \in Shared(applied, applied') + 1 .. Len(applied') :
                   ~ CheckOp(Registry(SubSeq(applied', 1, n)), n, Surface[t].op, {})]_poolVars

-----------------------------------------------------------------------------
(* A claim of the code's comments that does not hold (README, section 3).  *)

\* "A mempool-admitted tx set assembles into a body the node accepts" (mempool.rs), of
\* the block the node mines: on the fork-choice tip, unless the state machine lags
\* (mining_parent_hash).
OwnBlockValidates == ~ Lagging => ValidBody(mainChain, stateFinal, Template(pool))
=============================================================================
