----------------------------- MODULE VoteIngest -----------------------------
(***************************************************************************)
(* How one node turns checkpoint votes into finality: the bounded tally    *)
(* (tally.rs), the members whose votes count (committee.rs), the record of *)
(* who signed and the downtime jail (ebbflow.rs), as absorb_votes          *)
(* (node.rs) and ingest_checkpoint_votes_from (adapter.rs) drive them.     *)
(*                                                                         *)
(* Simplifications.                                                        *)
(*  - A slot is a checkpoint height, in units of the cadence; the tip is   *)
(*    the last slot the chain has reached.  TALLY_TIP_SLACK and            *)
(*    JAIL_BLOCKS are whole cadences in the code.  Genesis, slot 0, is     *)
(*    left out, so 0 stands for "nothing finalized".                       *)
(*  - One epoch: a member is its own index (Punishment has the epochs).    *)
(*  - No halt is scheduled.  Fork choice and the durable finalized head,   *)
(*    which follow the tracker, are in NodeHeads.                          *)
(***************************************************************************)
EXTENDS Integers, FiniteSets, FiniteSetsExt, Sequences, SequencesExt

CONSTANTS
    Member,           \* the committee
    Block,            \* checkpoint blocks
    NoBlock,          \* "no block"
    MaxSlot,          \* bound: the slots of the run
    Signed,           \* slot -> block -> the members that sign it
    Group,            \* the sets of members whose votes travel in one message
    Requestable,      \* may the node ask a peer for a finalized checkpoint?
    TipSlack,         \* TALLY_TIP_SLACK
    MaxTalliedSlots,  \* MAX_TALLIED_SLOTS
    MaxVariants,      \* MAX_VARIANTS_PER_SLOT
    JailTerm,         \* JAIL_BLOCKS
    Window,           \* DOWNTIME_JAIL_WINDOW
    ThresholdPct      \* DOWNTIME_JAIL_THRESHOLD_PCT

Slot == 1 .. MaxSlot

ASSUME MemberAssumption == IsFiniteSet(Member)
ASSUME NoBlockAssumption == NoBlock \notin Block
ASSUME SignedAssumption == Signed \in [Slot -> [Block -> SUBSET Member]]
ASSUME GroupAssumption == Group \subseteq SUBSET Member
ASSUME RequestAssumption == Requestable \in BOOLEAN
ASSUME BoundAssumption ==
    /\ MaxSlot \in Nat /\ TipSlack \in Nat /\ JailTerm \in Nat /\ ThresholdPct \in Nat
    /\ MaxTalliedSlots \in Nat \ {0} /\ MaxVariants \in Nat \ {0} /\ Window \in Nat \ {0}

VARIABLES
    tip,          \* the last slot at or below the chain's tip
    tally,        \* VoteTally.slots: slot -> block -> the signers held
    finalized,    \* FinalityTracker.finalized, oldest first
    votesSeen,    \* votes_seen: slot -> member -> the first block it voted for
    tombstoned,   \* members proved to have equivocated
    jailedUntil,  \* member -> the slot its jail ends at; 0 when never jailed
    rounds        \* SigningWindow.rounds: the signers of the last finalized checkpoints

vars == <<tip, tally, finalized, votesSeen, tombstoned, jailedUntil, rounds>>

Checkpoint == [slot : Slot, block : Block]

TypeOK ==
    /\ tip \in 0 .. MaxSlot
    /\ DOMAIN tally \subseteq Slot /\ Cardinality(DOMAIN tally) <= MaxTalliedSlots
    /\ \A s \in DOMAIN tally :
          /\ DOMAIN tally[s] \subseteq Block /\ Cardinality(DOMAIN tally[s]) <= MaxVariants
          /\ \A b \in DOMAIN tally[s] : tally[s][b] \subseteq Signed[s][b]
    /\ finalized \in Seq(Checkpoint)
    /\ votesSeen \in [Slot -> [Member -> Block \cup {NoBlock}]]
    /\ tombstoned \subseteq Member
    /\ jailedUntil \in [Member -> 0 .. MaxSlot + JailTerm]
    /\ rounds \in Seq(SUBSET Member) /\ Len(rounds) <= Window

-----------------------------------------------------------------------------
(* The committee and the finalized head.                                   *)

\* quorum_threshold: over the whole membership, whoever is excluded.
Quorum == (2 * Cardinality(Member)) \div 3 + 1

FinalizedSlot == IF finalized = <<>> THEN 0 ELSE Last(finalized).slot

\* CommitteeState::is_active, with the tombstones `dead'.
IsActive(m, dead, s) == m \notin dead /\ s >= jailedUntil[m]

-----------------------------------------------------------------------------
(* The tally.                                                              *)

\* VoteTally::prune.
Pruned == [s \in {t \in DOMAIN tally : t > FinalizedSlot /\ t <= tip + TipSlack} |-> tally[s]]

Variants(held, s) == IF s \in DOMAIN held THEN DOMAIN held[s] ELSE {}

Voters(held, cp) == IF cp.block \in Variants(held, cp.slot) THEN held[cp.slot][cp.block] ELSE {}

\* Mutant: a lower slot may still be finalized.
AnySlotAdvances(cp) == TRUE

\* The floor of the tally's window, and try_finalize's NotAdvancing.
Advances(cp) == cp.slot > FinalizedSlot

\* Mutant: the variants of a slot are not counted.
AdmitsAnyVariant(held, cp) == TRUE

\* A slot holds at most MAX_VARIANTS_PER_SLOT checkpoints.
AdmitsVariant(held, cp) ==
    \/ cp.block \in Variants(held, cp.slot)
    \/ Cardinality(Variants(held, cp.slot)) < MaxVariants

\* At most MAX_TALLIED_SLOTS slots: a new slot that would be the lowest is refused.
AdmitsSlot(held, cp) ==
    \/ cp.slot \in DOMAIN held
    \/ Cardinality(DOMAIN held) < MaxTalliedSlots
    \/ \E s \in DOMAIN held : s < cp.slot

\* add_inner's early returns; `complete' is add_requested_complete's set, which
\* may be ahead of the tip.
Admits(held, cp, complete) ==
    /\ Advances(cp)
    /\ complete \/ cp.slot <= tip + TipSlack
    /\ AdmitsVariant(held, cp)
    /\ AdmitsSlot(held, cp)

\* The tally with `kept' added: when a slot is too many, the lowest is dropped.
Added(held, cp, kept) ==
    LET slots == DOMAIN held \cup {cp.slot}
        live == IF Cardinality(slots) > MaxTalliedSlots THEN slots \ {Min(slots)} ELSE slots
    IN  [s \in live |->
            IF s # cp.slot THEN held[s]
            ELSE [b \in Variants(held, s) \cup {cp.block} |->
                     IF b = cp.block THEN Voters(held, cp) \cup kept ELSE held[s][b]]]

-----------------------------------------------------------------------------
(* The jail.                                                               *)

\* SigningWindow::record_round.
Recorded(signers) ==
    LET all == Append(rounds, signers)
    IN  IF Len(all) > Window THEN Tail(all) ELSE all

\* SigningWindow::jailable.
Jailable(m, trail) ==
    /\ Len(trail) >= Window
    /\ Cardinality({i \in DOMAIN trail : m \in trail[i]}) * 100 < ThresholdPct * Len(trail)

\* apply_downtime_jails; CommitteeState::jail refuses a tombstoned member.
Jailed(trail, dead, s) ==
    [m \in Member |-> IF Jailable(m, trail) /\ m \notin dead THEN s + JailTerm ELSE jailedUntil[m]]

-----------------------------------------------------------------------------
(* Actions.                                                                *)

Init ==
    /\ tip = 0
    /\ tally = <<>>
    /\ finalized = <<>>
    /\ votesSeen = [s \in Slot |-> [m \in Member |-> NoBlock]]
    /\ tombstoned = {}
    /\ jailedUntil = [m \in Member |-> 0]
    /\ rounds = <<>>

\* The chain reaches the next slot.
GrowTip ==
    /\ tip < MaxSlot
    /\ tip' = tip + 1
    /\ UNCHANGED <<tally, finalized, votesSeen, tombstoned, jailedUntil, rounds>>

\* observe_votes and apply_evidence: a first vote is remembered, and a member
\* with a vote for another block of the slot is tombstoned.
Equivocators(cp, voters) == {m \in voters : votesSeen[cp.slot][m] \notin {NoBlock, cp.block}}

Observed(cp, voters) ==
    [votesSeen EXCEPT ![cp.slot] = [m \in Member |->
        IF m \in voters /\ @[m] = NoBlock THEN cp.block ELSE @[m]]]

\* Mutant: the accumulated set goes to the gate as it is.
AllAccumulated(voters, dead, s) == voters

\* active_now: the accumulated set, filtered again by the status of now.
ActiveNow(voters, dead, s) == {m \in voters : IsActive(m, dead, s)}

\* Nothing new, or a refusal: the prune is all that happened.
NothingLearned(held) ==
    /\ tally' = held
    /\ UNCHANGED <<finalized, jailedUntil, rounds>>

\* try_finalize accepts: the head advances, the round is recorded, members are
\* jailed for it, and the slot leaves the tally.
Finalize(held, cp, counted, dead) ==
    /\ finalized' = Append(finalized, cp)
    /\ rounds' = Recorded(counted)
    /\ jailedUntil' = Jailed(rounds', dead, cp.slot)
    /\ tally' = [s \in DOMAIN held \ {cp.slot} |-> held[s]]

\* ingest_checkpoint_votes_from, with the tombstones the observation left.
Ingest(cp, voters, requested, dead) ==
    LET kept == {m \in voters : IsActive(m, dead, cp.slot)}
        complete == requested /\ Cardinality(kept) >= Quorum
    IN  \E held \in {Pruned} :
           \/ /\ ~ Admits(held, cp, complete)
              /\ NothingLearned(held)
           \/ /\ Admits(held, cp, complete)
              /\ \E next \in {Added(held, cp, kept)} :
                    \E counted \in {ActiveNow(next[cp.slot][cp.block], dead, cp.slot)} :
                       \/ /\ \/ kept \subseteq Voters(held, cp)        \* did not grow
                             \/ Cardinality(counted) < Quorum
                          /\ NothingLearned(next)
                       \/ /\ ~ kept \subseteq Voters(held, cp)
                          /\ Cardinality(counted) >= Quorum
                          /\ Finalize(next, cp, counted, dead)

\* A checkpoint already finalized here (seen_checkpoints), or a message with a
\* forged, unknown or repeated signer, is dropped after the observation.
Dropped == UNCHANGED <<tally, finalized, jailedUntil, rounds>>

\* absorb_votes: the votes of one message are observed, then tallied.
AbsorbVotes(cp, group, requested) ==
    \E voters \in {Signed[cp.slot][cp.block] \cap group} :
       /\ votesSeen' = Observed(cp, voters)
       /\ tombstoned' = tombstoned \cup Equivocators(cp, voters)
       /\ \/ Dropped
          \/ /\ \A i \in DOMAIN finalized : finalized[i] # cp
             /\ Ingest(cp, voters, requested, tombstoned')
       /\ UNCHANGED tip

\* A restart keeps the punishments, the chain as far as its blocks were applied,
\* and a finalized checkpoint, the last one or, when the durable head lagged, an
\* earlier one; the rest was in memory only.
Restart ==
    /\ \E i \in 0 .. Len(finalized) :
          finalized' = IF i = 0 THEN <<>> ELSE <<finalized[i]>>
    /\ tally' = <<>>
    /\ votesSeen' = [s \in Slot |-> [m \in Member |-> NoBlock]]
    /\ jailedUntil' = [m \in Member |-> 0]
    /\ rounds' = <<>>
    /\ tip' \in 0 .. tip
    /\ FinalizedSlot' <= tip'
    /\ UNCHANGED tombstoned

Next ==
    \/ GrowTip
    \/ \E cp \in Checkpoint, g \in Group : AbsorbVotes(cp, g, FALSE)
    \/ \E cp \in Checkpoint, g \in Group : Requestable /\ AbsorbVotes(cp, g, TRUE)
    \/ Restart

Spec == Init /\ [][Next]_vars

-----------------------------------------------------------------------------
(* Properties.                                                             *)

\* "Tombstoned votes MUST NOT count toward quorum" (epoch.rs): a checkpoint is
\* finalized by a quorum of members that signed it and are, at that moment,
\* neither tombstoned nor jailed at its slot, however their votes were spread
\* over messages and whatever was proved of them in between.
CountedVotersMayVote ==
    [][Len(finalized') > Len(finalized) =>
          LET cp == Last(finalized')
              counted == Last(rounds')
          IN  /\ Cardinality(counted) >= Quorum
              /\ counted \subseteq Signed[cp.slot][cp.block] \ tombstoned'
              /\ \A m \in counted : cp.slot >= jailedUntil[m]]_vars

\* The finalized checkpoints of a run of the process are of ascending slots
\* (finality.rs): late votes for another variant of a finalized slot, or for a
\* skipped one, finalize nothing.
FinalizedAscends ==
    \A i, j \in DOMAIN finalized : i < j => finalized[i].slot < finalized[j].slot

-----------------------------------------------------------------------------
(* A claim of the code's comments that does not hold (README, section 3).  *)

\* "jail ... a member that signed fewer than 33 % of the trailing 100 finalized
\* checkpoints" (ebbflow.rs): who is jailed signed less than the threshold of
\* the checkpoints the window covers.
JailedOnlyIfAbsent ==
    [][\A m \in Member : jailedUntil'[m] > jailedUntil[m] =>
          LET trail == SubSeq(finalized', Len(finalized') - Len(rounds') + 1, Len(finalized'))
              signed == {i \in DOMAIN trail : m \in Signed[trail[i].slot][trail[i].block]}
          IN  Cardinality(signed) * 100 < ThresholdPct * Len(trail)]_vars
=============================================================================
