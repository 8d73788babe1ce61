----------------------------- MODULE Punishment -----------------------------
(***************************************************************************)
(* One node's adjudication of equivocations: the votes it has seen, the    *)
(* evidence it builds or receives (node.rs, adapter.rs, ebbflow.rs), the   *)
(* roster that is sealed at every epoch boundary (epoch.rs), the durable   *)
(* ledger of punishments and its replay at a restart (punish.rs).          *)
(*                                                                         *)
(* A vote names its signer by an index into the roster of its height, and  *)
(* the signature does not cover the index.  Dropping a tombstoned member   *)
(* at a boundary moves every later member down by one.                     *)
(*                                                                         *)
(* Simplifications.                                                        *)
(*  - Every vote is a valid signature of its key over its checkpoint.      *)
(*    Votes and evidence that do not verify are skipped, with a penalty    *)
(*    for the peer that is not represented.                                *)
(*  - Two blocks per height are enough for a conflict, so the evidence of  *)
(*    a height, an index and a key is one record.                          *)
(*  - Jails do not move indices and are in VoteIngest.  No membership      *)
(*    change is ever staged outside tests.                                 *)
(*  - The save precedes the effect and is an atomic rename; a crash        *)
(*    between the two restarts like a crash after both.  A failed save is  *)
(*    reported, and loses the record at the next start; it is left out.    *)
(***************************************************************************)
EXTENDS Integers, FiniteSets, Sequences, SequencesExt

CONSTANTS
    GenesisRoster,  \* the committee, in index order
    Byzantine,      \* the members that sign both blocks of a height
    EpochLength,    \* EPOCH_LENGTH_BLOCKS
    MaxHeight,      \* bound: the heights the chain reaches
    VoteHeight,     \* the checkpoint heights votes are cast for
    Bond,           \* every member's bond
    InEpochOnly,    \* do votes and evidence arrive only in the epoch of their height?
    BodyLag         \* bound: how far the applied tip may be behind the header tip

Member == ToSet(GenesisRoster)

ASSUME RosterAssumption == GenesisRoster \in Seq(Member) /\ IsInjective(GenesisRoster)
ASSUME ByzantineAssumption == Byzantine \subseteq Member
ASSUME BoundAssumption ==
    /\ EpochLength \in Nat \ {0} /\ MaxHeight \in Nat /\ Bond \in Nat
    /\ BodyLag \in Nat \ {0} /\ VoteHeight \subseteq Nat
ASSUME InEpochAssumption == InEpochOnly \in BOOLEAN

Block == {"a", "b"}
Index == 1 .. Len(GenesisRoster)

VARIABLES
    tip,        \* the height of the header tip
    applied,    \* the height of the applied tip, from which a restart resumes
    committee,  \* EpochCommittee, the epochs' rosters and the members' standing
    votesSeen,  \* votes_seen: (height, index) -> the first vote seen, or none yet
    seen,       \* the evidence already gossiped
    ledger,     \* punishments, and punishments.dat
    up          \* FALSE once the node has refused to open its ledger

vars == <<tip, applied, committee, votesSeen, seen, ledger, up>>

Evidence == [height : VoteHeight, index : Index, key : Member]
Vote == [height : VoteHeight, index : Index, key : Member, block : Block]

-----------------------------------------------------------------------------
(* The epoch machinery.                                                    *)

EpochOf(h) == h \div EpochLength

\* `punished' keeps the members tombstoned so far, dropped ones included.
GenesisCommittee ==
    [epoch |-> 0, roster |-> GenesisRoster, history |-> <<>>,
     punished |-> {}, bond |-> [m \in Member |-> Bond]]

\* What is left of a roster, in its order.
Without(roster, gone) ==
    FoldLeft(LAMBDA kept, m : IF m \in gone THEN kept ELSE Append(kept, m), <<>>, roster)

\* EpochCommittee::seal: tombstoned members leave the roster.  history[e + 1] is
\* the roster of epoch e.
Sealed(c) ==
    [c EXCEPT !.epoch = @ + 1,
              !.history = Append(@, c.roster),
              !.roster = Without(@, c.punished)]

\* EpochCommittee::advance_to.
AdvancedTo(c, h) ==
    FoldLeft(LAMBDA acc, e : Sealed(acc), c, [e \in 1 .. EpochOf(h) - c.epoch |-> e])

\* EpochCommittee::state_for_height.
RosterFor(c, h) == IF EpochOf(h) >= c.epoch THEN c.roster ELSE c.history[EpochOf(h) + 1]

\* verify_vote: the index resolves and the key there made the signature.
Verifies(c, v) ==
    LET roster == RosterFor(c, v.height)
    IN  v.index \in DOMAIN roster /\ roster[v.index] = v.key

\* CommitteeState::tombstone and equivocation_slash: the member now at the index
\* loses a tenth of its bond, once.
Tombstoned(c, i) ==
    IF i \notin DOMAIN c.roster \/ c.roster[i] \in c.punished THEN c
    ELSE [c EXCEPT !.punished = @ \cup {c.roster[i]}, !.bond[c.roster[i]] = @ - @ \div 10]

-----------------------------------------------------------------------------
(* The replay at a restart.                                                *)

\* Mutant: every record is replayed against the genesis roster.
ReplayedAtGenesis(c, h) == c

\* replay: each record advances the epochs to its own slot, not past the tip.
ReplayEpoch(c, h) == AdvancedTo(c, h)

\* One record: re-adjudicated, then applied; a record that does not verify makes
\* the whole ledger unusable.
ReplayOne(state, ev, t) ==
    LET c == ReplayEpoch(state.committee, IF ev.height < t THEN ev.height ELSE t)
    IN  [committee |-> Tombstoned(c, ev.index), ok |-> state.ok /\ Verifies(c, ev)]

\* The records by height, then index.
Before(x, y) == x.height < y.height \/ (x.height = y.height /\ x.index < y.index)
Sorted(records) ==
    CHOOSE s \in SetToSeqs(records) : \A i, j \in DOMAIN s : i < j => ~ Before(s[j], s[i])

Replayed(records, t) ==
    FoldLeft(LAMBDA state, ev : ReplayOne(state, ev, t),
             [committee |-> GenesisCommittee, ok |-> TRUE], Sorted(records))

\* restore_punishments: the sorted records, then advance_epoch.
Reopened(records, t) ==
    LET end == Replayed(records, t)
    IN  [committee |-> AdvancedTo(end.committee, t), ok |-> end.ok]

-----------------------------------------------------------------------------
(* Actions.                                                                *)

Init ==
    /\ tip = 0 /\ applied = 0
    /\ committee = GenesisCommittee
    /\ votesSeen = <<>>
    /\ seen = {}
    /\ ledger = {}
    /\ up = TRUE

\* A header extends the tip and the epoch machinery follows (advance_epoch).
NewTip ==
    /\ up /\ tip < MaxHeight /\ tip < applied + BodyLag
    /\ tip' = tip + 1
    /\ committee' = AdvancedTo(committee, tip')
    /\ UNCHANGED <<applied, votesSeen, seen, ledger, up>>

\* The body of the next block is applied, which makes the block durable.
ApplyBody ==
    /\ up /\ applied < tip
    /\ applied' = applied + 1
    /\ UNCHANGED <<tip, committee, votesSeen, seen, ledger, up>>

\* Votes and evidence of another epoch are late, or early.
Arrives(h) == InEpochOnly => h <= tip /\ EpochOf(h) = committee.epoch

\* Mutant: the record is not written.
NotRecorded(ev) == ledger

\* The member now at the index is punished, so a record is due unless it already is.
Recorded(ev) ==
    IF ev.index \in DOMAIN committee.roster /\ committee.roster[ev.index] \in committee.punished
    THEN ledger ELSE ledger \cup {ev}

\* Mutant: the index names a member of the genesis committee.
IndexAtGenesis(ev) ==
    [Tombstoned([committee EXCEPT !.roster = GenesisRoster], ev.index)
        EXCEPT !.roster = committee.roster]

\* apply_evidence tombstones by index, in the roster of now.
Punished(ev) == Tombstoned(committee, ev.index)

\* apply_evidence: verified against the roster of the height; the record is
\* saved before the tombstone is applied.
ApplyEvidence(ev) ==
    /\ Verifies(committee, ev)
    /\ ledger' = Recorded(ev)
    /\ committee' = Punished(ev)

\* observe_votes, one vote: a first vote is kept; one that conflicts with it
\* becomes evidence when both verify, and punish_and_gossip_evidence applies it
\* whether or not it was gossiped before.
ObserveVote(v) ==
    LET slot == <<v.height, v.index>>
        ev == [height |-> v.height, index |-> v.index, key |-> v.key]
        conflict == slot \in DOMAIN votesSeen /\ votesSeen[slot].block # v.block
                                              /\ votesSeen[slot].key = v.key
    IN  /\ up /\ Arrives(v.height)
        /\ v.key \in Byzantine \/ v.block = "a"
        /\ Verifies(committee, v)
        /\ votesSeen' = IF slot \in DOMAIN votesSeen THEN votesSeen
                        ELSE [s \in DOMAIN votesSeen \cup {slot} |->
                                 IF s = slot THEN [key |-> v.key, block |-> v.block]
                                 ELSE votesSeen[s]]
        /\ IF conflict
           THEN ApplyEvidence(ev) /\ seen' = seen \cup {ev}
           ELSE UNCHANGED <<ledger, committee, seen>>
        /\ UNCHANGED <<tip, applied, up>>

\* on_evidence: a pair some other node found, unless it was handled before.
OnEvidence(ev) ==
    /\ up /\ Arrives(ev.height)
    /\ ev.key \in Byzantine
    /\ ev \notin seen
    /\ seen' = seen \cup {ev}
    /\ ApplyEvidence(ev)
    /\ UNCHANGED <<tip, applied, votesSeen, up>>

\* NodeAdapter::open: the chain resumes at the applied tip, the ledger is
\* replayed, and a ledger that does not verify refuses the start.
Restart ==
    /\ up
    /\ \E opened \in {Reopened(ledger, applied)} :
          /\ up' = opened.ok
          /\ committee' = opened.committee
    /\ tip' = applied
    /\ votesSeen' = <<>>
    /\ seen' = {}
    /\ UNCHANGED <<applied, ledger>>

Next ==
    \/ NewTip
    \/ ApplyBody
    \/ \E v \in Vote : ObserveVote(v)
    \/ \E ev \in Evidence : OnEvidence(ev)
    \/ Restart

Spec == Init /\ [][Next]_vars

-----------------------------------------------------------------------------
(* Properties.                                                             *)

\* The roster is what is left of the genesis committee.
TypeOK ==
    /\ tip \in 0 .. MaxHeight /\ applied \in 0 .. tip
    /\ committee.epoch = EpochOf(tip) /\ Len(committee.history) = committee.epoch
    /\ ToSet(committee.roster) \subseteq Member /\ IsInjective(committee.roster)
    /\ committee.punished \subseteq Member
    /\ committee.bond \in [Member -> 0 .. Bond]
    /\ \A s \in DOMAIN votesSeen : votesSeen[s].key \in Member /\ votesSeen[s].block \in Block
    /\ seen \subseteq Evidence /\ ledger \subseteq Evidence
    /\ up \in BOOLEAN

\* Only a member that signed two checkpoints of one height is ever tombstoned,
\* and so only such a member ever loses its seat or part of its bond: "the pair
\* of signatures is the proof" (ebbflow.rs).  The same pair seen in votes, in gossip
\* and again in the replay takes a tenth of the bond once.
OnlyEquivocatorsPunished ==
    /\ committee.punished \subseteq Byzantine
    /\ Member \ Byzantine \subseteq ToSet(committee.roster)
    /\ \A m \in Member : committee.bond[m] =
          IF m \in committee.punished THEN Bond - Bond \div 10 ELSE Bond

\* The replay of the ledger "reproduces the live path exactly" (punish.rs): a node
\* restarted now, with bodies behind its headers, opens its ledger and, once it has
\* caught up, has the roster, the tombstones and the bonds it has now.  The exception
\* is a chain that resumes in an epoch before that of a record.
RestartReproducesCommittee ==
    up /\ (\A ev \in ledger : EpochOf(ev.height) <= EpochOf(applied)) =>
        LET opened == Reopened(ledger, applied)
        IN  opened.ok /\ AdvancedTo(opened.committee, tip) = committee

\* A tombstone is permanent, across epochs and restarts (frozen section 4).
TombstonesArePermanent == [][committee.punished \subseteq committee'.punished]_vars

-----------------------------------------------------------------------------
(* A claim of the code's comments that does not hold (README, section 3).  *)

\* The node never refuses to start on a ledger it wrote itself (punish.rs).
ReopensOwnLedger == up
=============================================================================
