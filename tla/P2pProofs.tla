----------------------------- MODULE P2pProofs ------------------------------
(***************************************************************************)
(* What a node's vote tally, its finality tracker and its body requests    *)
(* guarantee, proved for every committee, every set of signatures in       *)
(* circulation, every way they travel, every block tree, every table of    *)
(* peers, honest or not, and every value of the limits.                    *)
(*                                                                         *)
(* Votes.  The type invariant is inductive: it holds the caps of the tally *)
(* (a slot is dropped as another comes in, and never the one that comes    *)
(* in, which is why the accumulated set read back is there) and that a     *)
(* tallied signer signed.  With it, what Finalize counts is a subset of    *)
(* what was signed, filtered by the status of the moment; and add_inner's  *)
(* floor, read at the moment of the vote, keeps the finalized slots        *)
(* ascending.                                                              *)
(*                                                                         *)
(* Bodies.  The invariant is BInv: the known headers are closed under prev *)
(* and have a heaviest one (BodiesOK), the asks fit the window (AsksOK),   *)
(* and each ask is paced by its history (PaceOK).  The window holds since  *)
(* the wanted bodies are of one branch, where heights tell blocks apart,   *)
(* so that the n lowest are at most n.  A rewind goes to the fork, which   *)
(* is the parent of a held body of the main chain; draining stays above    *)
(* the fork and stops there only after that body was refused and dropped.  *)
(* A retry within the timeout finds a slot without a peer, which only a    *)
(* decline can have left behind, and that only while some ready peer had   *)
(* not declined.                                                           *)
(***************************************************************************)
EXTENDS VoteIngest, BodyFetch, SequenceTheorems, FiniteSetTheorems, FunctionTheorems,
        NaturalsInduction, WellFoundedInduction, TLAPS

\* What the type invariant says of a tally; Block may be infinite, so that a
\* slot's variants are finitely many is part of the induction.
TallyOK(held) ==
    /\ DOMAIN held \subseteq Slot /\ Cardinality(DOMAIN held) <= MaxTalliedSlots
    /\ \A s \in DOMAIN held :
          /\ DOMAIN held[s] \subseteq Block /\ IsFiniteSet(DOMAIN held[s])
          /\ Cardinality(DOMAIN held[s]) <= MaxVariants
          /\ \A b \in DOMAIN held[s] : held[s][b] \subseteq Signed[s][b]

\* The inductive invariant.
IInv == TypeOK /\ TallyOK(tally) /\ FinalizedAscends

-----------------------------------------------------------------------------
(* The tally.                                                              *)

\* A non-empty set of naturals has a minimum, and Min is it.
LEMMA MinProperties ==
    ASSUME NEW S \in SUBSET Nat, S # {}
    PROVE  Min(S) \in S /\ \A y \in S : Min(S) =< y
<1>1. PICK x \in S : \A y \in S : ~ (<<y, x>> \in OpToRel(<, Nat))
  BY NatLessThanWellFounded, WFMin
<1>2. ASSUME NEW y \in S PROVE x =< y
  <2>1. y \in Nat /\ x \in Nat
    OBVIOUS
  <2>2. ~ (<<y, x>> \in OpToRel(<, Nat))
    BY <1>1
  <2>3. ~ (y < x)
    BY <2>1, <2>2 DEF OpToRel
  <2> QED
    BY <2>1, <2>3
<1>3. \E z \in S : \A y \in S : z =< y
  BY <1>2
<1> QED
  BY <1>3 DEF Min

LEMMA SlotsFinite == ASSUME NEW S \in SUBSET Slot PROVE IsFiniteSet(S) /\ Cardinality(S) \in Nat
<1>1. IsFiniteSet(Slot)
  BY BoundAssumption, FS_Interval DEF Slot
<1> QED
  BY <1>1, FS_Subset, FS_CardinalityType

LEMMA PrunedOK == ASSUME TallyOK(tally) PROVE TallyOK(Pruned)
<1>1. DOMAIN Pruned \subseteq DOMAIN tally /\ \A s \in DOMAIN Pruned : Pruned[s] = tally[s]
  BY DEF Pruned
<1>2. IsFiniteSet(DOMAIN tally) /\ Cardinality(DOMAIN tally) \in Nat
  BY SlotsFinite DEF TallyOK
<1>3. Cardinality(DOMAIN Pruned) <= Cardinality(DOMAIN tally) /\ Cardinality(DOMAIN Pruned) \in Nat
  BY <1>1, <1>2, FS_Subset, FS_CardinalityType
<1>4. Cardinality(DOMAIN Pruned) <= MaxTalliedSlots
  BY <1>2, <1>3, BoundAssumption DEF TallyOK
<1> QED
  BY <1>1, <1>4 DEF TallyOK

\* A vote that is admitted finds its slot in the tally afterwards: the slot that
\* is dropped to make room is another one.
LEMMA AddedOK ==
    ASSUME NEW held, TallyOK(held), NEW cp \in Checkpoint,
           NEW kept \in SUBSET Signed[cp.slot][cp.block],
           AdmitsVariant(held, cp), AdmitsSlot(held, cp)
    PROVE  /\ TallyOK(Added(held, cp, kept))
           /\ cp.slot \in DOMAIN Added(held, cp, kept)
           /\ cp.block \in DOMAIN Added(held, cp, kept)[cp.slot]
<1> DEFINE slots == DOMAIN held \cup {cp.slot}
           live == IF Cardinality(slots) > MaxTalliedSlots THEN slots \ {Min(slots)} ELSE slots
           new == Added(held, cp, kept)
           variants == Variants(held, cp.slot) \cup {cp.block}
<1>1. cp.slot \in Slot /\ cp.block \in Block /\ slots \subseteq Slot /\ Slot \subseteq Nat
  BY DEF Checkpoint, TallyOK, Slot
<1>2. /\ IsFiniteSet(DOMAIN held) /\ Cardinality(DOMAIN held) \in Nat
      /\ IsFiniteSet(slots) /\ Cardinality(slots) \in Nat
      /\ Cardinality(DOMAIN held) <= MaxTalliedSlots
      /\ Cardinality(slots) = IF cp.slot \in DOMAIN held THEN Cardinality(DOMAIN held)
                              ELSE Cardinality(DOMAIN held) + 1
  BY <1>1, SlotsFinite, FS_AddElement DEF TallyOK
<1>3. Min(slots) \in slots /\ \A y \in slots : Min(slots) =< y
  <2>1. slots \in SUBSET Nat /\ slots # {}
    BY <1>1
  <2> QED
    BY <2>1, MinProperties
<1>4. live \subseteq slots /\ Cardinality(live) <= MaxTalliedSlots
  <2>1. CASE Cardinality(slots) > MaxTalliedSlots
    <3>1. live = slots \ {Min(slots)}
      BY <2>1
    <3>2. Cardinality(live) = Cardinality(slots) - 1
      BY <3>1, <1>2, <1>3, FS_RemoveElement
    <3> HIDE DEF slots, live
    <3> QED
      BY <3>1, <3>2, <1>2, BoundAssumption
  <2>2. CASE ~ (Cardinality(slots) > MaxTalliedSlots)
    <3>1. live = slots
      BY <2>2
    <3> HIDE DEF slots, live
    <3> QED
      BY <2>2, <3>1, <1>2, BoundAssumption
  <2> QED
    BY <2>1, <2>2
<1>5. cp.slot \in live
  <2>1. CASE cp.slot \in DOMAIN held \/ Cardinality(DOMAIN held) < MaxTalliedSlots
    <3>1. ~ (Cardinality(slots) > MaxTalliedSlots)
      <4> HIDE DEF slots
      <4> QED
        BY <2>1, <1>2, BoundAssumption
    <3> QED
      BY <3>1
  <2>2. CASE \E s \in DOMAIN held : s < cp.slot
    <3>1. PICK s \in DOMAIN held : s < cp.slot
      BY <2>2
    <3>2. s \in slots /\ s \in Nat /\ cp.slot \in Nat
      BY <1>1 DEF TallyOK
    <3>3. Min(slots) =< s /\ Min(slots) \in Nat
      BY <3>2, <1>3, <1>1
    <3>4. cp.slot # Min(slots)
      <4> HIDE DEF slots
      <4> QED
        BY <3>1, <3>2, <3>3
    <3> QED
      BY <3>4
  <2> QED
    BY <2>1, <2>2 DEF AdmitsSlot
<1>6. /\ DOMAIN new = live
      /\ \A s \in live : s # cp.slot => s \in DOMAIN held /\ new[s] = held[s]
      /\ DOMAIN new[cp.slot] = variants
      /\ \A b \in variants : new[cp.slot][b] =
            IF b = cp.block THEN Voters(held, cp) \cup kept ELSE held[cp.slot][b]
  BY <1>4, <1>5 DEF Added
<1>7. /\ variants \subseteq Block /\ IsFiniteSet(variants)
      /\ Cardinality(variants) <= MaxVariants
  <2> DEFINE old == Variants(held, cp.slot)
  <2>1. old \subseteq Block /\ IsFiniteSet(old) /\ Cardinality(old) <= MaxVariants
    BY FS_EmptySet, BoundAssumption DEF TallyOK, Variants
  <2>2. /\ IsFiniteSet(variants)
        /\ Cardinality(variants) = IF cp.block \in old THEN Cardinality(old) ELSE Cardinality(old) + 1
        /\ Cardinality(old) \in Nat
    BY <2>1, FS_AddElement, FS_CardinalityType
  <2>3. cp.block \in old \/ Cardinality(old) < MaxVariants
    BY DEF AdmitsVariant
  <2>4. variants \subseteq Block
    BY <1>1, <2>1
  <2> HIDE DEF old, variants
  <2> QED
    BY <2>1, <2>2, <2>3, <2>4, BoundAssumption
<1>8. \A b \in variants : new[cp.slot][b] \subseteq Signed[cp.slot][b]
  <2> SUFFICES ASSUME NEW b \in variants PROVE new[cp.slot][b] \subseteq Signed[cp.slot][b]
    OBVIOUS
  <2>1. CASE b = cp.block
    <3>1. Voters(held, cp) \subseteq Signed[cp.slot][cp.block]
      BY DEF Voters, Variants, TallyOK
    <3> QED
      BY <2>1, <3>1, <1>6
  <2>2. CASE b # cp.block
    <3>1. cp.slot \in DOMAIN held /\ b \in DOMAIN held[cp.slot]
      BY <2>2 DEF Variants
    <3> QED
      BY <2>2, <3>1, <1>6 DEF TallyOK
  <2> QED
    BY <2>1, <2>2
<1>9. \A s \in live :
         /\ DOMAIN new[s] \subseteq Block /\ IsFiniteSet(DOMAIN new[s])
         /\ Cardinality(DOMAIN new[s]) <= MaxVariants
         /\ \A b \in DOMAIN new[s] : new[s][b] \subseteq Signed[s][b]
  <2> SUFFICES ASSUME NEW s \in live
               PROVE  /\ DOMAIN new[s] \subseteq Block /\ IsFiniteSet(DOMAIN new[s])
                      /\ Cardinality(DOMAIN new[s]) <= MaxVariants
                      /\ \A b \in DOMAIN new[s] : new[s][b] \subseteq Signed[s][b]
    OBVIOUS
  <2> HIDE DEF live, new, variants
  <2>1. CASE s = cp.slot
    BY <2>1, <1>6, <1>7, <1>8
  <2>2. CASE s # cp.slot
    BY <2>2, <1>6 DEF TallyOK
  <2> QED
    BY <2>1, <2>2
<1>10. TallyOK(new)
  <2> HIDE DEF live, new
  <2> QED
    BY <1>1, <1>4, <1>6, <1>9 DEF TallyOK
<1> HIDE DEF live, variants
<1> QED
  BY <1>5, <1>6, <1>10 DEF variants

-----------------------------------------------------------------------------
(* The actions.                                                            *)

LEMMA InitIInv == Init => IInv
<1> SUFFICES ASSUME Init PROVE IInv
  OBVIOUS
<1>1. DOMAIN tally = {} /\ Cardinality({}) = 0 /\ IsFiniteSet({})
  BY FS_EmptySet DEF Init
<1>2. TallyOK(tally)
  BY <1>1, BoundAssumption DEF TallyOK
<1>3. TypeOK
  BY <1>1, BoundAssumption DEF Init, TypeOK
<1>4. FinalizedAscends
  BY DEF Init, FinalizedAscends
<1> QED
  BY <1>2, <1>3, <1>4 DEF IInv

LEMMA GrowTipStep == ASSUME IInv, GrowTip PROVE IInv'
<1>1. TypeOK'
  BY BoundAssumption DEF IInv, GrowTip, TypeOK
<1> QED
  BY <1>1 DEF IInv, GrowTip, TallyOK, FinalizedAscends

LEMMA RestartStep == ASSUME IInv, Restart PROVE IInv' /\ Len(finalized') <= Len(finalized)
<1>1. PICK i \in 0 .. Len(finalized) :
         finalized' = IF i = 0 THEN <<>> ELSE <<finalized[i]>>
  BY DEF Restart
<1>2. finalized \in Seq(Checkpoint) /\ Len(finalized) \in Nat
  BY DEF IInv, TypeOK
<1>3. /\ finalized' \in Seq(Checkpoint)
      /\ Len(finalized') <= Len(finalized)
      /\ DOMAIN finalized' \subseteq {1}
  <2>1. CASE i = 0
    BY <2>1, <1>1, <1>2
  <2>2. CASE i # 0
    <3>1. i \in 1 .. Len(finalized) /\ finalized[i] \in Checkpoint
      BY <2>2, <1>2, ElementOfSeq
    <3> QED
      BY <2>2, <3>1, <1>1, <1>2
  <2> QED
    BY <2>1, <2>2
<1>4. FinalizedAscends'
  BY <1>3 DEF FinalizedAscends
<1>5. DOMAIN tally' = {} /\ Cardinality({}) = 0 /\ IsFiniteSet({})
  BY FS_EmptySet DEF Restart
<1>6. TallyOK(tally)'
  BY <1>5, BoundAssumption DEF TallyOK
<1>7. TypeOK'
  BY <1>3, <1>5, BoundAssumption DEF IInv, Restart, TypeOK
<1> QED
  BY <1>3, <1>4, <1>6, <1>7 DEF IInv

\* What a message leaves of the observation: first votes and tombstones.
LEMMA ObservedOK ==
    ASSUME TypeOK, NEW cp \in Checkpoint, NEW voters \in SUBSET Member
    PROVE  /\ Observed(cp, voters) \in [Slot -> [Member -> Block \cup {NoBlock}]]
           /\ tombstoned \cup Equivocators(cp, voters) \subseteq Member
<1>1. cp.slot \in Slot /\ cp.block \in Block
  BY DEF Checkpoint
<1>2. [m \in Member |-> IF m \in voters /\ votesSeen[cp.slot][m] = NoBlock
                        THEN cp.block ELSE votesSeen[cp.slot][m]]
        \in [Member -> Block \cup {NoBlock}]
  BY <1>1 DEF TypeOK
<1> QED
  BY <1>1, <1>2 DEF TypeOK, Observed, Equivocators

\* Recording a round keeps the window's length.
LEMMA RecordedOK ==
    ASSUME TypeOK, NEW signers \in SUBSET Member
    PROVE  /\ Recorded(signers) \in Seq(SUBSET Member)
           /\ Len(Recorded(signers)) <= Window /\ Len(Recorded(signers)) > 0
           /\ Last(Recorded(signers)) = signers
<1> DEFINE all == Append(rounds, signers)
<1>1. /\ rounds \in Seq(SUBSET Member) /\ Len(rounds) \in Nat /\ Len(rounds) <= Window
      /\ Window \in Nat \ {0}
  BY BoundAssumption DEF TypeOK
<1>2. /\ all \in Seq(SUBSET Member) /\ Len(all) = Len(rounds) + 1 /\ all # <<>>
      /\ all[Len(rounds) + 1] = signers
  BY <1>1, AppendProperties
<1>3. CASE Len(all) > Window
  <2>1. Recorded(signers) = Tail(all)
    BY <1>3 DEF Recorded
  <2>2. /\ Tail(all) \in Seq(SUBSET Member) /\ Len(Tail(all)) = Len(all) - 1
        /\ \A i \in 1 .. Len(all) - 1 : Tail(all)[i] = all[i + 1]
    BY <1>2, HeadTailProperties
  <2>3. Len(all) - 1 = Len(rounds) /\ Len(rounds) >= 1
    BY <1>1, <1>2, <1>3
  <2> HIDE DEF all
  <2>4. Tail(all)[Len(rounds)] = signers
    BY <1>1, <1>2, <2>2, <2>3
  <2> QED
    BY <1>1, <1>2, <2>1, <2>2, <2>3, <2>4 DEF Last
<1>4. CASE ~ (Len(all) > Window)
  <2>1. Recorded(signers) = all
    BY <1>4 DEF Recorded
  <2> HIDE DEF all
  <2> QED
    BY <1>1, <1>2, <1>4, <2>1 DEF Last
<1> QED
  BY <1>3, <1>4

LEMMA JailedOK ==
    ASSUME TypeOK, NEW trail, NEW dead, NEW s \in Slot
    PROVE  Jailed(trail, dead, s) \in [Member -> 0 .. MaxSlot + JailTerm]
<1>1. s + JailTerm \in 0 .. MaxSlot + JailTerm
  BY BoundAssumption DEF Slot
<1> QED
  BY <1>1 DEF Jailed, TypeOK

\* A step that finalizes cp by the members `counted', with the tombstones `dead'.
FinalizedBy(cp, counted, dead) ==
    /\ finalized' = Append(finalized, cp)
    /\ Advances(cp)
    /\ counted \subseteq Signed[cp.slot][cp.block]
    /\ \A m \in counted : IsActive(m, dead, cp.slot)
    /\ Cardinality(counted) >= Quorum
    /\ rounds' = Recorded(counted)

\* What ingest_checkpoint_votes_from does to the tally, the jail and the tracker.
LEMMA IngestFacts ==
    ASSUME IInv, NEW cp \in Checkpoint, NEW voters \in SUBSET Signed[cp.slot][cp.block],
           NEW requested, NEW dead, Ingest(cp, voters, requested, dead)
    PROVE  /\ TallyOK(tally')
           /\ rounds' \in Seq(SUBSET Member) /\ Len(rounds') <= Window
           /\ jailedUntil' \in [Member -> 0 .. MaxSlot + JailTerm]
           /\ \/ finalized' = finalized
              \/ \E counted \in SUBSET Member : FinalizedBy(cp, counted, dead)
<1> DEFINE kept == {m \in voters : IsActive(m, dead, cp.slot)}
           complete == requested /\ Cardinality(kept) >= Quorum
           held == Pruned
           next == Added(held, cp, kept)
           counted == ActiveNow(next[cp.slot][cp.block], dead, cp.slot)
<1>1. /\ TypeOK /\ TallyOK(held) /\ cp.slot \in Slot /\ cp.block \in Block
      /\ Signed[cp.slot][cp.block] \subseteq Member
  BY PrunedOK, SignedAssumption DEF IInv, Checkpoint
<1>2. CASE NothingLearned(held)
  BY <1>1, <1>2 DEF NothingLearned, TypeOK
<1>3. CASE /\ Admits(held, cp, complete)
           /\ \/ NothingLearned(next)
              \/ /\ Finalize(next, cp, counted, dead)
                 /\ Cardinality(counted) >= Quorum
  <2>1. /\ TallyOK(next) /\ cp.slot \in DOMAIN next /\ cp.block \in DOMAIN next[cp.slot]
        /\ Advances(cp)
    <3>1. kept \in SUBSET Signed[cp.slot][cp.block]
      OBVIOUS
    <3> HIDE DEF held, kept
    <3> QED
      BY <1>1, <1>3, <3>1, AddedOK DEF Admits
  <2>2. CASE NothingLearned(next)
    BY <1>1, <2>1, <2>2 DEF NothingLearned, TypeOK
  <2>3. CASE Finalize(next, cp, counted, dead) /\ Cardinality(counted) >= Quorum
    <3> HIDE DEF next
    <3>1. counted \subseteq Signed[cp.slot][cp.block] /\ \A m \in counted : IsActive(m, dead, cp.slot)
      BY <2>1 DEF ActiveNow, TallyOK
    <3>2. counted \in SUBSET Member
      BY <3>1, <1>1
    <3>3. FinalizedBy(cp, counted, dead)
      BY <2>1, <2>3, <3>1 DEF FinalizedBy, Finalize
    <3>4. rounds' \in Seq(SUBSET Member) /\ Len(rounds') <= Window
      <4> HIDE DEF counted
      <4> QED
        BY <2>3, <3>2, <1>1, RecordedOK DEF Finalize
    <3>5. jailedUntil' \in [Member -> 0 .. MaxSlot + JailTerm]
      BY <2>3, <1>1, JailedOK DEF Finalize
    <3>6. TallyOK(tally')
      <4>1. /\ DOMAIN tally' = DOMAIN next \ {cp.slot}
            /\ \A s \in DOMAIN tally' : tally'[s] = next[s]
        BY <2>3 DEF Finalize
      <4>2. IsFiniteSet(DOMAIN next) /\ Cardinality(DOMAIN next) \in Nat
        BY <2>1, SlotsFinite DEF TallyOK
      <4>3. Cardinality(DOMAIN tally') <= Cardinality(DOMAIN next) /\ Cardinality(DOMAIN tally') \in Nat
        BY <4>1, <4>2, FS_Subset, FS_CardinalityType
      <4>4. Cardinality(DOMAIN tally') <= MaxTalliedSlots
        BY <2>1, <4>2, <4>3, BoundAssumption DEF TallyOK
      <4> QED
        BY <2>1, <4>1, <4>4 DEF TallyOK
    <3> QED
      BY <3>2, <3>3, <3>4, <3>5, <3>6
  <2> QED
    BY <1>3, <2>2, <2>3
<1> QED
  BY <1>2, <1>3 DEF Ingest

\* A checkpoint above the last one keeps the order.
LEMMA AppendAscends ==
    ASSUME TypeOK, FinalizedAscends, NEW cp \in Checkpoint, Advances(cp),
           finalized' = Append(finalized, cp)
    PROVE  finalized' \in Seq(Checkpoint) /\ FinalizedAscends'
<1>1. finalized \in Seq(Checkpoint) /\ Len(finalized) \in Nat
  BY DEF TypeOK
<1>2. /\ finalized' \in Seq(Checkpoint) /\ Len(finalized') = Len(finalized) + 1
      /\ \A i \in 1 .. Len(finalized) : finalized'[i] = finalized[i]
      /\ finalized'[Len(finalized) + 1] = cp
  BY <1>1, AppendProperties
<1>3. DOMAIN finalized = 1 .. Len(finalized) /\ DOMAIN finalized' = 1 .. Len(finalized')
  BY <1>1, <1>2
<1>4. \A i \in 1 .. Len(finalized) : finalized[i].slot \in Nat
  <2> SUFFICES ASSUME NEW i \in 1 .. Len(finalized) PROVE finalized[i].slot \in Nat
    OBVIOUS
  <2>1. finalized[i] \in Checkpoint
    BY <1>1, ElementOfSeq
  <2> QED
    BY <2>1 DEF Checkpoint, Slot
<1>5. ASSUME NEW i \in 1 .. Len(finalized) PROVE finalized[i].slot < cp.slot
  <2>1. finalized # <<>> /\ FinalizedSlot = finalized[Len(finalized)].slot
    BY <1>1 DEF FinalizedSlot, Last
  <2>2. finalized[Len(finalized)].slot < cp.slot
    BY <2>1, <1>1, <1>4 DEF Advances, Checkpoint, Slot
  <2>3. i < Len(finalized) => finalized[i].slot < finalized[Len(finalized)].slot
    BY <1>1, <1>3 DEF FinalizedAscends
  <2>4. cp.slot \in Nat
    BY DEF Checkpoint, Slot
  <2> QED
    BY <1>1, <1>4, <2>2, <2>3, <2>4
<1>6. ASSUME NEW i \in DOMAIN finalized', NEW j \in DOMAIN finalized', i < j
      PROVE  finalized'[i].slot < finalized'[j].slot
  <2>1. i \in 1 .. Len(finalized)
    BY <1>1, <1>2, <1>3, <1>6
  <2>2. CASE j \in 1 .. Len(finalized)
    BY <1>2, <1>3, <1>6, <2>1, <2>2 DEF FinalizedAscends
  <2>3. CASE j = Len(finalized) + 1
    BY <1>2, <1>5, <2>1, <2>3
  <2> QED
    BY <1>1, <1>2, <1>3, <2>2, <2>3
<1> QED
  BY <1>2, <1>6 DEF FinalizedAscends

\* One message, whichever way it was asked for.
LEMMA AbsorbVotesStep ==
    ASSUME IInv, NEW cp \in Checkpoint, NEW g \in Group, NEW requested,
           AbsorbVotes(cp, g, requested)
    PROVE  /\ IInv'
           /\ \/ finalized' = finalized
              \/ \E counted \in SUBSET Member : FinalizedBy(cp, counted, tombstoned')
<1> DEFINE voters == Signed[cp.slot][cp.block] \cap g
<1>1. /\ TypeOK /\ voters \in SUBSET Signed[cp.slot][cp.block] /\ voters \in SUBSET Member
  BY SignedAssumption DEF IInv, Checkpoint
<1>2. /\ votesSeen' = Observed(cp, voters)
      /\ tombstoned' = tombstoned \cup Equivocators(cp, voters)
      /\ Dropped \/ Ingest(cp, voters, requested, tombstoned')
      /\ tip' = tip
  BY DEF AbsorbVotes
<1>3. /\ votesSeen' \in [Slot -> [Member -> Block \cup {NoBlock}]]
      /\ tombstoned' \subseteq Member
  BY <1>1, <1>2, ObservedOK
<1>4. /\ TallyOK(tally')
      /\ rounds' \in Seq(SUBSET Member) /\ Len(rounds') <= Window
      /\ jailedUntil' \in [Member -> 0 .. MaxSlot + JailTerm]
      /\ \/ finalized' = finalized
         \/ \E counted \in SUBSET Member : FinalizedBy(cp, counted, tombstoned')
  <2>1. CASE Dropped
    BY <2>1, <1>1 DEF Dropped, IInv, TypeOK
  <2>2. CASE Ingest(cp, voters, requested, tombstoned')
    <3> HIDE DEF voters
    <3> QED
      BY <2>2, <1>1, IngestFacts
  <2> QED
    BY <1>2, <2>1, <2>2
<1>5. finalized' \in Seq(Checkpoint) /\ FinalizedAscends'
  <2>1. CASE finalized' = finalized
    BY <2>1, <1>1 DEF IInv, TypeOK, FinalizedAscends
  <2>2. CASE \E counted \in SUBSET Member : FinalizedBy(cp, counted, tombstoned')
    BY <2>2, <1>1, AppendAscends DEF IInv, FinalizedBy
  <2> QED
    BY <1>4, <2>1, <2>2
<1>6. TypeOK'
  BY <1>1, <1>2, <1>3, <1>4, <1>5 DEF TypeOK, TallyOK
<1> QED
  BY <1>4, <1>5, <1>6 DEF IInv, TallyOK

-----------------------------------------------------------------------------
(* The theorems.                                                           *)

LEMMA Inductive == IInv /\ [Next]_vars => IInv'
<1> SUFFICES ASSUME IInv, [Next]_vars PROVE IInv'
  OBVIOUS
<1>1. CASE GrowTip
  BY <1>1, GrowTipStep
<1>2. CASE \E cp \in Checkpoint, g \in Group : \E requested \in BOOLEAN : AbsorbVotes(cp, g, requested)
  BY <1>2, AbsorbVotesStep
<1>3. CASE Restart
  BY <1>3, RestartStep
<1>4. CASE UNCHANGED vars
  BY <1>4 DEF vars, IInv, TypeOK, TallyOK, FinalizedAscends
<1> QED
  BY <1>1, <1>2, <1>3, <1>4 DEF Next

\* The tally stays within its caps and holds only signatures that were given,
\* in every behaviour of absorb_votes, the chain and restarts.
THEOREM TallyBounded == Spec => []TypeOK
<1>1. IInv => TypeOK
  BY DEF IInv
<1> QED
  BY InitIInv, Inductive, <1>1, PTL DEF Spec

\* try_finalize's NotAdvancing: the finalized slots ascend.
THEOREM FinalityAscends == Spec => []FinalizedAscends
<1>1. IInv => FinalizedAscends
  BY DEF IInv
<1> QED
  BY InitIInv, Inductive, <1>1, PTL DEF Spec

\* Tombstoned and jailed members do not count: whenever a checkpoint is
\* finalized, a quorum of members that signed it and may vote at its slot did it.
THEOREM QuorumMayVote == Spec => CountedVotersMayVote
<1> DEFINE A == Len(finalized') > Len(finalized) =>
                  LET cp == Last(finalized')
                      counted == Last(rounds')
                  IN  /\ Cardinality(counted) >= Quorum
                      /\ counted \subseteq Signed[cp.slot][cp.block] \ tombstoned'
                      /\ \A m \in counted : cp.slot >= jailedUntil[m]
<1>1. IInv /\ [Next]_vars => [A]_vars
  <2> SUFFICES ASSUME IInv, Next, Len(finalized') > Len(finalized) PROVE A
    OBVIOUS
  <2>1. finalized \in Seq(Checkpoint) /\ Len(finalized) \in Nat /\ TypeOK
    BY DEF IInv, TypeOK
  <2>2. ~ (finalized' = finalized) /\ ~ GrowTip
    BY <2>1 DEF GrowTip
  <2>3. ~ Restart
    <3> SUFFICES ASSUME Restart PROVE FALSE
      OBVIOUS
    <3>1. Len(finalized') <= Len(finalized) /\ IInv'
      BY RestartStep
    <3>2. Len(finalized') \in Nat
      BY <3>1 DEF IInv, TypeOK
    <3> QED
      BY <3>1, <3>2, <2>1
  <2>4. PICK cp \in Checkpoint, g \in Group, requested \in BOOLEAN : AbsorbVotes(cp, g, requested)
    BY <2>2, <2>3 DEF Next
  <2>5. PICK counted \in SUBSET Member : FinalizedBy(cp, counted, tombstoned')
    BY <2>2, <2>4, AbsorbVotesStep
  <2>6. Last(finalized') = cp
    <3>1. /\ Len(finalized') = Len(finalized) + 1
          /\ finalized'[Len(finalized) + 1] = cp
      BY <2>1, <2>5, AppendProperties DEF FinalizedBy
    <3> QED
      BY <3>1 DEF Last
  <2>7. Last(rounds') = counted
    BY <2>1, <2>5, RecordedOK DEF FinalizedBy
  <2> QED
    BY <2>5, <2>6, <2>7 DEF FinalizedBy, IsActive
<1> QED
  BY InitIInv, Inductive, <1>1, PTL DEF Spec, CountedVotersMayVote

-----------------------------------------------------------------------------
(* Blocks and their ancestors.                                             *)

LEMMA BlockFacts ==
    /\ Genesis \in Blocks /\ Genesis \notin Others
    /\ \A b \in Blocks : Height(b) \in Nat /\ Work(b) \in Nat /\ (b # Genesis => b \in Others)
    /\ \A b \in Others : /\ b \in Blocks /\ b # Genesis
                         /\ Tree[b].prev \in Blocks
                         /\ Height(b) = Height(Tree[b].prev) + 1
<1>1. \A b \in Others : Tree[b] \in [prev : Blocks, height : Nat \ {0}, work : Nat \ {0}]
  BY BodyTreeAssumption
<1>2. \A b \in Others : b \in Blocks /\ b # Genesis /\ Tree[b].prev \in Blocks
                        /\ Tree[b].height \in Nat /\ Tree[b].work \in Nat
  BY <1>1, BodyTreeAssumption DEF Blocks
<1>3. \A b \in Others : Tree[b].height = Height(Tree[b].prev) + 1
  BY BodyTreeAssumption
<1> QED
  BY <1>2, <1>3, BodyTreeAssumption DEF Blocks, Height, Work

\* The equation that defines Ancestors has a solution: what is in every set that
\* holds the block and is closed under prev.
LEMMA AncestorsUnfold ==
    /\ Ancestors[Genesis] = {Genesis}
    /\ \A b \in Others : Ancestors[b] = {b} \cup Ancestors[Tree[b].prev]
<1> DEFINE Closed(S) == \A x \in S : x # Genesis => Tree[x].prev \in S
           A == [b \in Blocks |-> {c \in Blocks : \A S \in SUBSET Blocks :
                                      b \in S /\ Closed(S) => c \in S}]
           Equation(f) == f = [b \in Blocks |-> IF b = Genesis THEN {b}
                                                ELSE {b} \cup f[Tree[b].prev]]
<1>1. A[Genesis] = {Genesis}
  <2>1. Closed({Genesis}) /\ {Genesis} \in SUBSET Blocks
    BY BlockFacts
  <2> HIDE DEF Closed
  <2> QED
    BY <2>1, BlockFacts
<1>2. ASSUME NEW b \in Others PROVE A[b] = {b} \cup A[Tree[b].prev]
  <2>1. b \in Blocks /\ b # Genesis /\ Tree[b].prev \in Blocks
    BY BlockFacts
  <2> DEFINE q == Tree[b].prev
             T == {b} \cup A[q]
  <2>2. T \in SUBSET Blocks /\ b \in T
    BY <2>1
  <2>3. q \in T
    BY <2>1
  <2>4. ASSUME NEW x \in A[q], x # Genesis PROVE Tree[x].prev \in A[q]
    <3>1. x \in Blocks /\ x \in Others /\ Tree[x].prev \in Blocks
      BY <2>4, <2>1, BlockFacts
    <3>2. ASSUME NEW S \in SUBSET Blocks, q \in S, Closed(S) PROVE Tree[x].prev \in S
      BY <3>2, <2>4, <2>1
    <3> QED
      BY <3>1, <3>2, <2>1
  <2>5. Closed(T)
    BY <2>3, <2>4
  <2>6. ASSUME NEW c \in A[b] PROVE c \in T
    <3> HIDE DEF Closed, T
    <3> QED
      BY <2>2, <2>5, <2>6, <2>1
  <2>7. ASSUME NEW c \in T PROVE c \in A[b]
    <3>1. c \in Blocks
      BY <2>2, <2>7
    <3>2. ASSUME NEW S \in SUBSET Blocks, b \in S, Closed(S) PROVE c \in S
      <4>1. q \in S
        BY <3>2, <2>1
      <4> HIDE DEF Closed
      <4> QED
        BY <3>2, <4>1, <2>7, <2>1
    <3> QED
      BY <3>1, <3>2, <2>1
  <2> QED
    BY <2>6, <2>7
<1>3. Equation(A)
  <2> HIDE DEF Closed
  <2>1. DOMAIN A = Blocks
    OBVIOUS
  <2>2. A = [b \in Blocks |-> A[b]]
    OBVIOUS
  <2> HIDE DEF A
  <2>3. \A b \in Blocks : A[b] = IF b = Genesis THEN {b} ELSE {b} \cup A[Tree[b].prev]
    BY <1>1, <1>2, BlockFacts
  <2> QED
    BY <2>2, <2>3
<1> HIDE DEF A
<1>4. Equation(Ancestors)
  BY <1>3 DEF Ancestors
<1>5. \A b \in Blocks : Ancestors[b] = IF b = Genesis THEN {b} ELSE {b} \cup Ancestors[Tree[b].prev]
  BY <1>4
<1> QED
  BY <1>5, BlockFacts

\* Induction over the naturals, in a form that needs no operator argument.
LEMMA SetInduction ==
    ASSUME NEW S, 0 \in S, \A n \in Nat : n \in S => n + 1 \in S
    PROVE  Nat \subseteq S
<1> DEFINE T == Nat \ S
<1> SUFFICES ASSUME T # {} PROVE FALSE
  OBVIOUS
<1>1. PICK x \in T : \A y \in T : ~ (<<y, x>> \in OpToRel(<, Nat))
  BY NatLessThanWellFounded, WFMin
<1>2. x \in Nat /\ x # 0 /\ x - 1 \in Nat /\ (x - 1) + 1 = x /\ x - 1 < x
  OBVIOUS
<1>3. x - 1 \in T
  BY <1>2
<1>4. <<x - 1, x>> \in OpToRel(<, Nat)
  BY <1>2 DEF OpToRel
<1> QED
  BY <1>1, <1>3, <1>4

\* What is to be known of a block's ancestors: they are finitely many, no higher than
\* it, one at each height, and their ancestors are its ancestors.
AncestryOK(b) ==
    /\ b \in Ancestors[b] /\ Genesis \in Ancestors[b]
    /\ Ancestors[b] \subseteq Blocks /\ IsFiniteSet(Ancestors[b])
    /\ \A c \in Ancestors[b] : /\ Height(c) <= Height(b)
                               /\ Height(c) = Height(b) => c = b
                               /\ Ancestors[c] \subseteq Ancestors[b]
    /\ \A c, d \in Ancestors[b] : Height(c) = Height(d) => c = d

LEMMA AncestryOfChild ==
    ASSUME NEW b \in Others, AncestryOK(Tree[b].prev)
    PROVE  AncestryOK(b)
<1> DEFINE q == Tree[b].prev
<1>1. /\ b \in Blocks /\ q \in Blocks /\ Height(b) = Height(q) + 1
      /\ Height(b) \in Nat /\ Height(q) \in Nat
  BY BlockFacts
<1>2. Ancestors[b] = {b} \cup Ancestors[q]
  BY AncestorsUnfold
<1>3. AncestryOK(q)
  OBVIOUS
<1> HIDE DEF q
<1>4. IsFiniteSet(Ancestors[b])
  BY <1>2, <1>3, FS_AddElement DEF AncestryOK
<1>5. \A c \in Ancestors[q] : /\ c \in Blocks /\ Height(c) \in Nat /\ Height(c) <= Height(q)
                              /\ Ancestors[c] \subseteq Ancestors[q]
  BY <1>3, BlockFacts DEF AncestryOK
<1>6. ASSUME NEW c \in Ancestors[q] PROVE Height(c) < Height(b)
  BY <1>1, <1>5, <1>6
<1>7. ASSUME NEW c \in Ancestors[b]
      PROVE  /\ Height(c) <= Height(b)
             /\ Height(c) = Height(b) => c = b
             /\ Ancestors[c] \subseteq Ancestors[b]
  <2>1. CASE c = b
    BY <2>1, <1>1
  <2>2. CASE c \in Ancestors[q]
    <3>1. Height(c) < Height(b) /\ Height(c) \in Nat
      BY <2>2, <1>5, <1>6
    <3> QED
      BY <2>2, <3>1, <1>1, <1>2, <1>5
  <2> QED
    BY <2>1, <2>2, <1>2
<1>8. ASSUME NEW c \in Ancestors[b], NEW d \in Ancestors[b], Height(c) = Height(d) PROVE c = d
  <2>1. CASE c = b
    BY <2>1, <1>7, <1>8
  <2>2. CASE d = b
    BY <2>2, <1>7, <1>8
  <2>3. CASE c # b /\ d # b
    BY <2>3, <1>2, <1>3, <1>8 DEF AncestryOK
  <2> QED
    BY <2>1, <2>2, <2>3
<1>9. b \in Ancestors[b] /\ Genesis \in Ancestors[b] /\ Ancestors[b] \subseteq Blocks
  BY <1>1, <1>2, <1>3 DEF AncestryOK
<1> QED
  BY <1>4, <1>7, <1>8, <1>9 DEF AncestryOK

LEMMA AncestryOfGenesis == AncestryOK(Genesis)
<1>1. Ancestors[Genesis] = {Genesis} /\ Genesis \in Blocks
  BY AncestorsUnfold, BlockFacts
<1>2. IsFiniteSet({Genesis})
  BY FS_Singleton
<1>3. Height(Genesis) = 0
  BY DEF Height
<1> QED
  BY <1>1, <1>2, <1>3 DEF AncestryOK

LEMMA Ancestry == ASSUME NEW b \in Blocks PROVE AncestryOK(b)
<1> DEFINE S == {n \in Nat : \A c \in Blocks : Height(c) = n => AncestryOK(c)}
<1>1. 0 \in S
  <2>1. ASSUME NEW c \in Blocks, Height(c) = 0 PROVE c = Genesis
    <3>1. ASSUME c \in Others PROVE FALSE
      <4>1. Height(Tree[c].prev) \in Nat /\ Height(c) = Height(Tree[c].prev) + 1
        BY <3>1, BlockFacts
      <4> QED
        BY <4>1, <2>1
    <3> QED
      BY <3>1, BlockFacts
  <2> QED
    BY <2>1, AncestryOfGenesis
<1>2. ASSUME NEW n \in Nat, n \in S PROVE n + 1 \in S
  <2>1. ASSUME NEW c \in Blocks, Height(c) = n + 1 PROVE AncestryOK(c)
    <3>1. c \in Others
      <4>1. Height(Genesis) = 0
        BY DEF Height
      <4> QED
        BY <4>1, <2>1, BlockFacts
    <3>2. Tree[c].prev \in Blocks /\ Height(Tree[c].prev) \in Nat
          /\ Height(c) = Height(Tree[c].prev) + 1
      BY <3>1, BlockFacts
    <3>3. Height(Tree[c].prev) = n
      BY <3>2, <2>1
    <3>4. AncestryOK(Tree[c].prev)
      BY <1>2, <3>2, <3>3
    <3> QED
      BY <3>1, <3>4, AncestryOfChild
  <2> QED
    BY <2>1
<1>3. Nat \subseteq S
  <2> HIDE DEF S
  <2> QED
    BY <1>1, <1>2, SetInduction
<1>4. Height(b) \in S
  BY <1>3, BlockFacts
<1> QED
  BY <1>4

\* A bounded non-empty set of naturals has a greatest element.
LEMMA GreatestExists ==
    ASSUME NEW N \in SUBSET Nat, N # {}, NEW n \in Nat, \A m \in N : m <= n
    PROVE  \E x \in N : \A y \in N : y <= x
<1> DEFINE U == {m \in Nat : \A y \in N : y <= m}
<1>1. U \in SUBSET Nat /\ n \in U
  OBVIOUS
<1>2. Min(U) \in U /\ \A y \in U : Min(U) =< y
  <2> HIDE DEF U
  <2> QED
    BY <1>1, MinProperties
<1>3. PICK z \in N : TRUE
  OBVIOUS
<1>4. Min(U) \in Nat /\ \A y \in N : y <= Min(U)
  BY <1>2
<1>5. Min(U) \in N
  <2> SUFFICES ASSUME Min(U) \notin N PROVE FALSE
    OBVIOUS
  <2> DEFINE k == Min(U)
  <2>1. k \in Nat /\ \A y \in N : y <= k /\ y # k /\ y \in Nat
    BY <1>4
  <2> HIDE DEF k
  <2>2. \A y \in N : y <= k - 1 /\ z <= k - 1 /\ z \in Nat
    BY <2>1, <1>3
  <2>3. k - 1 \in Nat
    BY <2>1, <2>2, <1>3
  <2>4. k - 1 \in U
    BY <2>2, <2>3
  <2>5. k =< k - 1
    BY <2>4, <1>2 DEF k
  <2> QED
    BY <2>1, <2>5
<1> QED
  BY <1>4, <1>5

LEMMA HighestFacts ==
    ASSUME NEW B \in SUBSET Blocks, B # {}, NEW n \in Nat, \A b \in B : Height(b) <= n
    PROVE  Highest(B) \in B /\ \A c \in B : Height(c) <= Height(Highest(B))
<1> DEFINE N == {Height(b) : b \in B}
<1>1. N \in SUBSET Nat /\ N # {} /\ \A m \in N : m <= n
  BY BlockFacts
<1>2. \E x \in N : \A y \in N : y <= x
  <2> HIDE DEF N
  <2> QED
    BY <1>1, GreatestExists
<1>3. \E b \in B : \A c \in B : Height(c) <= Height(b)
  BY <1>2
<1> QED
  BY <1>3 DEF Highest

LEMMA TipFacts ==
    ASSUME NEW k \in SUBSET Blocks, k # {}, NEW n \in Nat, \A b \in k : Work(b) <= n
    PROVE  Tip(k) \in k
<1> DEFINE N == {Work(b) : b \in k}
<1>1. N \in SUBSET Nat /\ N # {} /\ \A m \in N : m <= n
  BY BlockFacts
<1>2. \E x \in N : \A y \in N : y <= x
  <2> HIDE DEF N
  <2> QED
    BY <1>1, GreatestExists
<1>3. \E b \in k : \A c \in k : Work(c) <= Work(b)
  BY <1>2
<1> QED
  BY <1>3 DEF Tip

-----------------------------------------------------------------------------
(* Holding and applying bodies.                                            *)

\* The headers of fork choice are closed under prev, and bounded in height and work, so
\* that one of them is the heaviest.
KnownOK(k) ==
    /\ Genesis \in k /\ k \subseteq Blocks
    /\ \A b \in k : Ancestors[b] \subseteq k
    /\ \E n \in Nat : \A b \in k : Work(b) <= n /\ Height(b) <= n

HeldOK(pend) == IsFiniteSet(pend) /\ Cardinality(pend) <= PendingMax

\* The part of the invariant about headers and bodies.
BodiesOK ==
    /\ KnownOK(known)
    /\ applied \in known
    /\ pending \subseteq known \ Ancestors[applied] /\ HeldOK(pending)
    /\ cache \subseteq known /\ IsFiniteSet(cache) /\ Cardinality(cache) <= ServedMax

LEMMA KnownGrows ==
    ASSUME KnownOK(known), NEW b \in Others, Tree[b].prev \in known
    PROVE  KnownOK(known \cup {b})
<1>1. b \in Blocks /\ Ancestors[b] = {b} \cup Ancestors[Tree[b].prev]
  BY BlockFacts, AncestorsUnfold
<1>2. PICK n \in Nat : \A c \in known : Work(c) <= n /\ Height(c) <= n
  BY DEF KnownOK
<1>3. \A c \in known \cup {b} : Work(c) \in Nat /\ Height(c) \in Nat
  BY <1>1, BlockFacts DEF KnownOK
<1>4. n + Work(b) + Height(b) \in Nat
  BY <1>3
<1>5. ASSUME NEW c \in known \cup {b}
      PROVE  Work(c) <= n + Work(b) + Height(b) /\ Height(c) <= n + Work(b) + Height(b)
  BY <1>2, <1>3
<1>6. \E m \in Nat : \A c \in known \cup {b} : Work(c) <= m /\ Height(c) <= m
  BY <1>4, <1>5
<1>7. \A c \in known \cup {b} : Ancestors[c] \subseteq known \cup {b}
  BY <1>1 DEF KnownOK
<1> QED
  BY <1>1, <1>6, <1>7 DEF KnownOK

LEMMA TipKnown == ASSUME NEW k, KnownOK(k) PROVE Tip(k) \in k /\ Tip(k) \in Blocks
<1>1. PICK n \in Nat : \A c \in k : Work(c) <= n
  BY DEF KnownOK
<1>2. k \in SUBSET Blocks /\ k # {}
  BY DEF KnownOK
<1> QED
  BY <1>1, <1>2, TipFacts

LEMMA BufferBodyOK ==
    ASSUME NEW k, KnownOK(k), pending \subseteq k \ Ancestors[applied], HeldOK(pending),
           NEW b \in k
    PROVE  /\ BufferBody(pending, b) \subseteq k \ Ancestors[applied]
           /\ HeldOK(BufferBody(pending, b))
<1> DEFINE P == pending \cup {b}
<1>1. CASE ~ WorthHolding(b, applied)
  BY <1>1 DEF BufferBody
<1>2. CASE WorthHolding(b, applied)
  <2>1. P \subseteq k \ Ancestors[applied]
    BY <1>2 DEF WorthHolding
  <2>2. /\ IsFiniteSet(P) /\ Cardinality(P) \in Nat /\ Cardinality(pending) \in Nat
        /\ Cardinality(P) <= Cardinality(pending) + 1
    <3>1. IsFiniteSet(pending) /\ Cardinality(pending) \in Nat
      BY FS_CardinalityType DEF HeldOK
    <3>2. /\ IsFiniteSet(P)
          /\ Cardinality(P) = IF b \in pending THEN Cardinality(pending) ELSE Cardinality(pending) + 1
      BY <3>1, FS_AddElement
    <3> HIDE DEF P
    <3>3. Cardinality(P) \in Nat
      BY <3>1, <3>2
    <3> QED
      BY <3>1, <3>2, <3>3
  <2>3. CASE Cardinality(P) <= PendingMax
    <3>1. BufferBody(pending, b) = P
      BY <1>2, <2>3 DEF BufferBody
    <3> QED
      BY <3>1, <2>1, <2>2, <2>3 DEF HeldOK
  <2>4. CASE ~ (Cardinality(P) <= PendingMax)
    <3>1. BufferBody(pending, b) = P \ {Highest(P)}
      BY <1>2, <2>4 DEF BufferBody
    <3>2. Highest(P) \in P
      <4>1. PICK n \in Nat : \A c \in k : Height(c) <= n
        BY DEF KnownOK
      <4>2. P \in SUBSET Blocks /\ P # {} /\ \A c \in P : Height(c) <= n
        BY <2>1, <4>1 DEF KnownOK
      <4> HIDE DEF P
      <4> QED
        BY <4>2, HighestFacts
    <3> HIDE DEF P
    <3>3. IsFiniteSet(P \ {Highest(P)}) /\ Cardinality(P \ {Highest(P)}) = Cardinality(P) - 1
      BY <2>2, <3>2, FS_RemoveElement
    <3>4. Cardinality(P) - 1 <= PendingMax
      BY <2>2, BodyLimitAssumption DEF HeldOK
    <3> QED
      BY <3>1, <3>3, <3>4, <2>1 DEF HeldOK
  <2> QED
    BY <2>3, <2>4
<1> QED
  BY <1>1, <1>2

\* state_fork_point finds a block of both branches, as genesis is on both.
LEMMA ForkPointFacts ==
    ASSUME NEW k, KnownOK(k), NEW s \in k
    PROVE  ForkPoint(k, s) \in Ancestors[s] /\ ForkPoint(k, s) \in MainChain(k)
<1> DEFINE B == Ancestors[s] \cap MainChain(k)
<1>1. s \in Blocks /\ AncestryOK(s) /\ AncestryOK(Tip(k)) /\ Height(s) \in Nat
  BY TipKnown, Ancestry, BlockFacts DEF KnownOK
<1>2. B \in SUBSET Blocks /\ B # {} /\ \A c \in B : Height(c) <= Height(s)
  BY <1>1 DEF AncestryOK, MainChain
<1>3. Highest(B) \in B
  <2> HIDE DEF B
  <2> QED
    BY <1>1, <1>2, HighestFacts
<1> QED
  BY <1>3 DEF ForkPoint

\* A rewind goes to the fork, and a held body of the main chain extends it.
LEMMA RejoinFacts ==
    ASSUME NEW k, KnownOK(k), applied \in k, NEW pend \in SUBSET k
    PROVE  /\ RejoinMainChain(k, pend) \in k
           /\ \/ RejoinMainChain(k, pend) = applied
              \/ /\ RejoinMainChain(k, pend) = ForkPoint(k, applied)
                 /\ \E b \in pend \cap MainChain(k) : Tree[b].prev = ForkPoint(k, applied)
<1> DEFINE fork == ForkPoint(k, applied)
<1>1. fork \in Ancestors[applied] /\ fork \in MainChain(k)
  BY ForkPointFacts
<1>2. fork \in k /\ fork \in Blocks /\ Height(fork) \in Nat
  BY <1>1, BlockFacts DEF KnownOK
<1>3. AncestryOK(Tip(k)) /\ Tip(k) \in Blocks
  BY TipKnown, Ancestry
<1>4. CASE \E b \in pend \cap MainChain(k) : Height(b) = Height(fork) + 1
  <2>1. PICK b \in pend \cap MainChain(k) : Height(b) = Height(fork) + 1
    BY <1>4
  <2>2. RejoinMainChain(k, pend) = fork
    BY <1>4 DEF RejoinMainChain
  <2> HIDE DEF fork
  <2>3. b \in Blocks /\ b \in Ancestors[Tip(k)] /\ Height(b) \in Nat
    BY <2>1, BlockFacts DEF KnownOK, MainChain
  <2>4. b \in Others
    <3>1. Height(Genesis) = 0
      BY DEF Height
    <3> QED
      BY <3>1, <2>1, <2>3, <1>2, BlockFacts
  <2>5. /\ Tree[b].prev \in Blocks /\ Height(Tree[b].prev) \in Nat
        /\ Height(b) = Height(Tree[b].prev) + 1
    BY <2>4, BlockFacts
  <2>6. Tree[b].prev \in Ancestors[b]
    BY <2>4, <2>5, AncestorsUnfold, Ancestry DEF AncestryOK
  <2>7. Tree[b].prev \in Ancestors[Tip(k)]
    BY <2>3, <2>6, <1>3 DEF AncestryOK
  <2>8. Height(Tree[b].prev) = Height(fork)
    BY <2>1, <2>5, <1>2
  <2>9. Tree[b].prev = fork
    BY <2>7, <2>8, <1>1, <1>3 DEF AncestryOK, MainChain
  <2>10. \E c \in pend \cap MainChain(k) : Tree[c].prev = fork
    BY <2>1, <2>9
  <2> QED
    BY <2>2, <2>10, <1>2 DEF fork
<1>5. CASE ~ \E b \in pend \cap MainChain(k) : Height(b) = Height(fork) + 1
  <2>1. RejoinMainChain(k, pend) = applied
    BY <1>5 DEF RejoinMainChain
  <2> QED
    BY <2>1
<1> QED
  BY <1>4, <1>5

\* A step to the headers k gives up losing blocks only, and ends where they forked
\* off only if the body of the main chain that follows was refused and dropped.
RewindsTo(k) ==
    applied \notin Ancestors[applied'] =>
       LET fork == ForkPoint(k, applied)
       IN  /\ fork \in Ancestors[applied']
           /\ applied' = fork =>
                 \E b \in Refusable \cap MainChain(k) : Tree[b].prev = fork /\ b \notin pending'

RewindStep == RewindsTo(known')

\* The state tip after a body is in, the bodies still held, and what was given up.
LEMMA HoldAndApplyOK ==
    ASSUME NEW k, KnownOK(k), known \subseteq k, BodiesOK, NEW b \in k, HoldAndApply(k, b)
    PROVE  /\ applied' \in k
           /\ pending' \subseteq k \ Ancestors[applied'] /\ HeldOK(pending')
           /\ RewindsTo(k)
<1> DEFINE pend == BufferBody(pending, b)
           s == RejoinMainChain(k, pend)
<1>1. applied \in k /\ pending \subseteq k \ Ancestors[applied] /\ HeldOK(pending)
  BY DEF BodiesOK
<1>2. pend \subseteq k \ Ancestors[applied] /\ HeldOK(pend)
  BY <1>1, BufferBodyOK
<1>3. PICK refused \in SUBSET (pend \cap Refusable) :
        \E t \in Drained(pend, refused, s) :
           applied' = t /\ pending' = {c \in pend \ refused : WorthHolding(c, t)}
  BY DEF HoldAndApply
<1>4. PICK t \in Drained(pend, refused, s) :
        applied' = t /\ pending' = {c \in pend \ refused : WorthHolding(c, t)}
  BY <1>3
<1> HIDE DEF pend
<1> DEFINE fork == ForkPoint(k, applied)
<1>5. /\ s \in k
      /\ s = applied \/ (s = fork /\ \E c \in pend \cap MainChain(k) : Tree[c].prev = fork)
  BY <1>1, <1>2, RejoinFacts
<1> HIDE DEF s, fork
<1>10. t \in pend \cup {s} /\ s \in Ancestors[t] /\ \A c \in pend \ refused : Tree[c].prev # t
  BY DEF Drained
<1>6. applied' \in k
  BY <1>2, <1>4, <1>5, <1>10
<1>7. pending' \subseteq pend \ refused /\ pending' \cap Ancestors[applied'] = {}
  BY <1>4 DEF WorthHolding
<1>8. HeldOK(pending')
  <2>1. IsFiniteSet(pend) /\ Cardinality(pend) <= PendingMax /\ Cardinality(pend) \in Nat
    BY <1>2, FS_CardinalityType DEF HeldOK
  <2>2. IsFiniteSet(pending') /\ Cardinality(pending') <= Cardinality(pend)
    BY <2>1, <1>7, FS_Subset
  <2>3. Cardinality(pending') \in Nat
    BY <2>2, FS_CardinalityType
  <2> QED
    BY <2>1, <2>2, <2>3, BodyLimitAssumption DEF HeldOK
<1>9. ASSUME applied \notin Ancestors[applied']
      PROVE  /\ fork \in Ancestors[applied']
             /\ applied' = fork =>
                   \E c \in Refusable \cap MainChain(k) : Tree[c].prev = fork /\ c \notin pending'
  <2>1. s = fork /\ fork \in Ancestors[applied']
    BY <1>4, <1>5, <1>9, <1>10
  <2>2. PICK c \in pend \cap MainChain(k) : Tree[c].prev = fork
    BY <1>4, <1>5, <1>9, <1>10
  <2>3. ASSUME applied' = fork PROVE c \in Refusable /\ c \notin pending'
    BY <1>4, <1>7, <1>10, <2>2, <2>3
  <2> QED
    BY <2>1, <2>2, <2>3
<1>11. RewindsTo(k)
  BY <1>9 DEF RewindsTo, fork
<1> QED
  BY <1>2, <1>6, <1>7, <1>8, <1>11

LEMMA CachedOK ==
    ASSUME NEW k, KnownOK(k), known \subseteq k, BodiesOK, NEW b \in k
    PROVE  Cached(b) \subseteq k /\ IsFiniteSet(Cached(b)) /\ Cardinality(Cached(b)) <= ServedMax
<1> DEFINE C == cache \cup {b}
           lowest == CHOOSE c \in C : \A d \in C : Height(c) <= Height(d)
<1>1. C \subseteq k /\ C \subseteq Blocks /\ C # {}
  BY DEF BodiesOK, KnownOK
<1>2. /\ IsFiniteSet(C) /\ Cardinality(C) \in Nat /\ Cardinality(cache) \in Nat
      /\ Cardinality(C) <= Cardinality(cache) + 1
  <2>1. IsFiniteSet(cache) /\ Cardinality(cache) \in Nat
    BY FS_CardinalityType DEF BodiesOK
  <2>2. /\ IsFiniteSet(C)
        /\ Cardinality(C) = IF b \in cache THEN Cardinality(cache) ELSE Cardinality(cache) + 1
    BY <2>1, FS_AddElement
  <2> HIDE DEF C
  <2>3. Cardinality(C) \in Nat
    BY <2>1, <2>2
  <2> QED
    BY <2>1, <2>2, <2>3
<1>3. CASE Cardinality(C) <= ServedMax
  BY <1>1, <1>2, <1>3 DEF Cached
<1>4. CASE ~ (Cardinality(C) <= ServedMax)
  <2>1. lowest \in C
    <3> DEFINE N == {Height(c) : c \in C}
    <3>1. N \in SUBSET Nat /\ N # {}
      BY <1>1, BlockFacts
    <3>2. Min(N) \in N /\ \A y \in N : Min(N) =< y
      <4> HIDE DEF N
      <4> QED
        BY <3>1, MinProperties
    <3>3. \E c \in C : \A d \in C : Height(c) <= Height(d)
      BY <3>2
    <3> HIDE DEF C
    <3> QED
      BY <3>3
  <2>2. Cached(b) = C \ {lowest}
    BY <1>4 DEF Cached
  <2> HIDE DEF C, lowest
  <2>3. IsFiniteSet(C \ {lowest}) /\ Cardinality(C \ {lowest}) = Cardinality(C) - 1
    BY <1>2, <2>1, FS_RemoveElement
  <2>4. Cardinality(C) - 1 <= ServedMax
    BY <1>2, BodyLimitAssumption DEF BodiesOK
  <2> QED
    BY <2>2, <2>3, <2>4, <1>1
<1> QED
  BY <1>3, <1>4

LEMMA AppliedStays == ASSUME BodiesOK, UNCHANGED applied PROVE RewindStep
BY Ancestry DEF BodiesOK, KnownOK, AncestryOK, RewindStep, RewindsTo

LEMMA BodiesUnchanged == ASSUME BodiesOK, UNCHANGED bodies PROVE BodiesOK' /\ RewindStep
<1>1. BodiesOK'
  BY DEF BodiesOK, bodies, HeldOK
<1> QED
  BY <1>1, AppliedStays DEF bodies

\* A header is added, and nothing else changes.
LEMMA HeaderAdded ==
    ASSUME BodiesOK, NEW b \in Others, Tree[b].prev \in known, known' = known \cup {b},
           UNCHANGED <<applied, pending, cache>>
    PROVE  BodiesOK' /\ RewindStep
<1>1. KnownOK(known')
  BY KnownGrows DEF BodiesOK
<1>2. BodiesOK'
  BY <1>1 DEF BodiesOK, HeldOK
<1> QED
  BY <1>2, AppliedStays

LEMMA CompleteBlockOK ==
    ASSUME BodiesOK, NEW p, NEW b \in Others, NEW v, CompleteBlock(p, b, v), ready \subseteq Peers
    PROVE  BodiesOK' /\ RewindStep /\ ready' \subseteq Peers
<1>1. CASE /\ v = "bad"
           /\ ready' \in {ready, ready \ {p}}
           /\ UNCHANGED bodies
  BY <1>1, BodiesUnchanged
<1>2. CASE /\ v # "bad" /\ Tree[b].prev \notin known
           /\ UNCHANGED <<bodies, ready>>
  BY <1>2, BodiesUnchanged
<1>3. CASE /\ v = "unjudged" /\ Tree[b].prev \in known
           /\ known' = known \cup {b}
           /\ UNCHANGED <<applied, pending, cache, ready>>
  BY <1>3, HeaderAdded
<1>4. CASE /\ v = "ok" /\ Tree[b].prev \in known
           /\ known' = known \cup {b}
           /\ cache' = IF b \in known THEN cache ELSE Cached(b)
           /\ UNCHANGED ready
           /\ HoldAndApply(known', b)
  <2>1. KnownOK(known') /\ known \subseteq known' /\ b \in known'
    BY <1>4, KnownGrows DEF BodiesOK
  <2>2. /\ applied' \in known'
        /\ pending' \subseteq known' \ Ancestors[applied'] /\ HeldOK(pending')
        /\ RewindStep
    BY <1>4, <2>1, HoldAndApplyOK DEF RewindStep
  <2>3. cache' \subseteq known' /\ IsFiniteSet(cache') /\ Cardinality(cache') <= ServedMax
    <3>1. CASE b \in known
      BY <3>1, <1>4, <2>1 DEF BodiesOK
    <3>2. CASE b \notin known
      BY <3>2, <1>4, <2>1, CachedOK
    <3> QED
      BY <3>1, <3>2
  <2>4. BodiesOK'
    BY <2>1, <2>2, <2>3 DEF BodiesOK, HeldOK
  <2> QED
    BY <1>4, <2>2, <2>4
<1> QED
  BY <1>1, <1>2, <1>3, <1>4 DEF CompleteBlock

-----------------------------------------------------------------------------
(* Asking for bodies.                                                      *)

Ask == [peer : Peers \cup {NoPeer}, age : 0 .. 2 * Timeout, declined : SUBSET Peers]

\* The part of the invariant about asks.
AsksOK ==
    /\ asks \in [Others -> Ask]
    /\ \A b \in Others : asks[b].peer # NoPeer => asks[b].age < Timeout
    /\ IsFiniteSet(InFlight(asks)) /\ Cardinality(InFlight(asks)) <= MaxInFlightCatchup
    /\ rr \in 0 .. RRCycle - 1
    /\ ready \subseteq Peers
    /\ since \in [Others -> 0 .. Timeout - 1]

\* What paces the asks for b: the history is no younger than the ask; a slot without
\* a peer is one never asked or one that was declined; and while the history is
\* young, some ready peer has not declined.
PaceOK(b) ==
    /\ since[b] >= asks[b].age \/ since[b] = Timeout - 1
    /\ asks[b].peer = NoPeer => asks[b] = Unasked \/ asks[b].declined # {}
    /\ asks[b].peer = NoPeer /\ since[b] < Timeout - 1 => ~ ready \subseteq asks[b].declined

\* The inductive invariant.
BInv == BodiesOK /\ AsksOK /\ \A b \in Others : PaceOK(b)

LEMMA LimitFacts ==
    /\ Timeout \in Nat /\ Timeout > 0 /\ 2 * Timeout \in Nat /\ Timeout - 1 \in Nat
    /\ Timeout - 1 < 2 * Timeout
    /\ MaxInFlight \in Nat /\ MaxInFlightCatchup \in Nat /\ MaxInFlight <= MaxInFlightCatchup
    /\ RRCycle \in Nat /\ RRCycle > 0 /\ NoPeer \notin Peers
<1>1. /\ Timeout \in Nat \ {0} /\ MaxInFlight \in Nat \ {0} /\ MaxInFlightCatchup \in Nat \ {0}
      /\ RRCycle \in Nat \ {0} /\ MaxInFlight <= MaxInFlightCatchup
  BY BodyLimitAssumption
<1> QED
  BY <1>1, BodyPeerAssumption

LEMMA UnaskedFacts ==
    Unasked \in Ask /\ Unasked.peer = NoPeer /\ Unasked.age = 2 * Timeout /\ Unasked.declined = {}
BY LimitFacts DEF Unasked, Ask

LEMMA BInvTypeOK == ASSUME BInv PROVE BodyTypeOK
<1>1. Ancestors[applied] \subseteq known
  BY DEF BInv, BodiesOK, KnownOK
<1>2. \A b \in InFlight(asks) : asks[b].age < Timeout
  BY DEF BInv, AsksOK, InFlight
<1> QED
  BY <1>1, <1>2 DEF BInv, BodiesOK, KnownOK, HeldOK, AsksOK, BodyTypeOK, Ask

LEMMA MinOfTwo ==
    ASSUME NEW x \in Nat, NEW y \in Nat
    PROVE  Min({x, y}) \in Nat /\ Min({x, y}) = IF x <= y THEN x ELSE y
<1>1. {x, y} \in SUBSET Nat /\ {x, y} # {}
  OBVIOUS
<1>2. Min({x, y}) \in {x, y} /\ \A z \in {x, y} : Min({x, y}) =< z
  BY <1>1, MinProperties
<1> QED
  BY <1>2

\* A tick ends an ask, or makes it one tick older.
LEMMA AgedFacts ==
    ASSUME NEW a \in Ask, a.peer # NoPeer => a.age < Timeout
    PROVE  \/ Aged(a) = Unasked /\ a.age + 1 >= Timeout
           \/ /\ Aged(a) = [a EXCEPT !.age = a.age + 1]
              /\ a.age + 1 < 2 * Timeout
              /\ a.peer # NoPeer => a.age + 1 < Timeout
<1> DEFINE age == Min({a.age + 1, 2 * Timeout})
           limit == (IF a.peer = NoPeer THEN 2 ELSE 1) * Timeout
<1>1. a.age \in Nat /\ a.age + 1 \in Nat
  BY LimitFacts DEF Ask
<1>2. age \in Nat /\ age = IF a.age + 1 <= 2 * Timeout THEN a.age + 1 ELSE 2 * Timeout
  BY <1>1, LimitFacts, MinOfTwo
<1>3. limit \in Nat /\ limit = IF a.peer = NoPeer THEN 2 * Timeout ELSE Timeout
  BY LimitFacts
<1>4. Aged(a) = IF age >= limit THEN Unasked ELSE [a EXCEPT !.age = age]
  BY DEF Aged
<1> HIDE DEF age, limit
<1>5. CASE age >= limit
  BY <1>1, <1>2, <1>3, <1>4, <1>5, LimitFacts
<1>6. CASE ~ (age >= limit)
  <2>1. age = a.age + 1 /\ a.age + 1 < 2 * Timeout /\ (a.peer # NoPeer => a.age + 1 < Timeout)
    BY <1>1, <1>2, <1>3, <1>6, LimitFacts
  <2> QED
    BY <2>1, <1>4, <1>6
<1> QED
  BY <1>5, <1>6

\* On one branch the n lowest are at most n: how many are lower tells them apart.
LEMMA LowestFacts ==
    ASSUME NEW t \in Blocks, NEW B \in SUBSET Ancestors[t], NEW n \in Int
    PROVE  /\ Lowest(n, B) \subseteq B /\ IsFiniteSet(Lowest(n, B))
           /\ Cardinality(Lowest(n, B)) \in Nat
           /\ Cardinality(Lowest(n, B)) <= n \/ Lowest(n, B) = {}
<1> DEFINE L == Lowest(n, B)
           Under(b) == {c \in B : Height(c) < Height(b)}
           rank == [b \in L |-> Cardinality(Under(b))]
<1>1. AncestryOK(t) /\ B \subseteq Blocks /\ IsFiniteSet(B)
  BY Ancestry, FS_Subset DEF AncestryOK
<1>2. \A b \in B : Height(b) \in Nat
  BY <1>1, BlockFacts
<1>3. L \subseteq B /\ IsFiniteSet(L) /\ Cardinality(L) \in Nat
  BY <1>1, FS_Subset, FS_CardinalityType DEF Lowest
<1>4. \A b \in B : IsFiniteSet(Under(b)) /\ Cardinality(Under(b)) \in Nat
  BY <1>1, FS_Subset, FS_CardinalityType
<1>5. \A b \in L : Cardinality(Under(b)) < n
  BY DEF Lowest
<1>6. ASSUME NEW b \in B, NEW c \in B, Height(b) < Height(c)
      PROVE  Cardinality(Under(b)) < Cardinality(Under(c))
  <2>1. Under(b) \subseteq Under(c)
    BY <1>2, <1>6
  <2>2. b \in Under(c) /\ b \notin Under(b)
    BY <1>2, <1>6
  <2> HIDE DEF Under
  <2>3. Cardinality(Under(b)) <= Cardinality(Under(c)) /\ Cardinality(Under(b)) # Cardinality(Under(c))
    BY <2>1, <2>2, <1>4, FS_Subset
  <2> QED
    BY <2>3, <1>4
<1>7. CASE n <= 0
  <2>1. ASSUME NEW b \in L PROVE FALSE
    <3>1. Cardinality(Under(b)) < n /\ Cardinality(Under(b)) \in Nat
      BY <1>3, <1>4, <1>5
    <3> HIDE DEF Under
    <3> QED
      BY <3>1, <1>7
  <2> QED
    BY <2>1, <1>3
<1>8. CASE n > 0
  <2>1. rank \in [L -> 0 .. n - 1]
    <3>1. ASSUME NEW b \in L PROVE Cardinality(Under(b)) \in 0 .. n - 1
      <4>1. Cardinality(Under(b)) < n /\ Cardinality(Under(b)) \in Nat
        BY <1>3, <1>4, <1>5
      <4> HIDE DEF Under
      <4> QED
        BY <4>1
    <3> QED
      BY <3>1
  <2>2. ASSUME NEW b \in L, NEW c \in L, rank[b] = rank[c] PROVE b = c
    <3>1. b \in B /\ c \in B /\ Height(b) \in Nat /\ Height(c) \in Nat
      BY <1>2, <1>3
    <3>2. Cardinality(Under(b)) = Cardinality(Under(c)) /\ Cardinality(Under(b)) \in Nat
      BY <2>2, <1>3, <1>4
    <3> HIDE DEF Under
    <3>3. Height(b) = Height(c)
      BY <3>1, <3>2, <1>6
    <3> QED
      BY <3>1, <3>3, <1>1 DEF AncestryOK
  <2>3. rank \in Injection(L, 0 .. n - 1)
    <3> HIDE DEF rank, L
    <3> QED
      BY <2>1, <2>2 DEF Injection, IsInjective
  <2>4. IsFiniteSet(0 .. n - 1) /\ Cardinality(0 .. n - 1) = n
    BY <1>8, FS_Interval
  <2>5. Cardinality(L) <= Cardinality(0 .. n - 1)
    <3> HIDE DEF rank, L
    <3> QED
      BY <2>3, <2>4, FS_Injection
  <2> QED
    BY <2>4, <2>5, <1>3
<1> QED
  BY <1>3, <1>7, <1>8

\* A peer that is asked is ready and, unless every other is out of allowance, has not
\* declined.
LEMMA ChosenFacts ==
    ASSUME NEW i, NEW declined, NEW spent, NEW p \in Chosen(i, declined, spent)
    PROVE  p \in ready /\ (p \in declined => ready \ declined \subseteq spent)
<1> DEFINE Turn(s) == ReadyTable[((rr + i + s) % Len(ReadyTable)) + 1]
           FirstOf(P) == {Turn(s) : s \in {t \in 0 .. Len(ReadyTable) - 1 :
                            Turn(t) \in P /\ \A u \in 0 .. t - 1 : Turn(u) \notin P}}
<1>1. p \in IF ready \subseteq declined \cup spent THEN FirstOf(ready \ spent)
            ELSE FirstOf(ready \ (declined \cup spent))
  BY DEF Chosen
<1> HIDE DEF Turn
<1>2. ASSUME NEW P PROVE FirstOf(P) \subseteq P
  OBVIOUS
<1> HIDE DEF FirstOf
<1>3. CASE ready \subseteq declined \cup spent
  BY <1>1, <1>2, <1>3
<1>4. CASE ~ ready \subseteq declined \cup spent
  BY <1>1, <1>2, <1>4
<1> QED
  BY <1>3, <1>4

\* PacedRetries, for one body: what a step that asks for it may do.
PacedStep(b) ==
    \A p \in Peers :
        /\ AskedNow(b, p)
        /\ since[b] < Timeout - 1
        => /\ asks[b].declined # {}
           /\ ~ ready \subseteq asks[b].declined
           /\ p \in asks[b].declined => ready \ asks[b].declined \subseteq Throttled

\* An ask one tick later, and the history beside it.
LEMMA TickNotSent ==
    ASSUME AsksOK, NEW b \in Others, PaceOK(b), UNCHANGED ready,
           asks'[b] = Aged(asks[b]), since'[b] = Min({since[b] + 1, Timeout - 1})
    PROVE  /\ asks'[b] \in Ask /\ since'[b] \in 0 .. Timeout - 1
           /\ asks'[b].peer # NoPeer => asks'[b].age < Timeout
           /\ PaceOK(b)' /\ PacedStep(b)
<1>1. /\ asks[b] \in Ask /\ asks[b].age \in Nat /\ asks[b].age <= 2 * Timeout
      /\ asks[b].peer # NoPeer => asks[b].age < Timeout
      /\ since[b] \in Nat /\ since[b] <= Timeout - 1 /\ since[b] + 1 \in Nat
  BY LimitFacts DEF AsksOK, Ask
<1>2. /\ since'[b] \in Nat
      /\ since'[b] = IF since[b] + 1 <= Timeout - 1 THEN since[b] + 1 ELSE Timeout - 1
  BY <1>1, LimitFacts, MinOfTwo
<1>3. since'[b] \in 0 .. Timeout - 1
  BY <1>1, <1>2, LimitFacts
<1>4. CASE Aged(asks[b]) = Unasked /\ asks[b].age + 1 >= Timeout
  <2>1. asks'[b] = Unasked
    BY <1>4
  <2>2. since'[b] = Timeout - 1
    BY <1>1, <1>2, <1>4, LimitFacts DEF PaceOK
  <2>3. PaceOK(b)'
    BY <2>1, <2>2, LimitFacts DEF PaceOK, Unasked
  <2>4. PacedStep(b)
    BY <2>1, UnaskedFacts, LimitFacts DEF PacedStep, AskedNow
  <2> QED
    BY <2>1, <2>3, <2>4, <1>3, UnaskedFacts
<1>5. CASE /\ Aged(asks[b]) = [asks[b] EXCEPT !.age = asks[b].age + 1]
           /\ asks[b].age + 1 < 2 * Timeout
           /\ asks[b].peer # NoPeer => asks[b].age + 1 < Timeout
  <2>1. /\ asks'[b] \in Ask /\ asks'[b].peer = asks[b].peer
        /\ asks'[b].declined = asks[b].declined /\ asks'[b].age = asks[b].age + 1
    BY <1>1, <1>5, LimitFacts DEF Ask
  <2>2. since'[b] >= asks'[b].age \/ since'[b] = Timeout - 1
    BY <2>1, <1>1, <1>2, LimitFacts DEF PaceOK
  <2>3. since'[b] < Timeout - 1 => since[b] < Timeout - 1
    BY <1>1, <1>2, LimitFacts
  <2>4. asks[b] # Unasked
    BY <1>1, <1>5, UnaskedFacts, LimitFacts
  <2>5. PaceOK(b)'
    BY <2>1, <2>2, <2>3, <2>4 DEF PaceOK
  <2>6. PacedStep(b)
    BY <2>1, <1>1 DEF PacedStep, AskedNow
  <2> QED
    BY <2>1, <2>5, <2>6, <1>1, <1>3, <1>5
<1> QED
  BY <1>1, <1>4, <1>5, AgedFacts

LEMMA AskMade ==
    ASSUME NEW o \in Ask, NEW x \in Peers
    PROVE  /\ [o EXCEPT !.peer = x, !.age = 0] \in Ask
           /\ [o EXCEPT !.peer = x, !.age = 0].peer = x
           /\ [o EXCEPT !.peer = x, !.age = 0].age = 0
<1>1. 0 \in 0 .. 2 * Timeout
  BY LimitFacts
<1>2. x \in Peers \cup {NoPeer}
  OBVIOUS
<1> QED
  BY <1>1, <1>2 DEF Ask

LEMMA TickSent ==
    ASSUME AsksOK, NEW b \in Others, PaceOK(b), UNCHANGED ready,
           NEW spent \in SUBSET Throttled, NEW i, Aged(asks[b]).peer = NoPeer,
           NEW x \in Chosen(i, Aged(asks[b]).declined, spent),
           asks'[b] = [Aged(asks[b]) EXCEPT !.peer = x, !.age = 0], since'[b] = 0
    PROVE  /\ asks'[b] \in Ask /\ since'[b] \in 0 .. Timeout - 1
           /\ asks'[b].peer # NoPeer => asks'[b].age < Timeout
           /\ PaceOK(b)' /\ PacedStep(b)
<1> DEFINE o == Aged(asks[b])
<1>1. /\ asks[b] \in Ask /\ asks[b].age \in Nat
      /\ asks[b].peer # NoPeer => asks[b].age < Timeout
      /\ since[b] \in Nat /\ since[b] <= Timeout - 1 /\ ready \subseteq Peers
  BY LimitFacts DEF AsksOK, Ask
<1>2. \/ o = Unasked /\ asks[b].age + 1 >= Timeout
      \/ /\ o = [asks[b] EXCEPT !.age = asks[b].age + 1] /\ asks[b].age + 1 < 2 * Timeout
         /\ asks[b].peer # NoPeer => asks[b].age + 1 < Timeout
  BY <1>1, AgedFacts
<1>3. o \in Ask /\ o.peer = NoPeer
  BY <1>1, <1>2, UnaskedFacts, LimitFacts DEF Ask
<1>4. x \in ready /\ (x \in o.declined => ready \ o.declined \subseteq spent)
  BY ChosenFacts
<1>5. asks'[b] = [o EXCEPT !.peer = x, !.age = 0]
  OBVIOUS
<1> HIDE DEF o
<1>6. asks'[b] \in Ask /\ asks'[b].peer = x /\ asks'[b].age = 0 /\ x # NoPeer
  <2>1. x \in Peers /\ x # NoPeer /\ o \in Ask
    BY <1>1, <1>3, <1>4, LimitFacts
  <2> DEFINE new == [o EXCEPT !.peer = x, !.age = 0]
  <2>2. new \in Ask /\ new.peer = x /\ new.age = 0
    BY <2>1, AskMade
  <2>3. asks'[b] = new
    BY <1>5
  <2> HIDE DEF new
  <2> QED
    BY <2>1, <2>2, <2>3
<1>7. PaceOK(b)'
  BY <1>6, LimitFacts DEF PaceOK
<1>8. ASSUME since[b] < Timeout - 1
      PROVE  /\ asks[b].declined # {} /\ ~ ready \subseteq asks[b].declined
             /\ o.declined = asks[b].declined
  <2>1. ~ (asks[b].age + 1 >= Timeout) \/ o # Unasked
    BY <1>1, <1>8, LimitFacts DEF PaceOK
  <2>2. o = [asks[b] EXCEPT !.age = asks[b].age + 1] /\ asks[b].age + 1 < 2 * Timeout
    BY <2>1, <1>2
  <2>3. o.peer = asks[b].peer /\ o.declined = asks[b].declined
    BY <2>2, <1>1 DEF Ask
  <2>4. asks[b] # Unasked
    BY <2>2, <1>1, UnaskedFacts, LimitFacts
  <2> QED
    BY <2>3, <2>4, <1>3, <1>8 DEF PaceOK
<1>9. PacedStep(b)
  <2> SUFFICES ASSUME NEW p \in Peers, AskedNow(b, p), since[b] < Timeout - 1
               PROVE  /\ asks[b].declined # {}
                      /\ ~ ready \subseteq asks[b].declined
                      /\ p \in asks[b].declined => ready \ asks[b].declined \subseteq Throttled
    BY DEF PacedStep
  <2>1. p = x
    BY <1>6 DEF AskedNow
  <2> QED
    BY <2>1, <1>4, <1>8
<1> QED
  BY <1>6, <1>7, <1>9, LimitFacts

\* Nothing is asked for beyond the window.
LEMMA WantedFits ==
    ASSUME BodiesOK, NEW old, NEW wanted, IsFiniteSet(InFlight(old)),
           Cardinality(InFlight(old)) <= MaxInFlightCatchup,
           wanted = Wanted(old)
    PROVE  /\ IsFiniteSet(wanted) /\ wanted \cap InFlight(old) = {}
           /\ Cardinality(InFlight(old)) + Cardinality(wanted) <= MaxInFlightCatchup
<1> DEFINE n == BodyWindow
           f == Cardinality(InFlight(old))
           B == Lowest(n, MissingBodies(n)) \ InFlight(old)
<1>1. n \in Int /\ n <= MaxInFlightCatchup
  BY LimitFacts DEF BodyWindow
<1>2. f \in Nat /\ f <= MaxInFlightCatchup
  BY FS_CardinalityType
<1>3. Tip(known) \in Blocks
  BY TipKnown DEF BodiesOK
<1>4. MissingBodies(n) \subseteq Ancestors[Tip(known)]
  BY DEF MissingBodies, MainChain
<1>5. wanted = Lowest(n - f, B)
  BY DEF Wanted
<1> HIDE DEF n, f
<1>6. B \subseteq Ancestors[Tip(known)] /\ B \cap InFlight(old) = {}
  BY <1>4 DEF Lowest
<1> HIDE DEF B
<1>7. n - f \in Int
  BY <1>1, <1>2
<1>8. /\ wanted \subseteq B /\ IsFiniteSet(wanted) /\ Cardinality(wanted) \in Nat
      /\ Cardinality(wanted) <= n - f \/ wanted = {}
  <2>1. B \in SUBSET Ancestors[Tip(known)]
    BY <1>6
  <2>2. /\ Lowest(n - f, B) \subseteq B /\ IsFiniteSet(Lowest(n - f, B))
        /\ Cardinality(Lowest(n - f, B)) \in Nat
        /\ Cardinality(Lowest(n - f, B)) <= n - f \/ Lowest(n - f, B) = {}
    BY <2>1, <1>3, <1>7, LowestFacts
  <2> QED
    BY <2>2, <1>5
<1>9. f + Cardinality(wanted) <= MaxInFlightCatchup
  <2>1. CASE wanted = {}
    BY <2>1, <1>2, FS_EmptySet
  <2>2. CASE Cardinality(wanted) <= n - f
    BY <2>2, <1>1, <1>2, <1>8, LimitFacts
  <2> QED
    BY <2>1, <2>2, <1>8
<1> QED
  BY <1>6, <1>8, <1>9 DEF f

LEMMA TickStep == ASSUME BInv, Tick PROVE BInv' /\ RewindStep /\ \A b \in Others : PacedStep(b)
<1>1. PICK spent \in SUBSET Throttled, old \in {[b \in Others |-> Aged(asks[b])]} :
        \E wanted \in {Wanted(old)} :
        \E target \in {[b \in wanted |-> Target(b, wanted, old, spent)]} :
        \E sent \in {{b \in wanted : target[b] # {}}} :
          /\ asks' = [b \in Others |-> IF b \in sent THEN SentTo(target[b], old[b]) ELSE old[b]]
          /\ rr' = IF wanted = {} \/ ready = {} THEN rr ELSE (rr + 1) % RRCycle
          /\ since' = [b \in Others |-> IF b \in sent THEN 0 ELSE Min({since[b] + 1, Timeout - 1})]
          /\ UNCHANGED <<bodies, ready>>
  BY Zenon DEF Tick
<1> DEFINE wanted == Wanted(old)
<1> DEFINE target == [b \in wanted |-> Target(b, wanted, old, spent)]
           sent == {b \in wanted : target[b] # {}}
<1>2. /\ asks' = [b \in Others |-> IF b \in sent THEN SentTo(target[b], old[b]) ELSE old[b]]
      /\ rr' = IF wanted = {} \/ ready = {} THEN rr ELSE (rr + 1) % RRCycle
      /\ since' = [b \in Others |-> IF b \in sent THEN 0 ELSE Min({since[b] + 1, Timeout - 1})]
      /\ UNCHANGED <<bodies, ready>>
  BY <1>1
<1>3. sent \subseteq wanted /\ \A b \in sent : target[b] = Target(b, wanted, old, spent) /\ target[b] # {}
  OBVIOUS
<1> HIDE DEF wanted, target, sent
<1>4. BodiesOK /\ AsksOK /\ \A b \in Others : PaceOK(b)
  BY DEF BInv
<1>5. \A b \in Others : old[b] = Aged(asks[b])
  OBVIOUS
<1>6. /\ IsFiniteSet(InFlight(old)) /\ Cardinality(InFlight(old)) \in Nat
      /\ Cardinality(InFlight(old)) <= MaxInFlightCatchup
  <2>1. ASSUME NEW b \in InFlight(old) PROVE b \in InFlight(asks)
    <3>1. b \in Others /\ Aged(asks[b]).peer # NoPeer
      BY <1>5 DEF InFlight
    <3>2. asks[b] \in Ask /\ (asks[b].peer # NoPeer => asks[b].age < Timeout)
      BY <1>4, <3>1 DEF AsksOK
    <3>3. Aged(asks[b]) = [asks[b] EXCEPT !.age = asks[b].age + 1]
      BY <3>1, <3>2, AgedFacts, UnaskedFacts
    <3>4. Aged(asks[b]).peer = asks[b].peer
      BY <3>2, <3>3 DEF Ask
    <3> QED
      BY <3>1, <3>4 DEF InFlight
  <2>2. IsFiniteSet(InFlight(asks)) /\ Cardinality(InFlight(asks)) <= MaxInFlightCatchup
    BY <1>4 DEF AsksOK
  <2>3. /\ IsFiniteSet(InFlight(old)) /\ Cardinality(InFlight(old)) \in Nat
        /\ Cardinality(InFlight(old)) <= Cardinality(InFlight(asks))
    BY <2>1, <2>2, FS_Subset, FS_CardinalityType
  <2>4. Cardinality(InFlight(asks)) \in Nat
    BY <2>2, FS_CardinalityType
  <2> QED
    BY <2>2, <2>3, <2>4, LimitFacts
<1>7. /\ IsFiniteSet(wanted) /\ wanted \cap InFlight(old) = {}
      /\ Cardinality(InFlight(old)) + Cardinality(wanted) <= MaxInFlightCatchup
  BY <1>4, <1>6, WantedFits DEF wanted
<1>8. ASSUME NEW b \in Others
      PROVE  /\ asks'[b] \in Ask /\ since'[b] \in 0 .. Timeout - 1
             /\ asks'[b].peer # NoPeer => asks'[b].age < Timeout
             /\ PaceOK(b)' /\ PacedStep(b)
             /\ asks'[b].peer # NoPeer => b \in InFlight(old) \/ b \in wanted
  <2>1. CASE b \in sent
    <3>1. target[b] = Target(b, wanted, old, spent) /\ target[b] # {} /\ b \in wanted
      BY <1>3, <2>1
    <3> DEFINE x == CHOOSE p \in target[b] : TRUE
    <3>2. x \in target[b]
      BY <3>1
    <3>3. asks'[b] = SentTo(target[b], Aged(asks[b])) /\ since'[b] = 0
      BY <1>2, <1>5, <2>1
    <3>4. asks'[b] = [Aged(asks[b]) EXCEPT !.peer = x, !.age = 0]
      BY <3>3 DEF SentTo
    <3>5. Aged(asks[b]).peer = NoPeer
      BY <3>1, <1>5, <1>7 DEF InFlight
    <3> HIDE DEF x
    <3>6. x \in Chosen(Cardinality({c \in wanted : Height(c) < Height(b)}),
                       Aged(asks[b]).declined, spent)
      BY <3>1, <3>2, <1>5 DEF Target
    <3> QED
      BY <3>1, <3>3, <3>4, <3>5, <3>6, <1>2, <1>4, TickSent
  <2>2. CASE b \notin sent
    <3>1. asks'[b] = Aged(asks[b]) /\ since'[b] = Min({since[b] + 1, Timeout - 1})
      BY <1>2, <1>5, <2>2
    <3>2. asks'[b].peer # NoPeer => b \in InFlight(old)
      BY <3>1, <1>5 DEF InFlight
    <3> QED
      BY <3>1, <3>2, <1>2, <1>4, TickNotSent
  <2> QED
    BY <2>1, <2>2
<1>9. IsFiniteSet(InFlight(asks')) /\ Cardinality(InFlight(asks')) <= MaxInFlightCatchup
  <2>1. InFlight(asks') \subseteq InFlight(old) \cup wanted
    BY <1>8 DEF InFlight
  <2>2. /\ IsFiniteSet(InFlight(old) \cup wanted)
        /\ Cardinality(InFlight(old) \cup wanted)
             = Cardinality(InFlight(old)) + Cardinality(wanted) - Cardinality(InFlight(old) \cap wanted)
    BY <1>6, <1>7, FS_Union
  <2>3. Cardinality(InFlight(old) \cap wanted) = 0
    <3>1. InFlight(old) \cap wanted = {}
      BY <1>7
    <3> QED
      BY <3>1, FS_EmptySet
  <2>4. Cardinality(wanted) \in Nat
    BY <1>7, FS_CardinalityType
  <2>5. Cardinality(InFlight(old) \cup wanted) <= MaxInFlightCatchup
        /\ Cardinality(InFlight(old) \cup wanted) \in Nat
    <3>1. Cardinality(InFlight(old) \cup wanted) = Cardinality(InFlight(old)) + Cardinality(wanted)
      BY <2>2, <2>3, <2>4, <1>6
    <3> QED
      BY <3>1, <2>4, <1>6, <1>7
  <2>6. /\ IsFiniteSet(InFlight(asks')) /\ Cardinality(InFlight(asks')) \in Nat
        /\ Cardinality(InFlight(asks')) <= Cardinality(InFlight(old) \cup wanted)
    BY <2>1, <2>2, FS_Subset, FS_CardinalityType
  <2> QED
    BY <2>5, <2>6, LimitFacts
<1>10. rr' \in 0 .. RRCycle - 1
  <2>1. rr \in 0 .. RRCycle - 1 /\ rr \in Nat
    BY <1>4, LimitFacts DEF AsksOK
  <2>2. (rr + 1) % RRCycle \in 0 .. RRCycle - 1
    BY <2>1, LimitFacts
  <2> QED
    BY <2>1, <2>2, <1>2
<1>11. asks' \in [Others -> Ask] /\ since' \in [Others -> 0 .. Timeout - 1]
  <2>1. /\ DOMAIN asks' = Others /\ DOMAIN since' = Others
        /\ asks' = [b \in Others |-> asks'[b]] /\ since' = [b \in Others |-> since'[b]]
    BY <1>2
  <2> QED
    BY <2>1, <1>8
<1>12. AsksOK'
  <2>1. ready' = ready /\ ready \subseteq Peers
    BY <1>2, <1>4 DEF AsksOK
  <2>2. (\A b \in Others : asks[b].peer # NoPeer => asks[b].age < Timeout)'
    BY <1>8
  <2> QED
    BY <2>1, <2>2, <1>9, <1>10, <1>11 DEF AsksOK
<1>13. BodiesOK' /\ RewindStep
  BY <1>2, <1>4, BodiesUnchanged
<1>14. (\A b \in Others : PaceOK(b))'
  BY <1>8
<1> QED
  BY <1>8, <1>12, <1>13, <1>14 DEF BInv

-----------------------------------------------------------------------------
(* Answers and announcements.                                              *)

\* The history after a step that may lose a ready peer: as before, or as old as it
\* counts.
LEMMA AfreshFacts ==
    ASSUME AsksOK, NEW b \in Others
    PROVE  /\ CountAfresh \in [Others -> 0 .. Timeout - 1]
           /\ \/ ready' = ready /\ CountAfresh[b] = since[b]
              \/ CountAfresh[b] = Timeout - 1
BY LimitFacts DEF CountAfresh, AsksOK

\* An ask the step leaves alone.
LEMMA AskStays ==
    ASSUME AsksOK, NEW b \in Others, PaceOK(b), asks'[b] = asks[b],
           since'[b] = CountAfresh[b]
    PROVE  PaceOK(b)' /\ PacedStep(b)
<1>1. asks[b] \in Ask /\ asks[b].age \in Nat
  BY LimitFacts DEF AsksOK, Ask
<1>2. PacedStep(b)
  BY <1>1, LimitFacts DEF PacedStep, AskedNow
<1>3. CASE ready' = ready /\ CountAfresh[b] = since[b]
  BY <1>2, <1>3 DEF PaceOK
<1>4. CASE CountAfresh[b] = Timeout - 1
  BY <1>2, <1>4, LimitFacts DEF PaceOK
<1> QED
  BY <1>3, <1>4, AfreshFacts

\* The ask for b is satisfied, and b is held.
LEMMA SatisfiedOK ==
    ASSUME AsksOK, \A c \in Others : PaceOK(c), NEW b \in Others, Satisfied(b),
           b \in cache' \cup Ancestors[applied'] \cup pending', UNCHANGED rr, ready' \subseteq Peers
    PROVE  AsksOK' /\ (\A c \in Others : PaceOK(c))' /\ \A c \in Others : PacedStep(c)
<1>1. /\ asks' = [asks EXCEPT ![b] = Unasked]
      /\ since' = [CountAfresh EXCEPT ![b] = Timeout - 1]
  BY DEF Satisfied
<1>2. asks \in [Others -> Ask] /\ CountAfresh \in [Others -> 0 .. Timeout - 1]
  BY AfreshFacts DEF AsksOK
<1>3. asks'[b] = Unasked /\ since'[b] = Timeout - 1
  BY <1>1, <1>2
<1>4. Timeout - 1 \in 0 .. Timeout - 1
  BY LimitFacts
<1>5. asks' \in [Others -> Ask] /\ since' \in [Others -> 0 .. Timeout - 1]
  BY <1>1, <1>2, <1>4, UnaskedFacts
<1>6. \A c \in Others : asks'[c].peer # NoPeer => c # b /\ asks'[c] = asks[c]
  BY <1>1, <1>2, <1>3, UnaskedFacts
<1>7. IsFiniteSet(InFlight(asks')) /\ Cardinality(InFlight(asks')) <= MaxInFlightCatchup
  <2>1. InFlight(asks') \subseteq InFlight(asks)
    BY <1>6 DEF InFlight
  <2>2. /\ IsFiniteSet(InFlight(asks)) /\ Cardinality(InFlight(asks)) \in Nat
        /\ Cardinality(InFlight(asks)) <= MaxInFlightCatchup
    BY FS_CardinalityType DEF AsksOK
  <2>3. /\ IsFiniteSet(InFlight(asks')) /\ Cardinality(InFlight(asks')) \in Nat
        /\ Cardinality(InFlight(asks')) <= Cardinality(InFlight(asks))
    BY <2>1, <2>2, FS_Subset, FS_CardinalityType
  <2> QED
    BY <2>2, <2>3, LimitFacts
<1>8. AsksOK'
  <2>1. (\A c \in Others : asks[c].peer # NoPeer => asks[c].age < Timeout)'
    BY <1>6 DEF AsksOK
  <2>2. rr' \in 0 .. RRCycle - 1
    BY DEF AsksOK
  <2> QED
    BY <2>1, <2>2, <1>5, <1>7 DEF AsksOK
<1>9. ASSUME NEW c \in Others PROVE PaceOK(c)' /\ PacedStep(c)
  <2>1. CASE c = b
    <3>1. PaceOK(b)'
      BY <1>3, UnaskedFacts, LimitFacts DEF PaceOK
    <3>2. PacedStep(b)
      BY <1>3, UnaskedFacts, LimitFacts DEF PacedStep, AskedNow
    <3> QED
      BY <2>1, <3>1, <3>2
  <2>2. CASE c # b
    <3>1. asks'[c] = asks[c] /\ since'[c] = CountAfresh[c]
      BY <2>2, <1>1, <1>2
    <3> QED
      BY <3>1, AskStays
  <2> QED
    BY <2>1, <2>2
<1>10. (\A c \in Others : PaceOK(c))'
  BY <1>9
<1> QED
  BY <1>8, <1>9, <1>10

\* No ask changes.
LEMMA AsksStay ==
    ASSUME AsksOK, \A c \in Others : PaceOK(c), UNCHANGED <<asks, rr>>, since' = CountAfresh,
           ready' \subseteq Peers
    PROVE  AsksOK' /\ (\A c \in Others : PaceOK(c))' /\ \A c \in Others : PacedStep(c)
<1>1. ASSUME NEW c \in Others PROVE PaceOK(c)' /\ PacedStep(c)
  BY AskStays
<1>2. since' \in [Others -> 0 .. Timeout - 1]
  BY LimitFacts DEF CountAfresh, AsksOK
<1>3. AsksOK'
  BY <1>2 DEF AsksOK, InFlight
<1>4. (\A c \in Others : PaceOK(c))'
  BY <1>1
<1> QED
  BY <1>1, <1>3, <1>4

LEMMA OnAnnounceStep ==
    ASSUME BInv, NEW p \in Peers, NEW b \in Others, NEW v, OnAnnounce(p, b, v)
    PROVE  BInv' /\ RewindStep /\ \A c \in Others : PacedStep(c)
<1>1. BodiesOK /\ AsksOK /\ (\A c \in Others : PaceOK(c)) /\ ready \subseteq Peers /\ UNCHANGED rr
  BY DEF BInv, AsksOK, OnAnnounce
<1>2. CASE AlreadyHave(b)
  <2>1. UNCHANGED <<bodies, ready>> /\ Satisfied(b)
    BY <1>2 DEF OnAnnounce
  <2>2. b \in Ancestors[applied']
    BY <1>2, <2>1 DEF AlreadyHave, HasStoredBody, bodies
  <2>3. BodiesOK' /\ RewindStep
    BY <2>1, <1>1, BodiesUnchanged
  <2>4. AsksOK' /\ (\A c \in Others : PaceOK(c))' /\ \A c \in Others : PacedStep(c)
    BY <2>1, <2>2, <1>1, SatisfiedOK
  <2> QED
    BY <2>3, <2>4 DEF BInv
<1>3. CASE ~ AlreadyHave(b)
  <2>1. /\ CompleteBlock(p, b, v)
        /\ IF HeldNow(b) THEN Satisfied(b) ELSE UNCHANGED asks /\ since' = CountAfresh
    BY <1>3 DEF OnAnnounce
  <2>2. BodiesOK' /\ RewindStep /\ ready' \subseteq Peers
    BY <2>1, <1>1, CompleteBlockOK
  <2>3. AsksOK' /\ (\A c \in Others : PaceOK(c))' /\ \A c \in Others : PacedStep(c)
    <3>1. CASE HeldNow(b)
      <4>1. Satisfied(b) /\ b \in cache' \cup Ancestors[applied'] \cup pending'
        BY <3>1, <2>1 DEF HeldNow
      <4> QED
        BY <4>1, <2>2, <1>1, SatisfiedOK
    <3>2. CASE ~ HeldNow(b)
      BY <3>2, <2>1, <2>2, <1>1, AsksStay
    <3> QED
      BY <3>1, <3>2
  <2> QED
    BY <2>2, <2>3 DEF BInv
<1> QED
  BY <1>2, <1>3

LEMMA OnBlockTxnStep ==
    ASSUME BInv, NEW p \in Peers, NEW b \in Others, NEW v, OnBlockTxn(p, b, v)
    PROVE  BInv' /\ RewindStep /\ \A c \in Others : PacedStep(c)
<1>1. BodiesOK /\ AsksOK /\ (\A c \in Others : PaceOK(c)) /\ ready \subseteq Peers
  BY DEF BInv, AsksOK
<1>2. CompleteBlock(p, b, v) /\ since' = CountAfresh /\ UNCHANGED <<asks, rr>>
  BY DEF OnBlockTxn
<1>3. BodiesOK' /\ RewindStep /\ ready' \subseteq Peers
  BY <1>1, <1>2, CompleteBlockOK
<1>4. AsksOK' /\ (\A c \in Others : PaceOK(c))' /\ \A c \in Others : PacedStep(c)
  BY <1>1, <1>2, <1>3, AsksStay
<1> QED
  BY <1>3, <1>4 DEF BInv

LEMMA OnCompactStep ==
    ASSUME BInv, NEW p \in Peers, NEW b \in Others, OnCompact(p, b)
    PROVE  BInv' /\ RewindStep /\ \A c \in Others : PacedStep(c)
<1>1. BodiesOK /\ AsksOK /\ (\A c \in Others : PaceOK(c)) /\ ready \subseteq Peers
  BY DEF BInv, AsksOK
<1>2. /\ UNCHANGED <<bodies, rr, ready>> /\ Satisfied(b)
      /\ b \in cache' \cup Ancestors[applied'] \cup pending'
  BY DEF OnCompact, HeldNow
<1>3. BodiesOK' /\ RewindStep
  BY <1>1, <1>2, BodiesUnchanged
<1>4. AsksOK' /\ (\A c \in Others : PaceOK(c))' /\ \A c \in Others : PacedStep(c)
  BY <1>1, <1>2, SatisfiedOK
<1> QED
  BY <1>3, <1>4 DEF BInv

\* A decline is added to the ask, and frees its slot only while some ready peer has
\* not declined.
LEMMA DeclineFacts ==
    ASSUME NEW b \in Others, asks[b] \in Ask, NEW p \in Peers
    PROVE  LET a == asks[b]
               d == NoteBodyDecline(b, p)
           IN  \/ d = a
               \/ /\ d \in Ask /\ d.age = a.age /\ d.declined # {} /\ a.peer # NoPeer
                  /\ d.peer = a.peer \/ (d.peer = NoPeer /\ ~ ready \subseteq d.declined)
<1> DEFINE a == asks[b]
           declined == a.declined \cup {p}
           peer == IF a.peer = p /\ ~ ready \subseteq declined THEN NoPeer ELSE a.peer
           d == NoteBodyDecline(b, p)
<1>1. CASE a.peer = NoPeer
  BY <1>1 DEF NoteBodyDecline
<1>2. CASE a.peer # NoPeer
  <2>1. d = [a EXCEPT !.declined = declined, !.peer = peer]
    BY <1>2 DEF NoteBodyDecline
  <2>2. /\ a.peer \in Peers \cup {NoPeer} /\ a.age \in 0 .. 2 * Timeout
        /\ a.declined \subseteq Peers
        /\ a = [peer |-> a.peer, age |-> a.age, declined |-> a.declined]
    BY DEF Ask
  <2>3. declined \subseteq Peers /\ declined # {} /\ peer \in Peers \cup {NoPeer}
    BY <2>2
  <2>4. peer = a.peer \/ (peer = NoPeer /\ ~ ready \subseteq declined)
    OBVIOUS
  <2> HIDE DEF a, declined, peer, d
  <2>5. d = [peer |-> peer, age |-> a.age, declined |-> declined]
    BY <2>1, <2>2
  <2>6. d \in Ask /\ d.age = a.age /\ d.declined = declined /\ d.peer = peer
    BY <2>2, <2>3, <2>5 DEF Ask
  <2>7. /\ d \in Ask /\ d.age = a.age /\ d.declined # {} /\ a.peer # NoPeer
        /\ d.peer = a.peer \/ (d.peer = NoPeer /\ ~ ready \subseteq d.declined)
    BY <2>3, <2>4, <2>6, <1>2
  <2> QED
    BY <2>7 DEF a, d
<1> QED
  BY <1>1, <1>2

LEMMA OnHeaderStep ==
    ASSUME BInv, NEW p \in Peers, NEW b \in Others, OnHeader(p, b)
    PROVE  BInv' /\ RewindStep /\ \A c \in Others : PacedStep(c)
<1>1. BodiesOK /\ AsksOK /\ (\A c \in Others : PaceOK(c)) /\ asks \in [Others -> Ask]
  BY DEF BInv, AsksOK
<1>2. /\ asks' = [asks EXCEPT ![b] = NoteBodyDecline(b, p)]
      /\ known' = IF Tree[b].prev \in known THEN known \cup {b} ELSE known
      /\ UNCHANGED <<applied, pending, cache, rr, ready, since>>
  BY DEF OnHeader
<1>3. BodiesOK' /\ RewindStep
  <2>1. CASE Tree[b].prev \in known
    BY <2>1, <1>1, <1>2, HeaderAdded
  <2>2. CASE Tree[b].prev \notin known
    BY <2>2, <1>1, <1>2, BodiesUnchanged DEF bodies
  <2> QED
    BY <2>1, <2>2
<1> DEFINE a == asks[b]
           d == NoteBodyDecline(b, p)
<1>4. a \in Ask
  BY <1>1
<1>5. \/ d = a
      \/ /\ d \in Ask /\ d.age = a.age /\ d.declined # {} /\ a.peer # NoPeer
         /\ d.peer = a.peer \/ (d.peer = NoPeer /\ ~ ready \subseteq d.declined)
  BY <1>4, DeclineFacts
<1>6. asks'[b] = d /\ \A c \in Others \ {b} : asks'[c] = asks[c]
  BY <1>1, <1>2
<1> HIDE DEF d
<1>7. asks' \in [Others -> Ask]
  <2>1. d \in Ask
    BY <1>4, <1>5
  <2> QED
    BY <2>1, <1>1, <1>2 DEF d
<1>8. \A c \in Others : asks'[c].peer # NoPeer => asks'[c].peer = asks[c].peer /\ asks'[c].age = asks[c].age
  BY <1>5, <1>6
<1>9. IsFiniteSet(InFlight(asks')) /\ Cardinality(InFlight(asks')) <= MaxInFlightCatchup
  <2>1. InFlight(asks') \subseteq InFlight(asks)
    BY <1>8 DEF InFlight
  <2>2. /\ IsFiniteSet(InFlight(asks)) /\ Cardinality(InFlight(asks)) \in Nat
        /\ Cardinality(InFlight(asks)) <= MaxInFlightCatchup
    BY <1>1, FS_CardinalityType DEF AsksOK
  <2>3. /\ IsFiniteSet(InFlight(asks')) /\ Cardinality(InFlight(asks')) \in Nat
        /\ Cardinality(InFlight(asks')) <= Cardinality(InFlight(asks))
    BY <2>1, <2>2, FS_Subset, FS_CardinalityType
  <2> QED
    BY <2>2, <2>3, LimitFacts
<1>10. AsksOK'
  <2>1. (\A c \in Others : asks[c].peer # NoPeer => asks[c].age < Timeout)'
    BY <1>1, <1>8 DEF AsksOK
  <2> QED
    BY <2>1, <1>1, <1>2, <1>7, <1>9 DEF AsksOK
<1>11. ASSUME NEW c \in Others PROVE PaceOK(c)'
  <2>1. CASE asks'[c] = asks[c]
    BY <2>1, <1>1, <1>2 DEF PaceOK
  <2>2. CASE c = b /\ d # a
    BY <2>2, <1>1, <1>2, <1>5, <1>6 DEF PaceOK
  <2> QED
    BY <2>1, <2>2, <1>6
<1>12. ASSUME NEW c \in Others PROVE PacedStep(c)
  <2>1. asks[c].age \in Nat
    BY <1>1, LimitFacts DEF Ask
  <2> QED
    BY <2>1, <1>8, LimitFacts DEF PacedStep, AskedNow
<1>13. (\A c \in Others : PaceOK(c))'
  BY <1>11
<1> QED
  BY <1>3, <1>10, <1>12, <1>13 DEF BInv

LEMMA BodyInitInv == ASSUME BodyInit PROVE BInv
<1>1. AncestryOK(Genesis) /\ Ancestors[Genesis] = {Genesis} /\ Height(Genesis) = 0 /\ Work(Genesis) = 0
  BY AncestryOfGenesis, AncestorsUnfold DEF Height, Work
<1>2. KnownOK(known)
  BY <1>1, BlockFacts DEF BodyInit, KnownOK
<1>3. IsFiniteSet({}) /\ Cardinality({}) = 0
  BY FS_EmptySet
<1>4. BodiesOK
  <2>1. 0 <= PendingMax /\ 0 <= ServedMax
    BY BodyLimitAssumption
  <2> QED
    BY <2>1, <1>1, <1>2, <1>3 DEF BodyInit, BodiesOK, HeldOK
<1>5. \A b \in Others : asks[b] = Unasked /\ since[b] = Timeout - 1
  BY DEF BodyInit
<1>6. AsksOK
  <2>1. InFlight(asks) = {}
    BY <1>5, UnaskedFacts DEF InFlight
  <2>2. 0 \in 0 .. RRCycle - 1 /\ Timeout - 1 \in 0 .. Timeout - 1 /\ 0 <= MaxInFlightCatchup
    BY LimitFacts
  <2>3. asks \in [Others -> Ask] /\ since \in [Others -> 0 .. Timeout - 1]
    BY <2>2, UnaskedFacts DEF BodyInit
  <2> QED
    BY <2>1, <2>2, <2>3, <1>3, <1>5, UnaskedFacts DEF BodyInit, AsksOK
<1>7. \A b \in Others : PaceOK(b)
  BY <1>5, LimitFacts, UnaskedFacts DEF PaceOK
<1> QED
  BY <1>4, <1>6, <1>7 DEF BInv

LEMMA BodyNextInv ==
    ASSUME BInv, [BodyNext]_bodyVars
    PROVE  BInv' /\ RewindStep /\ \A b \in Others : PacedStep(b)
<1>1. CASE Tick
  BY <1>1, TickStep
<1>2. ASSUME NEW p \in Peers, NEW b \in Others, NEW v, OnAnnounce(p, b, v)
      PROVE  BInv' /\ RewindStep /\ \A c \in Others : PacedStep(c)
  BY <1>2, OnAnnounceStep
<1>3. ASSUME NEW p \in Peers, NEW b \in Others, NEW v, OnBlockTxn(p, b, v)
      PROVE  BInv' /\ RewindStep /\ \A c \in Others : PacedStep(c)
  BY <1>3, OnBlockTxnStep
<1>4. ASSUME NEW p \in Peers, NEW b \in Others, OnCompact(p, b)
      PROVE  BInv' /\ RewindStep /\ \A c \in Others : PacedStep(c)
  BY <1>4, OnCompactStep
<1>5. ASSUME NEW p \in Peers, NEW b \in Others, OnHeader(p, b)
      PROVE  BInv' /\ RewindStep /\ \A c \in Others : PacedStep(c)
  BY <1>5, OnHeaderStep
<1>6. CASE UNCHANGED bodyVars
  <2>1. /\ UNCHANGED bodies /\ UNCHANGED <<asks, rr>> /\ since' = CountAfresh
        /\ ready' \subseteq Peers
    BY <1>6 DEF bodyVars, CountAfresh, BInv, AsksOK
  <2> QED
    BY <2>1, BodiesUnchanged, AsksStay DEF BInv
<1> QED
  BY <1>1, <1>2, <1>3, <1>4, <1>5, <1>6 DEF BodyNext

\* The held bodies, the serving cache and the asks in flight stay within their
\* caps, every body held or served has a known header, and the applied chain is of
\* known headers (buffer_body, insert_body, request_missing_bodies).
THEOREM BodyTypeCorrect == BodySpec => []BodyTypeOK
<1> QED
  BY BodyInitInv, BodyNextInv, BInvTypeOK, PTL DEF BodySpec

\* What drain_pending_bodies gives up for the main chain are losing blocks, and it ends
\* with none applied in their place only when apply_block_gated refused the body the
\* rewind was taken for: whatever the tree, the caps, the peers and the refusals.
THEOREM RewindsAreApplied == BodySpec => RewindsApply
<1>1. BInv /\ [BodyNext]_bodyVars
        => [applied \notin Ancestors[applied'] =>
              LET fork == ForkPoint(known', applied)
              IN  /\ fork \in Ancestors[applied']
                  /\ applied' = fork =>
                        \E b \in Refusable \cap MainChain(known') :
                           Tree[b].prev = fork /\ b \notin pending']_bodyVars
  BY BodyNextInv DEF RewindStep, RewindsTo
<1> QED
  BY <1>1, BodyInitInv, BodyNextInv, PTL DEF BodySpec, RewindsApply

\* Within BODY_REQUEST_TIMEOUT_MS a body is asked for again only because it was
\* declined, and of a ready peer that has not declined it (request_missing_bodies,
\* note_body_decline, on_block_announce).
THEOREM RetriesArePaced == BodySpec => PacedRetries
<1>1. BInv /\ [BodyNext]_bodyVars
        => [\A b \in Others, p \in Peers :
              /\ AskedNow(b, p)
              /\ since[b] < Timeout - 1
              => /\ asks[b].declined # {}
                 /\ ~ ready \subseteq asks[b].declined
                 /\ p \in asks[b].declined => ready \ asks[b].declined \subseteq Throttled]_bodyVars
  BY BodyNextInv DEF PacedStep
<1> QED
  BY <1>1, BodyInitInv, BodyNextInv, PTL DEF BodySpec, PacedRetries
=============================================================================
