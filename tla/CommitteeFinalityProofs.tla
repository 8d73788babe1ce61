------------------------ MODULE CommitteeFinalityProofs ------------------------
(***************************************************************************)
(* Agreement of the finality committee, proved for every committee, every  *)
(* placement of its keys on nodes, every set of branches and any number of *)
(* slots, with fewer than a third of the members Byzantine.                *)
(*                                                                         *)
(* The argument.  A vote leaves a node only when the file a restart reads  *)
(* holds it, and a ledger never changes an entry, so a member that follows *)
(* the code votes at most once per slot.  Two quorums share more members   *)
(* than there are Byzantine ones, so two checkpoints of one slot cannot    *)
(* both have a quorum.                                                     *)
(***************************************************************************)
EXTENDS CommitteeFinality, FiniteSetTheorems, TLAPS

\* Ledger writes are whole: neither cut short by a crash nor refused.
WritesAreWhole == WriteOutcome = {"written"}

\* What is on disk is also in memory: an entry is never replaced by another.
DiskInLedger ==
    \A m \in Member, s \in Slot : disk[m][s] # NoBlock => ledger[m][s] = disk[m][s]

\* A vote signed and not yet announced is in the ledger, and on disk as soon as
\* its key's file has been written.
OutboxInLedger ==
    \A n \in Node : outbox[n] # Idle =>
        /\ outbox[n].cp \in Checkpoint
        /\ cursor[n] = outbox[n].cp.slot
        /\ outbox[n].signers \subseteq Hosted(n)
        /\ unsaved[n] \subseteq Hosted(n)
        /\ \A m \in outbox[n].signers :
              /\ ledger[m][outbox[n].cp.slot] = outbox[n].cp.block
              /\ m \notin unsaved[n] => disk[m][outbox[n].cp.slot] = outbox[n].cp.block

\* Nothing is to be written outside a round.
IdleHasNothingUnsaved == \A n \in Node : outbox[n] = Idle => unsaved[n] = {}

\* Every finalized checkpoint had, and so has, a quorum of votes.
FinalsHaveQuorum == \A f \in finals : f \in Checkpoint /\ HasQuorum(f)

LedgerInv ==
    /\ TypeOK
    /\ DiskInLedger
    /\ OutboxInLedger
    /\ IdleHasNothingUnsaved
    /\ WriteAhead

IInv == LedgerInv /\ FinalsHaveQuorum

-----------------------------------------------------------------------------
(* Quorums.                                                                *)

\* Two quorums of the committee share a member that is not Byzantine.
LEMMA QuorumsIntersect ==
    ASSUME NEW A, NEW B, A \subseteq Member, B \subseteq Member,
           Cardinality(A) >= QuorumThreshold, Cardinality(B) >= QuorumThreshold
    PROVE  \E m \in Honest : m \in A /\ m \in B
<1> DEFINE N == Cardinality(Member)
           Both == A \cap B
<1>1. /\ IsFiniteSet(Member) /\ N \in Nat
      /\ IsFiniteSet(A) /\ Cardinality(A) \in Nat
      /\ IsFiniteSet(B) /\ Cardinality(B) \in Nat
      /\ IsFiniteSet(Byzantine) /\ Cardinality(Byzantine) \in Nat
  BY MemberAssumption, FS_Subset, FS_CardinalityType
<1>2. /\ IsFiniteSet(Both) /\ Cardinality(Both) \in Nat
      /\ Cardinality(A \cup B) = Cardinality(A) + Cardinality(B) - Cardinality(Both)
  BY <1>1, FS_Intersection, FS_Union, FS_CardinalityType
<1>3. Cardinality(A \cup B) <= N /\ Cardinality(A \cup B) \in Nat
  <2>1. A \cup B \subseteq Member
    OBVIOUS
  <2> QED
    BY <2>1, <1>1, FS_Subset, FS_CardinalityType
<1>4. Cardinality(Both) > Cardinality(Byzantine)
  <2> DEFINE a == Cardinality(A)
             b == Cardinality(B)
             c == Cardinality(Both)
             u == Cardinality(A \cup B)
             z == Cardinality(Byzantine)
  <2>1. a \in Nat /\ b \in Nat /\ c \in Nat /\ u \in Nat /\ z \in Nat /\ N \in Nat
    BY <1>1, <1>2, <1>3
  <2>2. u = a + b - c /\ u <= N /\ 3 * z < N
    BY <1>2, <1>3, ByzantineAssumption
  <2>3. a >= (2 * N) \div 3 + 1 /\ b >= (2 * N) \div 3 + 1
    BY DEF QuorumThreshold
  <2> HIDE DEF a, b, c, u, z, N
  <2>4. c > z
    BY <2>1, <2>2, <2>3
  <2> QED
    BY <2>4 DEF c, z
<1>5. ~ (Both \subseteq Byzantine)
  <2> SUFFICES ASSUME Both \subseteq Byzantine PROVE FALSE
    OBVIOUS
  <2>1. Cardinality(Both) <= Cardinality(Byzantine)
    BY <1>1, FS_Subset
  <2> QED
    BY <2>1, <1>1, <1>2, <1>4
<1> QED
  BY <1>5 DEF Honest

\* Votes are never withdrawn, so a quorum is never lost.
LEMMA QuorumStays ==
    ASSUME NEW cp, HasQuorum(cp), votes \subseteq votes'
    PROVE  HasQuorum(cp)'
<1>1. Voters(cp) \subseteq Voters(cp)' /\ Voters(cp)' \subseteq Member
  BY MemberAssumption DEF Voters, Honest
<1>2. IsFiniteSet(Voters(cp)') /\ IsFiniteSet(Voters(cp))
  BY <1>1, MemberAssumption, FS_Subset
<1>3. /\ Cardinality(Voters(cp)) <= Cardinality(Voters(cp)')
      /\ Cardinality(Voters(cp)) \in Nat /\ Cardinality(Voters(cp)') \in Nat
  BY <1>1, <1>2, FS_Subset, FS_CardinalityType
<1>4. Cardinality(Member) \in Nat
  BY MemberAssumption, FS_CardinalityType
<1>5. QuorumThreshold \in Int
  BY <1>4 DEF QuorumThreshold
<1>6. QuorumThreshold' = QuorumThreshold
  BY DEF QuorumThreshold
<1> QED
  BY <1>3, <1>5, <1>6 DEF HasQuorum

-----------------------------------------------------------------------------
(* The ledgers.                                                            *)

LEMMA BranchTyped == ASSUME NEW b \in Branch PROVE b \in [Slot -> Block]
  BY BranchAssumption

LEMMA InitLedgerInv == Init => LedgerInv /\ FinalsHaveQuorum
<1> SUFFICES ASSUME Init PROVE LedgerInv /\ FinalsHaveQuorum
  OBVIOUS
<1>1. EmptyLedger \in Ledger
  BY DEF EmptyLedger, Ledger
<1>2. TypeOK
  BY <1>1, MaxSlotAssumption DEF Init, TypeOK, Idle, NoCheckpoint, Checkpoint
<1>3. DiskInLedger /\ OutboxInLedger /\ IdleHasNothingUnsaved /\ WriteAhead /\ FinalsHaveQuorum
  BY DEF Init, DiskInLedger, OutboxInLedger, IdleHasNothingUnsaved, WriteAhead,
         FinalsHaveQuorum, EmptyLedger
<1> QED
  BY <1>2, <1>3 DEF LedgerInv

LEMMA NewTipStep ==
    ASSUME LedgerInv, NEW n \in Node, NewTip(n)
    PROVE  LedgerInv'
<1> USE DEF LedgerInv, NewTip, keyVars, headVars
<1>1. TypeOK'
  BY DEF TypeOK
<1>2. DiskInLedger' /\ OutboxInLedger' /\ IdleHasNothingUnsaved' /\ WriteAhead'
  BY DEF DiskInLedger, OutboxInLedger, IdleHasNothingUnsaved, WriteAhead, Hosted
<1> QED
  BY <1>1, <1>2

LEMMA SignStep ==
    ASSUME LedgerInv, NEW n \in Node, SignCheckpoint(n)
    PROVE  LedgerInv'
<1> DEFINE cp == [slot |-> cursor[n], block |-> branch[n][cursor[n]]]
           signers == {m \in Hosted(n) : Authorize(m, cp)}
<1>1. /\ TypeOK /\ DiskInLedger /\ OutboxInLedger /\ IdleHasNothingUnsaved /\ WriteAhead
  BY DEF LedgerInv
<1>2. /\ IsIdle(n) /\ cursor[n] \in Slot
      /\ ledger' = [m \in Member |-> IF m \in signers
                                     THEN [ledger[m] EXCEPT ![cp.slot] = cp.block]
                                     ELSE ledger[m]]
      /\ outbox' = [outbox EXCEPT ![n] = [cp |-> cp, signers |-> signers]]
      /\ unsaved' = [unsaved EXCEPT ![n] = Hosted(n)]
      /\ UNCHANGED <<branch, cursor, disk, votes, latest, head, finals>>
  BY DEF SignCheckpoint, headVars
<1>3. cp \in Checkpoint /\ cp.slot = cursor[n] /\ cp.block \in Block /\ cp.slot \in Slot
  BY <1>1, <1>2, BranchTyped DEF TypeOK, Checkpoint
<1>4. /\ signers \subseteq Hosted(n) /\ Hosted(n) \subseteq Member
      /\ \A m \in signers : ledger[m][cp.slot] \in {NoBlock, cp.block}
  BY DEF Hosted, Honest, Authorize
<1> HIDE DEF cp, signers
<1>5. TypeOK'
  <2>1. ledger' \in [Member -> Ledger]
    BY <1>1, <1>2, <1>3 DEF TypeOK, Ledger
  <2>2. outbox' \in [Node -> [cp : Checkpoint \cup {NoCheckpoint}, signers : SUBSET Member]]
    BY <1>1, <1>2, <1>3, <1>4 DEF TypeOK
  <2>3. unsaved' \in [Node -> SUBSET Member]
    BY <1>1, <1>2, <1>4 DEF TypeOK
  <2> QED
    BY <2>1, <2>2, <2>3, <1>1, <1>2 DEF TypeOK
<1>6. \A m \in Member, s \in Slot : ledger[m][s] # NoBlock => ledger'[m][s] = ledger[m][s]
  BY <1>1, <1>2, <1>3, <1>4 DEF TypeOK, Ledger
<1>7. DiskInLedger'
  BY <1>1, <1>2, <1>6 DEF DiskInLedger
<1>8. OutboxInLedger'
  <2> SUFFICES ASSUME NEW k \in Node, outbox'[k] # Idle
               PROVE  /\ outbox'[k].cp \in Checkpoint
                      /\ cursor'[k] = outbox'[k].cp.slot
                      /\ outbox'[k].signers \subseteq Hosted(k)
                      /\ unsaved'[k] \subseteq Hosted(k)
                      /\ \A m \in outbox'[k].signers :
                            /\ ledger'[m][outbox'[k].cp.slot] = outbox'[k].cp.block
                            /\ m \notin unsaved'[k] =>
                                  disk'[m][outbox'[k].cp.slot] = outbox'[k].cp.block
    BY DEF OutboxInLedger, Hosted
  <2>1. CASE k = n
    <3>1. outbox'[k] = [cp |-> cp, signers |-> signers] /\ unsaved'[k] = Hosted(n)
      BY <1>1, <1>2, <2>1 DEF TypeOK
    <3>2. \A m \in signers : ledger'[m][cp.slot] = cp.block /\ m \in unsaved'[k]
      BY <1>1, <1>2, <1>3, <1>4, <3>1 DEF TypeOK, Ledger
    <3>3. outbox'[k].cp = cp /\ outbox'[k].signers = signers /\ cursor'[k] = cp.slot
      BY <3>1, <2>1, <1>2, <1>3
    <3> QED
      BY <3>1, <3>2, <3>3, <2>1, <1>3, <1>4
  <2>2. CASE k # n
    <3>1. outbox'[k] = outbox[k] /\ unsaved'[k] = unsaved[k] /\ cursor'[k] = cursor[k]
      BY <1>1, <1>2, <2>2 DEF TypeOK
    <3>2. \A m \in outbox[k].signers : ledger'[m] = ledger[m]
      BY <1>1, <1>2, <1>4, <2>2, <3>1 DEF OutboxInLedger, Hosted, Honest
    <3>3. /\ outbox[k].cp \in Checkpoint
          /\ cursor[k] = outbox[k].cp.slot
          /\ outbox[k].signers \subseteq Hosted(k)
          /\ unsaved[k] \subseteq Hosted(k)
          /\ \A m \in outbox[k].signers :
                /\ ledger[m][outbox[k].cp.slot] = outbox[k].cp.block
                /\ m \notin unsaved[k] => disk[m][outbox[k].cp.slot] = outbox[k].cp.block
      BY <1>1, <3>1 DEF OutboxInLedger
    <3>4. disk' = disk
      BY <1>2
    <3> QED
      BY <3>1, <3>2, <3>3, <3>4
  <2> QED
    BY <2>1, <2>2
<1>9. IdleHasNothingUnsaved'
  <2>1. [cp |-> cp, signers |-> signers] # Idle
    <3>1. cp # NoCheckpoint
      BY <1>3, MaxSlotAssumption DEF NoCheckpoint, Slot
    <3> QED
      BY <3>1 DEF Idle
  <2> QED
    BY <2>1, <1>1, <1>2 DEF IdleHasNothingUnsaved, TypeOK
<1>10. WriteAhead'
  BY <1>1, <1>2 DEF WriteAhead
<1> QED
  BY <1>5, <1>7, <1>8, <1>9, <1>10 DEF LedgerInv

LEMMA PersistStep ==
    ASSUME LedgerInv, WritesAreWhole, NEW n \in Node, NEW m \in Member, PersistLedger(n, m)
    PROVE  LedgerInv'
<1>1. /\ TypeOK /\ DiskInLedger /\ OutboxInLedger /\ IdleHasNothingUnsaved /\ WriteAhead
  BY DEF LedgerInv
<1>2. /\ m \in unsaved[n]
      /\ disk' = [disk EXCEPT ![m] = ledger[m]]
      /\ unsaved' = [unsaved EXCEPT ![n] = unsaved[n] \ {m}]
      /\ UNCHANGED <<branch, cursor, outbox, ledger, votes, latest, head, finals>>
  BY DEF PersistLedger, WritesAreWhole, headVars
<1>3. TypeOK'
  BY <1>1, <1>2 DEF TypeOK
<1>4. DiskInLedger' /\ IdleHasNothingUnsaved'
  BY <1>1, <1>2 DEF DiskInLedger, IdleHasNothingUnsaved, TypeOK
<1>5. WriteAhead'
  BY <1>1, <1>2, NoBlockAssumption DEF WriteAhead, DiskInLedger, TypeOK, Honest
<1>6. OutboxInLedger'
  <2> SUFFICES ASSUME NEW k \in Node, outbox[k] # Idle, NEW p \in outbox[k].signers,
                      p \notin unsaved'[k]
               PROVE  disk'[p][outbox[k].cp.slot] = outbox[k].cp.block
    BY <1>1, <1>2 DEF OutboxInLedger, Hosted, TypeOK
  <2>1. p \in Member /\ ledger[p][outbox[k].cp.slot] = outbox[k].cp.block
    BY <1>1 DEF OutboxInLedger, Hosted, Honest
  <2>2. CASE p = m
    BY <2>1, <2>2, <1>1, <1>2 DEF TypeOK
  <2>3. CASE p # m
    BY <2>1, <2>3, <1>1, <1>2 DEF TypeOK, OutboxInLedger
  <2> QED
    BY <2>2, <2>3
<1> QED
  BY <1>3, <1>4, <1>5, <1>6 DEF LedgerInv

LEMMA AnnounceStep ==
    ASSUME LedgerInv, NEW n \in Node, AnnounceCheckpoint(n)
    PROVE  LedgerInv' /\ votes \subseteq votes'
<1> DEFINE cp == outbox[n].cp
           new == {[signer |-> m, slot |-> cp.slot, block |-> cp.block] : m \in outbox[n].signers}
<1>1. /\ TypeOK /\ DiskInLedger /\ OutboxInLedger /\ IdleHasNothingUnsaved /\ WriteAhead
  BY DEF LedgerInv
<1>2. /\ outbox[n] # Idle /\ unsaved[n] = {}
      /\ votes' = votes \cup new
      /\ outbox' = [outbox EXCEPT ![n] = Idle]
      /\ unsaved' = [unsaved EXCEPT ![n] = {}]
      /\ cursor' = [cursor EXCEPT ![n] = cursor[n] + 1]
      /\ UNCHANGED <<branch, ledger, disk, latest, head, finals>>
  BY DEF AnnounceCheckpoint, MayAnnounce, IsIdle, keyVars, headVars, NextSlot
<1>3. /\ cp \in Checkpoint /\ cursor[n] = cp.slot /\ outbox[n].signers \subseteq Honest
      /\ \A m \in outbox[n].signers : disk[m][cp.slot] = cp.block
  BY <1>1, <1>2 DEF OutboxInLedger, Hosted
<1>4. new \subseteq [signer : Honest, slot : Slot, block : Block]
  BY <1>3 DEF Checkpoint
<1>5. TypeOK'
  <2>1. cursor' \in [Node -> 1 .. MaxSlot + 1]
    BY <1>1, <1>2, <1>3, MaxSlotAssumption DEF TypeOK, Checkpoint, Slot
  <2>2. outbox' \in [Node -> [cp : Checkpoint \cup {NoCheckpoint}, signers : SUBSET Member]]
    BY <1>1, <1>2 DEF TypeOK, Idle
  <2> QED
    BY <2>1, <2>2, <1>1, <1>2, <1>4 DEF TypeOK
<1>6. DiskInLedger' /\ OutboxInLedger' /\ IdleHasNothingUnsaved'
  BY <1>1, <1>2 DEF DiskInLedger, OutboxInLedger, IdleHasNothingUnsaved, TypeOK, Hosted
<1>7. WriteAhead'
  BY <1>1, <1>2, <1>3 DEF WriteAhead
<1> QED
  BY <1>2, <1>5, <1>6, <1>7 DEF LedgerInv

LEMMA FinalizeStep ==
    ASSUME LedgerInv, NEW n \in Node, NEW cp \in Checkpoint, Finalize(n, cp)
    PROVE  LedgerInv'
<1>1. /\ TypeOK /\ DiskInLedger /\ OutboxInLedger /\ IdleHasNothingUnsaved /\ WriteAhead
  BY DEF LedgerInv
<1>2. /\ latest' = [latest EXCEPT ![n] = cp]
      /\ finals' = finals \cup {cp}
      /\ UNCHANGED <<cursor, outbox, unsaved, ledger, disk, votes>>
  BY DEF Finalize, keyVars
<1>3. branch' \in [Node -> Branch] /\ head' \in [Node -> Checkpoint \cup {NoCheckpoint}]
  BY <1>1 DEF Finalize, AdvanceHead, TypeOK
<1>4. TypeOK'
  BY <1>1, <1>2, <1>3 DEF TypeOK
<1>5. DiskInLedger' /\ OutboxInLedger' /\ IdleHasNothingUnsaved' /\ WriteAhead'
  BY <1>1, <1>2 DEF DiskInLedger, OutboxInLedger, IdleHasNothingUnsaved, WriteAhead, Hosted
<1> QED
  BY <1>4, <1>5 DEF LedgerInv

LEMMA RestartStep ==
    ASSUME LedgerInv, NEW n \in Node, Restart(n)
    PROVE  LedgerInv'
<1>1. /\ TypeOK /\ DiskInLedger /\ OutboxInLedger /\ IdleHasNothingUnsaved /\ WriteAhead
  BY DEF LedgerInv
<1>2. /\ ledger' = [m \in Member |-> IF m \in Hosted(n) THEN disk[m] ELSE ledger[m]]
      /\ outbox' = [outbox EXCEPT ![n] = Idle]
      /\ unsaved' = [unsaved EXCEPT ![n] = {}]
      /\ cursor' = [cursor EXCEPT ![n] = 1]
      /\ UNCHANGED <<branch, disk, votes, finals>>
  BY DEF Restart, Restored
<1>3. /\ latest' \in [Node -> Checkpoint \cup {NoCheckpoint}]
      /\ head' \in [Node -> Checkpoint \cup {NoCheckpoint}]
  BY <1>1 DEF Restart, TypeOK
<1>4. TypeOK'
  <2>1. cursor' \in [Node -> 1 .. MaxSlot + 1]
    BY <1>1, <1>2, MaxSlotAssumption DEF TypeOK
  <2>2. outbox' \in [Node -> [cp : Checkpoint \cup {NoCheckpoint}, signers : SUBSET Member]]
    BY <1>1, <1>2 DEF TypeOK, Idle
  <2> QED
    BY <2>1, <2>2, <1>1, <1>2, <1>3 DEF TypeOK
<1>5. DiskInLedger'
  BY <1>1, <1>2 DEF DiskInLedger
<1>6. OutboxInLedger'
  <2> SUFFICES ASSUME NEW k \in Node, outbox'[k] # Idle
               PROVE  /\ k # n
                      /\ outbox'[k] = outbox[k] /\ unsaved'[k] = unsaved[k]
                      /\ cursor'[k] = cursor[k]
                      /\ \A m \in outbox[k].signers : ledger'[m] = ledger[m]
    BY <1>1, <1>2 DEF OutboxInLedger, Hosted
  <2>1. k # n
    BY <1>1, <1>2 DEF TypeOK
  <2>2. outbox'[k] = outbox[k] /\ unsaved'[k] = unsaved[k] /\ cursor'[k] = cursor[k]
    BY <2>1, <1>1, <1>2 DEF TypeOK
  <2>3. \A m \in outbox[k].signers : m \in Member /\ m \notin Hosted(n)
    BY <2>1, <2>2, <1>1 DEF OutboxInLedger, Hosted, Honest
  <2> QED
    BY <2>1, <2>2, <2>3, <1>2
<1>7. IdleHasNothingUnsaved' /\ WriteAhead'
  BY <1>1, <1>2 DEF IdleHasNothingUnsaved, WriteAhead, TypeOK
<1> QED
  BY <1>4, <1>5, <1>6, <1>7 DEF LedgerInv

-----------------------------------------------------------------------------
(* Every step.                                                             *)

\* One step of any node keeps the ledger invariant, and no step takes a vote back.
LEMMA NextLedgerInv ==
    ASSUME WritesAreWhole, LedgerInv, [Next]_vars
    PROVE  LedgerInv' /\ votes \subseteq votes'
<1>1. CASE UNCHANGED vars
  BY <1>1 DEF vars, nodeVars, keyVars, headVars, LedgerInv, TypeOK, DiskInLedger,
              OutboxInLedger, IdleHasNothingUnsaved, WriteAhead, Hosted
<1>2. ASSUME NEW n \in Node, NewTip(n) PROVE LedgerInv' /\ votes \subseteq votes'
  BY <1>2, NewTipStep DEF NewTip
<1>3. ASSUME NEW n \in Node, SignCheckpoint(n) PROVE LedgerInv' /\ votes \subseteq votes'
  BY <1>3, SignStep DEF SignCheckpoint
<1>4. ASSUME NEW n \in Node, NEW m \in Member, PersistLedger(n, m)
      PROVE  LedgerInv' /\ votes \subseteq votes'
  BY <1>4, PersistStep DEF PersistLedger
<1>5. ASSUME NEW n \in Node, AnnounceCheckpoint(n) PROVE LedgerInv' /\ votes \subseteq votes'
  BY <1>5, AnnounceStep
<1>6. ASSUME NEW n \in Node, NEW cp \in Checkpoint, Finalize(n, cp)
      PROVE  LedgerInv' /\ votes \subseteq votes'
  BY <1>6, FinalizeStep DEF Finalize
<1>7. ASSUME NEW n \in Node, Restart(n) PROVE LedgerInv' /\ votes \subseteq votes'
  BY <1>7, RestartStep DEF Restart
<1> QED
  BY <1>1, <1>2, <1>3, <1>4, <1>5, <1>6, <1>7 DEF Next

\* A checkpoint enters the history of finalized ones only with a quorum.
LEMMA NextFinalsHaveQuorum ==
    ASSUME FinalsHaveQuorum, [Next]_vars, votes \subseteq votes'
    PROVE  FinalsHaveQuorum'
<1> SUFFICES ASSUME NEW f \in finals' PROVE f \in Checkpoint /\ HasQuorum(f)'
  BY DEF FinalsHaveQuorum
<1>1. f \in Checkpoint /\ HasQuorum(f)
  <2>1. CASE f \in finals
    BY <2>1 DEF FinalsHaveQuorum
  <2>2. CASE f \notin finals
    <3>1. \E n \in Node, cp \in Checkpoint : Finalize(n, cp)
      BY <2>2 DEF Next, vars, headVars, keyVars, nodeVars, NewTip, SignCheckpoint,
                  PersistLedger, AnnounceCheckpoint, Restart
    <3>2. PICK n \in Node, cp \in Checkpoint : Finalize(n, cp)
      BY <3>1
    <3>3. f = cp
      BY <3>2, <2>2 DEF Finalize
    <3> QED
      BY <3>2, <3>3 DEF Finalize
  <2> QED
    BY <2>1, <2>2
<1> QED
  BY <1>1, QuorumStays

\* A member is on record for one block per slot, so two checkpoints of one slot
\* with a quorum each are the same checkpoint.
LEMMA Agreement == LedgerInv /\ FinalsHaveQuorum => NeverEquivocates /\ SlotAgreement
<1> SUFFICES ASSUME LedgerInv, FinalsHaveQuorum PROVE NeverEquivocates /\ SlotAgreement
  OBVIOUS
<1>1. NeverEquivocates
  BY DEF LedgerInv, WriteAhead, NeverEquivocates
<1>2. SlotAgreement
  <2> SUFFICES ASSUME NEW f \in finals, NEW g \in finals, f.slot = g.slot
               PROVE  f = g
    BY DEF SlotAgreement
  <2>1. /\ f \in Checkpoint /\ Cardinality(Voters(f)) >= QuorumThreshold
        /\ g \in Checkpoint /\ Cardinality(Voters(g)) >= QuorumThreshold
    BY DEF FinalsHaveQuorum, HasQuorum
  <2>2. Voters(f) \subseteq Member /\ Voters(g) \subseteq Member
    BY MemberAssumption DEF Voters, Honest
  <2>3. PICK m \in Honest : m \in Voters(f) /\ m \in Voters(g)
    BY <2>1, <2>2, QuorumsIntersect
  <2>4. /\ [signer |-> m, slot |-> f.slot, block |-> f.block] \in votes
        /\ [signer |-> m, slot |-> g.slot, block |-> g.block] \in votes
    BY <2>3 DEF Voters, Honest
  <2>5. f.block = g.block
    BY <2>4, <1>1 DEF NeverEquivocates
  <2> QED
    BY <2>1, <2>5 DEF Checkpoint
<1> QED
  BY <1>1, <1>2

-----------------------------------------------------------------------------
(* The theorems.                                                           *)

\* Every reachable state is typed and satisfies the ledger invariant, when
\* ledger writes are whole (run.rs, recovery.rs).
THEOREM LedgerCorrect == WritesAreWhole => (Spec => [](TypeOK /\ WriteAhead))
<1> SUFFICES ASSUME WritesAreWhole PROVE Spec => [](TypeOK /\ WriteAhead)
  OBVIOUS
<1>1. Init => LedgerInv
  BY InitLedgerInv
<1>2. LedgerInv /\ [Next]_vars => LedgerInv'
  BY NextLedgerInv
<1>3. LedgerInv => TypeOK /\ WriteAhead
  BY DEF LedgerInv
<1> QED
  BY <1>1, <1>2, <1>3, PTL DEF Spec

\* A member that follows the code never releases two votes for one slot, whatever
\* crashes, restarts and reorganisations its node goes through (recovery.rs).
THEOREM HonestNeverEquivocates == WritesAreWhole => (Spec => []NeverEquivocates)
<1> SUFFICES ASSUME WritesAreWhole PROVE Spec => []NeverEquivocates
  OBVIOUS
<1>1. Init => LedgerInv
  BY InitLedgerInv
<1>2. LedgerInv /\ [Next]_vars => LedgerInv'
  BY NextLedgerInv
<1>3. LedgerInv => NeverEquivocates
  BY DEF LedgerInv, WriteAhead, NeverEquivocates
<1> QED
  BY <1>1, <1>2, <1>3, PTL DEF Spec

\* No two nodes ever finalize different checkpoints at one slot, for every
\* committee of which fewer than a third are Byzantine (finality.rs).
THEOREM OneCheckpointPerSlot == WritesAreWhole => (Spec => []SlotAgreement)
<1> SUFFICES ASSUME WritesAreWhole PROVE Spec => []SlotAgreement
  OBVIOUS
<1>1. Init => IInv
  BY InitLedgerInv DEF IInv
<1>2. IInv /\ [Next]_vars => IInv'
  BY NextLedgerInv, NextFinalsHaveQuorum DEF IInv
<1>3. IInv => SlotAgreement
  BY Agreement DEF IInv
<1> QED
  BY <1>1, <1>2, <1>3, PTL DEF Spec
=============================================================================
