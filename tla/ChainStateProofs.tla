-------------------------- MODULE ChainStateProofs --------------------------
(***************************************************************************)
(* Proofs about ChainState, for every set of hashes and difficulties, every*)
(* height bound and both genesis forms.                                    *)
(*                                                                         *)
(* The inductive invariant says that the stored lines form a tree: each    *)
(* line starts at genesis, ends at its own block, extends the parent's     *)
(* line, and every prefix of it is the line of the block it ends with.  So *)
(* two lines that agree at one position agree below it, which is what makes*)
(* the suffix replacement of adopt_tip correct and what keeps the blocks   *)
(* below the finalized head in place when the tip changes branch.          *)
(***************************************************************************)
EXTENDS ChainState, TLAPS, WellFoundedInduction, SequenceTheorems

\* The lines of a block store form a tree rooted at genesis.
TreeOK(store) ==
    \A h \in DOMAIN store :
        LET line == store[h].line IN
        /\ Len(line) = store[h].height + 1
        /\ line[1] = Genesis
        /\ line[Len(line)] = h
        /\ store[h].prev # NoHash =>
              /\ store[h].prev \in DOMAIN store
              /\ line = Append(store[store[h].prev].line, h)
        /\ \A i \in 1 .. Len(line) :
              /\ line[i] \in DOMAIN store
              /\ store[line[i]].line = SubSeq(line, 1, i)

StoreOK(store) ==
    /\ DOMAIN store \subseteq Hash
    /\ store \in [DOMAIN store -> Entry]
    /\ TreeOK(store)

\* The inductive invariant.
IInv ==
    /\ TypeOK
    /\ TreeOK(blocks)
    /\ IndexIsTipBranch
    /\ TipDescendsFromFinalized

\* Among the positions at which two lists agree there is a highest one.
LEMMA HighestExists ==
    ASSUME NEW n \in Nat, NEW S, S \subseteq 1 .. n, NEW e \in S
    PROVE  \E i \in S : \A j \in S : j <= i
<1> DEFINE T == {n - i : i \in S}
<1>1. T \subseteq Nat
  OBVIOUS
<1>2. T # {}
  OBVIOUS
<1>3. PICK x \in T : \A y \in T : ~ (<<y, x>> \in OpToRel(<, Nat))
  BY <1>1, <1>2, WFMin, NatLessThanWellFounded
<1>4. ASSUME NEW y \in T PROVE x <= y
  <2>1. y \in Nat /\ x \in Nat
    BY <1>1
  <2>2. ~ (<<y, x>> \in OpToRel(<, Nat))
    BY <1>3
  <2>3. ~ (y < x)
    <3> HIDE DEF T
    <3> QED BY <2>1, <2>2 DEF OpToRel
  <2> QED BY <2>1, <2>3
<1>5. PICK i \in S : x = n - i
  OBVIOUS
<1>6. ASSUME NEW j \in S PROVE j <= i
  <2>1. n - j \in T
    OBVIOUS
  <2>2. x <= n - j
    BY <2>1, <1>4
  <2> QED BY <2>2, <1>5
<1> QED
  BY <1>6

\* adopt_tip computes the branch of the new tip.
LEMMA ReindexedIsLine ==
    ASSUME TypeOK, IndexIsTipBranch, NEW store, StoreOK(store),
           tip \in DOMAIN store, store[tip] = blocks[tip],
           NEW new \in DOMAIN store
    PROVE  Reindexed(new, store[new]) = store[new].line
<1> DEFINE line == store[new].line
           common == {i \in 1 .. Len(mainChain) : i <= Len(line) /\ mainChain[i] = line[i]}
<1>1. /\ store[new] \in Entry
      /\ store[tip] \in Entry
      /\ line \in Seq(Hash)
      /\ mainChain \in Seq(Hash)
      /\ mainChain = store[tip].line
      /\ Len(line) \in Nat /\ Len(mainChain) \in Nat
  BY DEF StoreOK, Entry, IndexIsTipBranch, TypeOK
<1>2. tip \in Hash /\ tip # NoHash
  BY NoHashAssumption DEF TypeOK
<1>3. CASE store[new].prev = tip
  <2>1. line = Append(mainChain, new)
    BY <1>1, <1>2, <1>3 DEF StoreOK, TreeOK
  <2>2. store[new].height = Len(mainChain)
    <3>1. Len(line) = store[new].height + 1 /\ store[new].height \in Nat
      BY <1>1 DEF StoreOK, TreeOK, Entry
    <3>2. Len(line) = Len(mainChain) + 1
      BY <1>1, <2>1 DEF StoreOK
    <3> QED BY <1>1, <3>1, <3>2
  <2> QED BY <1>3, <2>1, <2>2 DEF Reindexed
<1>4. CASE store[new].prev # tip
  <2>1. 1 \in common
    <3>1. /\ Len(line) = store[new].height + 1 /\ line[1] = Genesis
          /\ Len(mainChain) = store[tip].height + 1 /\ mainChain[1] = Genesis
      BY <1>1 DEF StoreOK, TreeOK
    <3>2. store[new].height \in Nat /\ store[tip].height \in Nat
      BY <1>1 DEF Entry
    <3> QED BY <3>1, <3>2
  <2>2. \E i \in common : \A j \in common : j <= i
    BY <1>1, <2>1, HighestExists
  <2>3. /\ ForkPosition(line) \in 1 .. Len(mainChain)
        /\ ForkPosition(line) <= Len(line)
        /\ mainChain[ForkPosition(line)] = line[ForkPosition(line)]
    BY <2>2 DEF ForkPosition
  <2> DEFINE f == ForkPosition(line)
  <2> HIDE DEF f, common
  <2>4. f \in 1 .. Len(mainChain) /\ f \in 1 .. Len(line) /\ mainChain[f] = line[f]
    BY <1>1, <2>3 DEF f
  <2>5. SubSeq(mainChain, 1, f) = SubSeq(line, 1, f)
    <3>1. store[line[f]].line = SubSeq(line, 1, f)
      BY <1>1, <2>4 DEF StoreOK, TreeOK
    <3>2. \A i \in 1 .. Len(store[tip].line) :
             store[store[tip].line[i]].line = SubSeq(store[tip].line, 1, i)
      BY DEF StoreOK, TreeOK
    <3>3. store[mainChain[f]].line = SubSeq(mainChain, 1, f)
      BY <1>1, <2>4, <3>2
    <3> QED BY <2>4, <3>1, <3>3
  <2>6. SubSeq(line, 1, f) \o SubSeq(line, f + 1, Len(line)) = line
    <3>1. SubSeq(line, 1, Len(line)) = line
      BY <1>1, SubSeqFull
    <3>2. SubSeq(line, 1, f) \o SubSeq(line, f + 1, Len(line)) = SubSeq(line, 1, Len(line))
      BY <1>1, <2>4, ConcatAdjacentSubSeq
    <3> QED BY <3>1, <3>2
  <2>7. Reindexed(new, store[new]) = SubSeq(mainChain, 1, f) \o SubSeq(line, f + 1, Len(line))
    BY <1>4 DEF Reindexed, f
  <2> QED BY <2>5, <2>6, <2>7
<1> QED BY <1>3, <1>4

\* insert_header links a fresh block below its parent and disturbs no other.
LEMMA LinkedStoreOK ==
    ASSUME StoreOK(blocks), NEW hash \in Hash, hash \notin Known,
           NEW prev \in Known, NEW d \in Difficulties
    PROVE  LET store == Linked(hash, prev, d) IN
           /\ StoreOK(store)
           /\ DOMAIN store = Known \cup {hash}
           /\ \A h \in Known : store[h] = blocks[h]
<1> DEFINE store == Linked(hash, prev, d)
           line == Append(blocks[prev].line, hash)
<1>1. Weight(d) \in Nat
  BY DifficultyAssumption DEF Weight
<1>2. /\ blocks[prev] \in Entry
      /\ blocks[prev].line \in Seq(Hash)
      /\ blocks[prev].height \in Nat /\ blocks[prev].work \in Nat
      /\ Len(blocks[prev].line) = blocks[prev].height + 1
      /\ prev \in Hash /\ prev # NoHash
  BY NoHashAssumption DEF StoreOK, TreeOK, Known, Entry
<1>3. /\ DOMAIN store = Known \cup {hash}
      /\ \A h \in Known : store[h] = blocks[h]
      /\ store[hash] = [prev |-> prev, height |-> blocks[prev].height + 1,
                        work |-> blocks[prev].work + Weight(d), line |-> line]
  BY DEF Linked, Known
<1>4. store[hash] \in Entry /\ line \in Seq(Hash)
  BY <1>1, <1>2, <1>3 DEF Entry
<1>5. store \in [DOMAIN store -> Entry] /\ DOMAIN store \subseteq Hash
  <2>1. store = [h \in Known \cup {hash} |-> store[h]]
    BY DEF Linked
  <2>2. \A h \in Known : store[h] \in Entry
    BY <1>3 DEF StoreOK, Known
  <2> QED BY <1>3, <1>4, <2>1, <2>2 DEF StoreOK, Known
<1>6. TreeOK(store)
  <2> SUFFICES ASSUME NEW h \in DOMAIN store
               PROVE  /\ Len(store[h].line) = store[h].height + 1
                      /\ store[h].line[1] = Genesis
                      /\ store[h].line[Len(store[h].line)] = h
                      /\ store[h].prev # NoHash =>
                            /\ store[h].prev \in DOMAIN store
                            /\ store[h].line = Append(store[store[h].prev].line, h)
                      /\ \A i \in 1 .. Len(store[h].line) :
                            /\ store[h].line[i] \in DOMAIN store
                            /\ store[store[h].line[i]].line = SubSeq(store[h].line, 1, i)
    BY DEF TreeOK
  <2> HIDE DEF store
  <2>1. CASE h \in Known
    <3>1. store[h] = blocks[h] /\ Known \subseteq DOMAIN store
      BY <1>3, <2>1
    <3>2. /\ Len(blocks[h].line) = blocks[h].height + 1
          /\ blocks[h].line[1] = Genesis
          /\ blocks[h].line[Len(blocks[h].line)] = h
          /\ blocks[h].prev # NoHash =>
                /\ blocks[h].prev \in Known
                /\ blocks[h].line = Append(blocks[blocks[h].prev].line, h)
      BY <2>1 DEF StoreOK, TreeOK, Known
    <3>3. \A i \in 1 .. Len(blocks[h].line) :
              /\ blocks[h].line[i] \in Known
              /\ blocks[blocks[h].line[i]].line = SubSeq(blocks[h].line, 1, i)
      BY <2>1 DEF StoreOK, TreeOK, Known
    <3>4. store[h].prev # NoHash =>
              /\ store[h].prev \in DOMAIN store
              /\ store[h].line = Append(store[store[h].prev].line, h)
      BY <1>3, <3>1, <3>2
    <3>5. \A i \in 1 .. Len(store[h].line) :
              /\ store[h].line[i] \in DOMAIN store
              /\ store[store[h].line[i]].line = SubSeq(store[h].line, 1, i)
      BY <1>3, <3>1, <3>3
    <3> QED
      BY <3>1, <3>2, <3>4, <3>5
  <2>2. CASE h = hash
    <3>1. /\ Len(line) = Len(blocks[prev].line) + 1
          /\ line[Len(line)] = hash
          /\ \A i \in 1 .. Len(blocks[prev].line) : line[i] = blocks[prev].line[i]
      BY <1>2
    <3>2. line[1] = Genesis
      BY <1>2, <3>1 DEF StoreOK, TreeOK, Known
    <3>3. ASSUME NEW i \in 1 .. Len(line)
          PROVE  line[i] \in DOMAIN store /\ store[line[i]].line = SubSeq(line, 1, i)
      <4>1. CASE i = Len(line)
        <5>1. SubSeq(line, 1, Len(line)) = line
          BY <1>4, SubSeqFull
        <5>2. line[i] = hash /\ store[hash].line = line /\ hash \in DOMAIN store
          BY <1>3, <3>1, <4>1
        <5> HIDE DEF line
        <5> QED BY <4>1, <5>1, <5>2
      <4>2. CASE i # Len(line)
        <5>1. i \in 1 .. Len(blocks[prev].line)
          BY <1>2, <3>1, <4>2
        <5>2. /\ line[i] = blocks[prev].line[i]
              /\ line[i] \in Known
              /\ blocks[line[i]].line = SubSeq(blocks[prev].line, 1, i)
          BY <3>1, <5>1 DEF StoreOK, TreeOK, Known
        <5>3. SubSeq(line, 1, i) = SubSeq(blocks[prev].line, 1, i)
          BY <1>2, <5>1
        <5> QED BY <1>3, <5>2, <5>3
      <4> QED BY <4>1, <4>2
    <3>4. /\ store[hash].line = line
          /\ store[hash].height = blocks[prev].height + 1
          /\ store[hash].prev = prev
          /\ prev \in DOMAIN store
          /\ line = Append(store[prev].line, hash)
      BY <1>3
    <3>5. Len(line) = store[hash].height + 1
      BY <1>2, <3>1, <3>4
    <3> HIDE DEF line
    <3> QED BY <2>2, <3>1, <3>2, <3>3, <3>4, <3>5
  <2> QED BY <1>3, <2>1, <2>2
<1> QED BY <1>3, <1>5, <1>6 DEF StoreOK

-----------------------------------------------------------------------------
(* The invariant.                                                          *)

LEMMA InitIInv == Init => IInv
<1> SUFFICES ASSUME Init PROVE IInv
  OBVIOUS
<1> PICK d \in Difficulties :
        blocks = [h \in {Genesis} |->
                     [prev |-> NoHash, height |-> 0, work |-> d, line |-> <<Genesis>>]]
  BY DEF Init
<1>1. DOMAIN blocks = {Genesis} /\ blocks[Genesis].line = <<Genesis>>
      /\ blocks[Genesis].height = 0 /\ blocks[Genesis].prev = NoHash
  OBVIOUS
<1>2. [prev |-> NoHash, height |-> 0, work |-> d, line |-> <<Genesis>>] \in Entry
  BY GenesisAssumption, DifficultyAssumption DEF Entry
<1>3. TypeOK
  BY <1>1, <1>2, GenesisAssumption DEF TypeOK, Init
<1>4. TreeOK(blocks)
  <2>1. <<Genesis>> \in Seq(Hash) /\ Len(<<Genesis>>) = 1 /\ <<Genesis>>[1] = Genesis
    BY GenesisAssumption
  <2>2. SubSeq(<<Genesis>>, 1, 1) = <<Genesis>>
    BY <2>1, SubSeqFull
  <2>3. \A i \in 1 .. Len(<<Genesis>>) : i = 1
    BY <2>1
  <2> DEFINE line == blocks[Genesis].line
  <2>4. line = <<Genesis>>
    BY <1>1
  <2>5. /\ Len(line) = 1 /\ line[1] = Genesis /\ line[Len(line)] = Genesis
        /\ \A i \in 1 .. Len(line) : line[i] \in DOMAIN blocks
                                     /\ blocks[line[i]].line = SubSeq(line, 1, i)
    BY <1>1, <2>1, <2>2, <2>3, <2>4
  <2> HIDE DEF line
  <2> QED BY <1>1, <2>5 DEF TreeOK, line
<1>5. IndexIsTipBranch /\ TipDescendsFromFinalized
  BY <1>1 DEF Init, IndexIsTipBranch, TipDescendsFromFinalized, DescendsFromFinalized
<1> QED BY <1>3, <1>4, <1>5 DEF IInv

LEMMA InsertHeaderIInv ==
    ASSUME IInv, NEW hash \in Hash, NEW prev \in Known,
           NEW height \in 0 .. MaxHeight, NEW d \in Difficulties,
           InsertHeader(hash, prev, height, d)
    PROVE  IInv'
<1>1. StoreOK(blocks)
  BY DEF IInv, StoreOK, TypeOK
<1>2. /\ StoreOK(blocks')
      /\ DOMAIN blocks' = Known \cup {hash}
      /\ \A h \in Known : blocks'[h] = blocks[h]
  BY <1>1, LinkedStoreOK DEF InsertHeader
<1>3. TypeOK /\ IndexIsTipBranch /\ tip \in Known /\ finalized' = finalized
  BY DEF IInv, TypeOK, InsertHeader, Known
<1>4. CASE tip' = hash /\ mainChain' = Reindexed(hash, blocks'[hash])
           /\ DescendsFromFinalized(blocks', hash)
  <2>1. mainChain' = blocks'[hash].line
    BY <1>2, <1>3, <1>4, ReindexedIsLine
  <2>2. mainChain' \in Seq(Hash)
    BY <1>2, <2>1 DEF StoreOK, Entry
  <2> QED
    BY <1>2, <1>3, <1>4, <2>1, <2>2
    DEF IInv, TypeOK, StoreOK, IndexIsTipBranch, TipDescendsFromFinalized,
        DescendsFromFinalized, Known
<1>5. CASE UNCHANGED <<mainChain, tip>>
  BY <1>2, <1>3, <1>5
  DEF IInv, TypeOK, StoreOK, IndexIsTipBranch, TipDescendsFromFinalized,
      DescendsFromFinalized, IsDescendantOf, AncestorAt, Known
<1> QED BY <1>4, <1>5 DEF InsertHeader

LEMMA SetFinalizedIInv ==
    ASSUME IInv, NEW hash \in Hash, SetFinalized(hash)
    PROVE  IInv'
<1>1. /\ StoreOK(blocks) /\ TypeOK /\ IndexIsTipBranch
      /\ hash \in Known /\ blocks' = blocks /\ finalized' = hash
      /\ tip \in DOMAIN blocks
  BY DEF IInv, StoreOK, TypeOK, SetFinalized, CanFinalize, FinalizeAndReanchor
<1>2. CASE /\ IsDescendantOf(blocks, tip, hash, HeightOf(hash))
           /\ UNCHANGED <<tip, mainChain>>
  BY <1>1, <1>2
  DEF IInv, TypeOK, StoreOK, IndexIsTipBranch, TipDescendsFromFinalized,
      DescendsFromFinalized, HeightOf, Known
<1>3. CASE tip' = hash /\ mainChain' = Reindexed(hash, blocks[hash])
  <2>1. mainChain' = blocks[hash].line
    BY <1>1, <1>3, ReindexedIsLine DEF Known
  <2>2. blocks[hash] \in Entry /\ mainChain' \in Seq(Hash)
    BY <1>1, <2>1 DEF StoreOK, Entry, Known
  <2>3. IsDescendantOf(blocks, hash, hash, blocks[hash].height)
    <3>1. /\ Len(blocks[hash].line) = blocks[hash].height + 1
          /\ blocks[hash].line[Len(blocks[hash].line)] = hash
          /\ blocks[hash].height \in Nat
      BY <1>1, <2>2 DEF StoreOK, TreeOK, Known, Entry
    <3> QED BY <1>1, <3>1 DEF IsDescendantOf, AncestorAt, Known
  <2> QED
    BY <1>1, <1>3, <2>1, <2>2, <2>3
    DEF IInv, TypeOK, StoreOK, IndexIsTipBranch, TipDescendsFromFinalized,
        DescendsFromFinalized, Known
<1> QED BY <1>2, <1>3 DEF SetFinalized, FinalizeAndReanchor

LEMMA RestoreFinalizedIInv ==
    ASSUME IInv, NEW hash \in Hash, NEW height \in 0 .. MaxHeight,
           RestoreFinalized(hash, height)
    PROVE  IInv'
BY DEF IInv, TypeOK, TreeOK, IndexIsTipBranch, TipDescendsFromFinalized, Entry,
       DescendsFromFinalized, RestoreFinalized, HeightOf, Known, IsDescendantOf, AncestorAt

LEMMA NextIInv == IInv /\ [Next]_chainVars => IInv'
<1> SUFFICES ASSUME IInv, [Next]_chainVars PROVE IInv'
  OBVIOUS
<1>1. CASE UNCHANGED chainVars
  BY <1>1 DEF chainVars, IInv, TypeOK, TreeOK, Entry, IndexIsTipBranch,
              TipDescendsFromFinalized, DescendsFromFinalized, IsDescendantOf, AncestorAt
<1>2. CASE Next
  BY <1>2, InsertHeaderIInv, SetFinalizedIInv, RestoreFinalizedIInv DEF Next
<1> QED BY <1>1, <1>2

\* Every reachable state of the store is well typed.
THEOREM TypeCorrect == Spec => []TypeOK
<1>1. IInv => TypeOK
  BY DEF IInv
<1> QED BY <1>1, InitIInv, NextIInv, PTL DEF Spec

\* The index adopt_tip maintains is always the branch of the tip.
THEOREM IndexCorrect == Spec => []IndexIsTipBranch
<1>1. IInv => IndexIsTipBranch
  BY DEF IInv
<1> QED BY <1>1, InitIInv, NextIInv, PTL DEF Spec

\* The tip always descends from the finalized head.
THEOREM FinalityGate == Spec => []TipDescendsFromFinalized
<1>1. IInv => TipDescendsFromFinalized
  BY DEF IInv
<1> QED BY <1>1, InitIInv, NextIInv, PTL DEF Spec
-----------------------------------------------------------------------------
(* ChainState implements FinalizedPrefix.                                  *)

\* The blocks below the finalized head are the head's own branch.
FinalizedIsABranch ==
    /\ FinalizedBlocks = IF finalized = NoHash THEN <<Genesis>>
                         ELSE blocks[finalized].line
    /\ FinalizedBlocks \in Seq(Hash)
    /\ Len(FinalizedBlocks) >= 1
    /\ SubSeq(FinalizedBlocks, 1, 1) = <<Genesis>>

LEMMA FinalizedBlocksAreLine == IInv => FinalizedIsABranch
<1> SUFFICES ASSUME IInv
             PROVE  /\ FinalizedBlocks = IF finalized = NoHash THEN <<Genesis>>
                                         ELSE blocks[finalized].line
                    /\ FinalizedBlocks \in Seq(Hash)
                    /\ Len(FinalizedBlocks) >= 1
                    /\ SubSeq(FinalizedBlocks, 1, 1) = <<Genesis>>
  BY DEF FinalizedIsABranch
<1>0. <<Genesis>> \in Seq(Hash) /\ Len(<<Genesis>>) = 1 /\ <<Genesis>>[1] = Genesis
  BY GenesisAssumption
<1>1. CASE finalized = NoHash
  <2>1. SubSeq(<<Genesis>>, 1, 1) = <<Genesis>>
    BY <1>0, SubSeqFull
  <2> QED BY <1>0, <1>1, <2>1 DEF FinalizedBlocks
<1>2. CASE finalized # NoHash
  <2> DEFINE f == finalized
             h == blocks[f].height
             line == blocks[f].line
  <2>1. /\ f \in DOMAIN blocks /\ tip \in DOMAIN blocks
        /\ blocks[f] \in Entry /\ blocks[tip] \in Entry
        /\ mainChain = blocks[tip].line
    BY <1>2 DEF IInv, TypeOK, IndexIsTipBranch
  <2>2. h \in Nat /\ line \in Seq(Hash) /\ blocks[tip].height \in Nat
    BY <2>1 DEF Entry
  <2>3. h <= blocks[tip].height /\ mainChain[h + 1] = f
    BY <1>2, <2>1 DEF IInv, TipDescendsFromFinalized, DescendsFromFinalized,
                      IsDescendantOf, AncestorAt
  <2>4. Len(mainChain) = blocks[tip].height + 1
    BY <2>1 DEF IInv, TreeOK
  <2>5. h + 1 \in 1 .. Len(mainChain)
    BY <2>2, <2>3, <2>4
  <2>6. \A i \in 1 .. Len(mainChain) : blocks[mainChain[i]].line = SubSeq(mainChain, 1, i)
    BY <2>1 DEF IInv, TreeOK
  <2>7. line = SubSeq(mainChain, 1, h + 1)
    BY <2>3, <2>5, <2>6
  <2>8. Len(line) = h + 1 /\ line[1] = Genesis
    BY <2>1 DEF IInv, TreeOK
  <2>9. SubSeq(line, 1, 1) = <<Genesis>>
    <3>1. SubSeq(line, 1, 1) = <<line[1]>>
      <4> HIDE DEF line, h
      <4>1. line \in Seq(Hash) /\ Len(line) >= 1
        BY <2>2, <2>8 DEF h
      <4>2. /\ SubSeq(line, 1, 1) \in Seq(Hash)
            /\ Len(SubSeq(line, 1, 1)) = 1
            /\ SubSeq(line, 1, 1)[1] = line[1]
        BY <4>1
      <4>3. /\ <<line[1]>> \in Seq(Hash)
            /\ Len(<<line[1]>>) = 1
            /\ <<line[1]>>[1] = line[1]
        BY <4>1
      <4>4. \A i \in 1 .. Len(SubSeq(line, 1, 1)) : SubSeq(line, 1, 1)[i] = <<line[1]>>[i]
        BY <4>2, <4>3
      <4> QED BY <4>2, <4>3, <4>4, SeqEqual
    <3> QED BY <2>8, <3>1
  <2>10. FinalizedBlocks = line
    BY <1>2, <2>7 DEF FinalizedBlocks, HeightOf
  <2> HIDE DEF line, h
  <2> QED BY <1>2, <2>2, <2>8, <2>9, <2>10 DEF line, f
<1> QED BY <1>1, <1>2

\* Every step of the store extends, or leaves alone, the finalized blocks.
LEMMA StepExtends ==
    ASSUME IInv, IInv', [Next]_chainVars
    PROVE  [FP!Extend]_FinalizedBlocks
<1> DEFINE before == FinalizedBlocks
           after == FinalizedBlocks'
<1>1. /\ before = IF finalized = NoHash THEN <<Genesis>> ELSE blocks[finalized].line
      /\ before \in Seq(Hash)
  BY FinalizedBlocksAreLine DEF FinalizedIsABranch
<1>2. /\ after = (IF finalized' = NoHash THEN <<Genesis>> ELSE blocks'[finalized'].line)
      /\ after \in Seq(Hash) /\ Len(after) >= 1 /\ SubSeq(after, 1, 1) = <<Genesis>>
  <2>1. FinalizedIsABranch'
    BY FinalizedBlocksAreLine, PTL
  <2> QED BY <2>1 DEF FinalizedIsABranch
<1> SUFFICES after = before \/ (Len(before) <= Len(after) /\ SubSeq(after, 1, Len(before)) = before)
  BY <1>2 DEF FP!Extend
<1>3. CASE finalized = NoHash
  <2>1. before = <<Genesis>> /\ Len(before) = 1
    BY <1>1, <1>3
  <2> HIDE DEF before, after
  <2> QED BY <1>2, <2>1
<1>4. CASE finalized # NoHash /\ UNCHANGED chainVars
  BY <1>1, <1>2, <1>4 DEF chainVars
<1>5. ASSUME finalized # NoHash, NEW hash \in Hash, NEW prev \in Known,
             NEW height \in 0 .. MaxHeight, NEW d \in Difficulties,
             InsertHeader(hash, prev, height, d)
      PROVE  after = before
  <2>1. finalized \in Known /\ finalized' = finalized
    BY <1>5 DEF IInv, TypeOK, InsertHeader, Known
  <2>2. blocks'[finalized] = blocks[finalized]
    BY <1>5, <2>1 DEF InsertHeader, Linked
  <2> QED BY <1>1, <1>2, <1>5, <2>1, <2>2
<1>6. ASSUME finalized # NoHash, NEW hash \in Hash, SetFinalized(hash)
      PROVE  Len(before) <= Len(after) /\ SubSeq(after, 1, Len(before)) = before
  <2>1. /\ blocks' = blocks /\ finalized' = hash
        /\ hash \in DOMAIN blocks /\ finalized \in DOMAIN blocks
        /\ hash # NoHash
    BY <1>6, NoHashAssumption
    DEF IInv, TypeOK, SetFinalized, CanFinalize, FinalizeAndReanchor, Known
  <2> DEFINE h == blocks[finalized].height
             line == blocks[hash].line
  <2>2. /\ before = blocks[finalized].line /\ after = line
    BY <1>1, <1>2, <1>6, <2>1
  <2>3. /\ h \in Nat /\ blocks[hash].height \in Nat
        /\ Len(before) = h + 1 /\ Len(line) = blocks[hash].height + 1
    <3>1. blocks[finalized] \in Entry /\ blocks[hash] \in Entry
      BY <2>1 DEF IInv, TypeOK
    <3> QED BY <2>1, <2>2, <3>1 DEF Entry, IInv, TreeOK
  <2>4. h <= blocks[hash].height /\ line[h + 1] = finalized
    BY <1>6, <2>1 DEF SetFinalized, CanFinalize, DescendsFromFinalized, IsDescendantOf, AncestorAt
  <2>5. \A i \in 1 .. Len(line) : blocks[line[i]].line = SubSeq(line, 1, i)
    BY <2>1 DEF IInv, TreeOK
  <2>6. h + 1 \in 1 .. Len(line)
    BY <2>3, <2>4
  <2>7. before = SubSeq(line, 1, h + 1)
    BY <2>2, <2>4, <2>5, <2>6
  <2> HIDE DEF before, after, line, h
  <2> QED BY <2>2, <2>3, <2>6, <2>7
<1>7. ASSUME finalized # NoHash, NEW hash \in Hash, NEW height \in 0 .. MaxHeight,
             RestoreFinalized(hash, height)
      PROVE  FALSE
  BY <1>7 DEF RestoreFinalized
<1> QED
  BY <1>3, <1>4, <1>5, <1>6, <1>7 DEF Next

\* Fork choice with its finality gate implements a list of final blocks that
\* only grows at its end: no reorg past a finalized block.
THEOREM FinalityPreserved == Spec => FinalizedOnlyGrows
<1>1. Init => FP!Init
  BY DEF Init, FP!Init, FinalizedBlocks
<1> QED
  BY <1>1, InitIInv, NextIInv, StepExtends, PTL DEF Spec, FinalizedOnlyGrows, FP!Spec

-----------------------------------------------------------------------------
(* The tip stays the heaviest block fork choice may adopt.                 *)

\* What descends from a block descends from what that block descends from.
LEMMA DescentIsTransitive ==
    ASSUME IInv, NEW h \in Known, NEW mid \in Known,
           IsDescendantOf(blocks, h, mid, blocks[mid].height), DescendsFromFinalized(blocks, mid)
    PROVE  DescendsFromFinalized(blocks, h)
<1> SUFFICES ASSUME finalized # NoHash
             PROVE  IsDescendantOf(blocks, h, finalized, blocks[finalized].height)
  BY DEF DescendsFromFinalized
<1> DEFINE line == blocks[h].line
           m == blocks[mid].height
           f == blocks[finalized].height
<1>1. /\ blocks[h] \in Entry /\ blocks[mid] \in Entry /\ blocks[finalized] \in Entry
      /\ line \in Seq(Hash) /\ m \in Nat /\ f \in Nat /\ blocks[h].height \in Nat
  BY DEF IInv, TypeOK, Known, Entry
<1>2. m <= blocks[h].height /\ line[m + 1] = mid /\ Len(line) = blocks[h].height + 1
  BY DEF IsDescendantOf, AncestorAt, IInv, TreeOK, Known
<1>3. f <= m /\ blocks[mid].line[f + 1] = finalized
  BY DEF DescendsFromFinalized, IsDescendantOf, AncestorAt
<1>4. blocks[mid].line = SubSeq(line, 1, m + 1)
  <2>1. m + 1 \in 1 .. Len(line)
    BY <1>1, <1>2
  <2> QED
    BY <1>2, <2>1 DEF IInv, TreeOK, Known
<1> HIDE DEF line, m, f
<1>5. SubSeq(line, 1, m + 1)[f + 1] = line[f + 1]
  BY <1>1, <1>2, <1>3
<1>6. f <= blocks[h].height
  BY <1>1, <1>2, <1>3
<1> QED
  BY <1>3, <1>4, <1>5, <1>6 DEF IsDescendantOf, AncestorAt, line, f, Known

LEMMA InsertKeepsHeaviest ==
    ASSUME IInv, TipIsHeaviest, NEW hash \in Hash, NEW prev \in Known,
           NEW height \in 0 .. MaxHeight, NEW d \in Difficulties,
           InsertHeader(hash, prev, height, d)
    PROVE  TipIsHeaviest'
<1>1. /\ StoreOK(blocks')
      /\ DOMAIN blocks' = Known \cup {hash} /\ hash \notin Known
      /\ \A h \in Known : blocks'[h] = blocks[h]
  <2>1. StoreOK(blocks)
    BY DEF IInv, StoreOK, TypeOK
  <2> QED
    BY <2>1, LinkedStoreOK DEF InsertHeader
<1>2. /\ tip \in Known /\ finalized' = finalized /\ finalized \in Known \cup {NoHash}
      /\ \A h \in Known : blocks[h].work \in Nat
      /\ blocks'[hash].work \in Nat
  BY <1>1 DEF IInv, TypeOK, Known, InsertHeader, StoreOK, Entry
<1>3. ASSUME NEW h \in Known, DescendsFromFinalized(blocks', h)
      PROVE  blocks'[h].work <= TipWork
  <2>1. DescendsFromFinalized(blocks, h)
    BY <1>1, <1>2, <1>3 DEF DescendsFromFinalized, IsDescendantOf, AncestorAt, Known
  <2> QED
    BY <1>1, <2>1 DEF TipIsHeaviest
<1>4. CASE tip' = hash /\ Outweighs(blocks'[hash])
  <2>1. TipWork' = blocks'[hash].work /\ TipWork \in Nat /\ blocks'[hash].work > TipWork
    BY <1>2, <1>4 DEF TipWork, Outweighs
  <2>2. \A h \in Known \cup {hash} : DescendsFromFinalized(blocks', h) => blocks'[h].work <= TipWork'
    BY <1>1, <1>2, <1>3, <2>1
  <2> QED
    BY <1>1, <1>2, <2>2 DEF TipIsHeaviest, Known, DescendsFromFinalized
<1>5. CASE tip' = tip /\ ~ (Outweighs(blocks'[hash]) /\ DescendsFromFinalized(blocks', hash))
  <2>1. TipWork' = TipWork /\ TipWork \in Nat
    BY <1>1, <1>2, <1>5 DEF TipWork
  <2>2. DescendsFromFinalized(blocks', hash) => blocks'[hash].work <= TipWork
    BY <1>2, <1>5, <2>1 DEF Outweighs
  <2>3. \A h \in Known \cup {hash} : DescendsFromFinalized(blocks', h) => blocks'[h].work <= TipWork'
    BY <1>3, <2>1, <2>2
  <2> QED
    BY <1>1, <1>2, <2>3 DEF TipIsHeaviest, Known, DescendsFromFinalized
<1> QED
  BY <1>4, <1>5 DEF InsertHeader

LEMMA SetFinalizedKeepsHeaviest ==
    ASSUME IInv, TipIsHeaviest, NEW hash \in Hash, SetFinalized(hash),
           NEW i \in DOMAIN mainChain, hash = mainChain[i]
    PROVE  TipIsHeaviest'
<1>1. /\ hash \in Known /\ blocks' = blocks /\ finalized' = hash /\ tip \in Known
      /\ DescendsFromFinalized(blocks, hash) /\ hash # NoHash
      /\ blocks[tip] \in Entry /\ blocks[hash] \in Entry
      /\ mainChain = blocks[tip].line /\ mainChain \in Seq(Hash)
  BY NoHashAssumption DEF SetFinalized, CanFinalize, FinalizeAndReanchor, IInv, TypeOK, Known,
                          IndexIsTipBranch
<1>2. tip' = tip
  <2>1. i \in 1 .. Len(mainChain) /\ Len(mainChain) \in Nat
    BY <1>1
  <2>2. blocks[hash].line = SubSeq(mainChain, 1, i)
    BY <1>1, <2>1 DEF IInv, TreeOK, Known
  <2>3. Len(blocks[hash].line) = blocks[hash].height + 1 /\ Len(mainChain) = blocks[tip].height + 1
    BY <1>1 DEF IInv, TreeOK, Known
  <2>4. Len(SubSeq(mainChain, 1, i)) = i
    BY <1>1, <2>1
  <2>5. i = blocks[hash].height + 1 /\ blocks[hash].height <= blocks[tip].height
    BY <1>1, <2>1, <2>2, <2>3, <2>4 DEF Entry
  <2>6. IsDescendantOf(blocks, tip, hash, HeightOf(hash))
    BY <1>1, <2>5 DEF IsDescendantOf, AncestorAt, HeightOf, Known
  <2> QED
    BY <2>6 DEF SetFinalized, FinalizeAndReanchor
<1>3. ASSUME NEW h \in Known, IsDescendantOf(blocks, h, hash, blocks[hash].height)
      PROVE  blocks[h].work <= TipWork
  BY <1>1, <1>3, DescentIsTransitive DEF TipIsHeaviest
<1> QED
  BY <1>1, <1>2, <1>3 DEF TipIsHeaviest, DescendsFromFinalized, Known, TipWork, IsDescendantOf, AncestorAt

\* Whatever headers arrive, in whatever order, the tip stays the heaviest block
\* fork choice may adopt, until finality marks a block off the main chain
\* (insert_header, set_finalized).
THEOREM HeaviestStays == Spec => HeaviestKept
<1> DEFINE A == /\ TipIsHeaviest
                /\ finalized' = NoHash \/ \E i \in DOMAIN mainChain : finalized' = mainChain[i]
                => TipIsHeaviest'
<1>1. IInv /\ [Next]_chainVars => [A]_chainVars
  <2> SUFFICES ASSUME IInv, Next, TipIsHeaviest,
                      finalized' = NoHash \/ \E i \in DOMAIN mainChain : finalized' = mainChain[i]
               PROVE  TipIsHeaviest'
    OBVIOUS
  <2>1. ASSUME NEW hash \in Hash, NEW prev \in Known, NEW height \in 0 .. MaxHeight,
               NEW d \in Difficulties, InsertHeader(hash, prev, height, d)
        PROVE  TipIsHeaviest'
    BY <2>1, InsertKeepsHeaviest
  <2>2. ASSUME NEW hash \in Hash, SetFinalized(hash) PROVE TipIsHeaviest'
    <3>1. finalized' = hash /\ hash # NoHash
      BY <2>2, NoHashAssumption DEF SetFinalized, FinalizeAndReanchor
    <3> QED
      BY <2>2, <3>1, SetFinalizedKeepsHeaviest
  <2>3. ASSUME NEW hash \in Hash, NEW height \in 0 .. MaxHeight, RestoreFinalized(hash, height)
        PROVE  TipIsHeaviest'
    <3>1. finalized = NoHash /\ UNCHANGED <<blocks, tip, mainChain>>
      BY <2>3 DEF RestoreFinalized
    <3>2. \A h \in Known : blocks[h].work <= TipWork
      BY <3>1 DEF TipIsHeaviest, DescendsFromFinalized
    <3> QED
      BY <3>1, <3>2 DEF TipIsHeaviest, Known, TipWork
  <2> QED
    BY <2>1, <2>2, <2>3 DEF Next
<1> QED
  BY InitIInv, NextIInv, <1>1, PTL DEF Spec, HeaviestKept

-----------------------------------------------------------------------------
(* Ancestors found by parent links.                                        *)

\* Only the genesis block, at height 0, has no parent.
ParentsKnown == \A h \in Known : blocks[h].prev = NoHash => blocks[h].height = 0

\* Induction over the naturals, in a form that needs no operator argument.
LEMMA SetInduction ==
    ASSUME NEW S, 0 \in S, \A n \in Nat : n \in S => n + 1 \in S
    PROVE  Nat \subseteq S
<1> DEFINE T == Nat \ S
<1> SUFFICES ASSUME T # {} PROVE FALSE
  OBVIOUS
<1>1. PICK x \in T : \A y \in T : ~ (<<y, x>> \in OpToRel(<, Nat))
  BY NatLessThanWellFounded, WFMin
<1>2. x \in Nat /\ x # 0 /\ x - 1 \in Nat /\ (x - 1) + 1 = x /\ x - 1 < x
  OBVIOUS
<1>3. x - 1 \in T
  BY <1>2
<1>4. <<x - 1, x>> \in OpToRel(<, Nat)
  BY <1>2 DEF OpToRel
<1> QED
  BY <1>1, <1>3, <1>4

\* The stored line of a block, read from its end, and nothing past genesis.
Backwards(h) ==
    [n \in Nat |-> IF n <= blocks[h].height THEN blocks[h].line[blocks[h].height + 1 - n]
                   ELSE NoHash]

\* The equation of the walk.
OneStep(h, walk) ==
    walk = [n \in Nat |-> IF n = 0 THEN h
                          ELSE IF walk[n - 1] = NoHash THEN NoHash
                          ELSE blocks[walk[n - 1]].prev]

LEMMA WalkHolds ==
    ASSUME NEW h, NEW f, OneStep(h, f)
    PROVE  OneStep(h, ParentWalk(h))
BY DEF OneStep, ParentWalk

\* The parent of a block is its predecessor on every line that holds it.
LEMMA ParentOnLine ==
    ASSUME IInv, ParentsKnown, NEW h \in Known, NEW i \in 1 .. blocks[h].height + 1
    PROVE  /\ blocks[h].line[i] \in Known /\ blocks[h].line[i] # NoHash
           /\ i = 1 => blocks[blocks[h].line[i]].prev = NoHash
           /\ i > 1 => blocks[blocks[h].line[i]].prev = blocks[h].line[i - 1]
<1> DEFINE line == blocks[h].line
           b == line[i]
           p == blocks[b].prev
<1>1. /\ StoreOK(blocks) /\ line \in Seq(Hash)
      /\ blocks[h].height \in Nat /\ Len(line) = blocks[h].height + 1
  BY DEF IInv, TypeOK, StoreOK, TreeOK, Entry, Known
<1>2. /\ b \in Known /\ blocks[b].line = SubSeq(line, 1, i)
      /\ i \in Nat /\ i >= 1 /\ i <= Len(line)
  BY <1>1 DEF StoreOK, TreeOK, Known
<1>3. /\ Len(blocks[b].line) = i /\ blocks[b].height = i - 1
      /\ \A j \in 1 .. i : blocks[b].line[j] = line[j]
  <2>1. Len(blocks[b].line) = i /\ \A j \in 1 .. i : blocks[b].line[j] = line[j]
    <3> HIDE DEF line, b
    <3> QED BY <1>1, <1>2
  <2>2. Len(blocks[b].line) = blocks[b].height + 1 /\ blocks[b].height \in Nat
    BY <1>1, <1>2 DEF StoreOK, TreeOK, Entry, Known
  <2>3. blocks[b].height = i - 1
    <3> HIDE DEF line, b
    <3> QED BY <1>2, <2>1, <2>2
  <2> QED BY <2>1, <2>3
<1>4. b # NoHash /\ (p # NoHash => p \in Known /\ p \in Hash)
  BY <1>1, <1>2, NoHashAssumption DEF StoreOK, TreeOK, Known
<1>5. ASSUME p # NoHash
      PROVE  i > 1 /\ p = line[i - 1]
  <2>1. p \in Known /\ blocks[b].line = Append(blocks[p].line, b)
    BY <1>1, <1>2, <1>5 DEF StoreOK, TreeOK, Known
  <2>2. /\ blocks[p].line \in Seq(Hash) /\ blocks[p].height \in Nat
        /\ Len(blocks[p].line) = blocks[p].height + 1
        /\ blocks[p].line[Len(blocks[p].line)] = p
    BY <1>1, <2>1 DEF StoreOK, TreeOK, Entry, Known
  <2> DEFINE above == blocks[p].line
  <2>3. /\ Len(blocks[b].line) = Len(above) + 1
        /\ \A j \in 1 .. Len(above) : blocks[b].line[j] = above[j]
    <3>1. above \in Seq(Hash) /\ blocks[b].line = Append(above, b) /\ b \in Hash
      BY <1>1, <1>2, <2>1, <2>2 DEF StoreOK, Known
    <3> HIDE DEF above, b
    <3>2. /\ Len(Append(above, b)) = Len(above) + 1
          /\ \A j \in 1 .. Len(above) : Append(above, b)[j] = above[j]
      BY <3>1
    <3> QED BY <3>1, <3>2
  <2>4. Len(above) = i - 1 /\ Len(above) \in Nat /\ Len(above) >= 1 /\ above[Len(above)] = p
    <3>1. above[Len(above)] = p /\ Len(above) \in Nat /\ Len(above) = blocks[p].height + 1
      BY <2>2
    <3> HIDE DEF above, b, p, line
    <3>2. Len(above) = i - 1
      BY <1>2, <1>3, <2>3, <3>1
    <3> QED BY <2>2, <3>1, <3>2
  <2> HIDE DEF above, b, p, line
  <2>5. i - 1 \in 1 .. Len(above) /\ i - 1 \in 1 .. i /\ i > 1
    BY <1>2, <2>4
  <2> QED BY <1>3, <2>3, <2>4, <2>5
<1>6. p = NoHash => i = 1
  BY <1>2, <1>3 DEF ParentsKnown
<1> HIDE DEF b, p, line
<1>7. /\ b \in Known /\ b # NoHash
      /\ i = 1 => p = NoHash
      /\ i > 1 => p = line[i - 1]
  BY <1>2, <1>4, <1>5, <1>6
<1> QED
  BY <1>7 DEF b, p, line

LEMMA BackwardsIsWalk ==
    ASSUME IInv, ParentsKnown, NEW h \in Known
    PROVE  OneStep(h, Backwards(h))
<1> DEFINE top == blocks[h].height
           line == blocks[h].line
           f == Backwards(h)
<1>1. top \in Nat /\ Len(line) = top + 1 /\ line[Len(line)] = h /\ NoHash \notin Known
  BY NoHashAssumption DEF IInv, TypeOK, TreeOK, Entry, Known
<1>2. \A n \in Nat : f[n] = IF n <= top THEN line[top + 1 - n] ELSE NoHash
  BY DEF Backwards
<1>3. ASSUME NEW n \in Nat
      PROVE  f[n] = IF n = 0 THEN h ELSE IF f[n - 1] = NoHash THEN NoHash
                                          ELSE blocks[f[n - 1]].prev
  <2>1. CASE n = 0
    <3>1. top + 1 - 0 = Len(line) /\ 0 <= top
      BY <1>1
    <3> HIDE DEF f, top, line
    <3> QED BY <1>1, <1>2, <2>1, <3>1
  <2>2. CASE n # 0 /\ n - 1 <= top
    <3> DEFINE i == top + 1 - (n - 1)
    <3>1. i \in 1 .. top + 1 /\ n - 1 \in Nat /\ i - 1 = top + 1 - n /\ (n <= top <=> i > 1)
          /\ (~ i > 1 <=> i = 1)
      <4> HIDE DEF top
      <4> QED BY <1>1, <2>2
    <3>2. /\ line[i] # NoHash
          /\ i = 1 => blocks[line[i]].prev = NoHash
          /\ i > 1 => blocks[line[i]].prev = line[i - 1]
      <4>1. i \in 1 .. blocks[h].height + 1
        BY <3>1
      <4> HIDE DEF i
      <4> QED BY <4>1, ParentOnLine
    <3>3. f[n - 1] = line[i]
      <4> HIDE DEF f, top, line
      <4> QED BY <1>2, <2>2, <3>1
    <3> HIDE DEF f, top, line, i
    <3> QED BY <1>2, <2>2, <3>1, <3>2, <3>3
  <2>3. CASE n # 0 /\ ~ (n - 1 <= top)
    <3>1. n - 1 \in Nat /\ ~ (n <= top)
      <4> HIDE DEF top
      <4> QED BY <1>1, <2>3
    <3> HIDE DEF f, top, line
    <3> QED BY <1>2, <2>3, <3>1
  <2> QED BY <2>1, <2>2, <2>3
<1>4. f = [n \in Nat |-> f[n]]
  BY DEF Backwards
<1> HIDE DEF f
<1>5. f = [n \in Nat |-> IF n = 0 THEN h ELSE IF f[n - 1] = NoHash THEN NoHash
                                               ELSE blocks[f[n - 1]].prev]
  BY <1>3, <1>4
<1> QED
  BY <1>5 DEF OneStep, f

\* The equation has one solution.
LEMMA WalksAgree ==
    ASSUME NEW h, NEW f, NEW g, OneStep(h, f), OneStep(h, g), NEW n \in Nat
    PROVE  f[n] = g[n]
<1> DEFINE S == {i \in Nat : f[i] = g[i]}
<1>1. \A i \in Nat : f[i] = IF i = 0 THEN h ELSE IF f[i - 1] = NoHash THEN NoHash
                                                 ELSE blocks[f[i - 1]].prev
  BY DEF OneStep
<1>2. \A i \in Nat : g[i] = IF i = 0 THEN h ELSE IF g[i - 1] = NoHash THEN NoHash
                                                 ELSE blocks[g[i - 1]].prev
  BY DEF OneStep
<1>3. 0 \in S
  BY <1>1, <1>2
<1>4. ASSUME NEW i \in Nat, i \in S PROVE i + 1 \in S
  <2>1. i + 1 \in Nat /\ (i + 1) - 1 = i /\ i + 1 # 0 /\ f[i] = g[i]
    BY <1>4
  <2>2. f[i + 1] = g[i + 1]
    BY <1>1, <1>2, <2>1
  <2> QED BY <2>1, <2>2
<1> HIDE DEF S
<1>5. n \in S
  BY <1>3, <1>4, SetInduction
<1> QED BY <1>5 DEF S

LEMMA ParentsKnownStep ==
    ASSUME IInv, ParentsKnown, [Next]_chainVars
    PROVE  ParentsKnown'
<1>1. ASSUME NEW hash \in Hash, NEW prev \in Known, NEW height \in 0 .. MaxHeight,
             NEW d \in Difficulties, InsertHeader(hash, prev, height, d)
      PROVE  ParentsKnown'
  <2>1. prev # NoHash
    BY NoHashAssumption DEF IInv, TypeOK, Known
  <2>2. /\ DOMAIN blocks' = Known \cup {hash} /\ blocks'[hash].prev = prev
        /\ \A h \in Known : blocks'[h] = blocks[h]
    BY <1>1 DEF InsertHeader, Linked, Known
  <2> QED BY <2>1, <2>2 DEF ParentsKnown, Known
<1>2. CASE UNCHANGED blocks
  BY <1>2 DEF ParentsKnown, Known
<1> QED
  BY <1>1, <1>2 DEF Next, SetFinalized, RestoreFinalized, chainVars

\* Walking parent links and comparing the block reached (ChainState::ancestor, in
\* is_descendant_of) answers what the stored line of the block answers: the lines
\* are the branches of the tree of parent links, in every reachable store.
THEOREM AncestryCorrect == Spec => []AncestryFollowsParentLinks
<1>1. Init => ParentsKnown
  BY DEF Init, ParentsKnown, Known
<1>2. IInv /\ ParentsKnown => AncestryFollowsParentLinks
  <2> SUFFICES ASSUME IInv, ParentsKnown, NEW a \in Known, NEW b \in Known
               PROVE  IsDescendantOf(blocks, b, a, HeightOf(a))
                          <=> /\ HeightOf(a) <= HeightOf(b)
                              /\ ParentWalk(b)[HeightOf(b) - HeightOf(a)] = a
    BY DEF AncestryFollowsParentLinks
  <2>1. HeightOf(a) \in Nat /\ HeightOf(b) \in Nat
    BY DEF IInv, TypeOK, Entry, Known, HeightOf
  <2>2. OneStep(b, Backwards(b))
    BY BackwardsIsWalk
  <2>3. OneStep(b, ParentWalk(b))
    BY <2>2, WalkHolds
  <2>4. CASE HeightOf(a) <= HeightOf(b)
    <3> DEFINE n == HeightOf(b) - HeightOf(a)
    <3>1. n \in Nat /\ n <= HeightOf(b) /\ HeightOf(b) + 1 - n = HeightOf(a) + 1
      BY <2>1, <2>4
    <3>2. ParentWalk(b)[n] = Backwards(b)[n]
      <4> HIDE DEF n
      <4> QED BY <2>2, <2>3, <3>1, WalksAgree
    <3>3. Backwards(b)[n] = blocks[b].line[HeightOf(a) + 1]
      <4> HIDE DEF n
      <4>1. Backwards(b)[n] = blocks[b].line[HeightOf(b) + 1 - n]
        BY <3>1 DEF Backwards, HeightOf
      <4> QED BY <3>1, <4>1
    <3> QED BY <2>4, <3>2, <3>3 DEF IsDescendantOf, AncestorAt, HeightOf, Known
  <2>5. CASE ~ (HeightOf(a) <= HeightOf(b))
    BY <2>5 DEF IsDescendantOf, HeightOf
  <2> QED BY <2>4, <2>5
<1> QED
  BY InitIInv, NextIInv, ParentsKnownStep, <1>1, <1>2, PTL DEF Spec
=============================================================================
