------------------------- MODULE CheckpointSyncProofs -------------------------
(***************************************************************************)
(* Proofs about CheckpointSync, for every header tree, every set of peers, *)
(* honest chains and claims, and every limit.                              *)
(*                                                                         *)
(* The buffer of a session is a list of headers each of which is the child *)
(* of the one before it.  Nothing of it was validated, but once its last   *)
(* block is the one a quorum attested, the whole of it is the attested     *)
(* branch: there is one parent per hash.  The hypothesis HonestQuorum says *)
(* what a quorum stands for: the blocks it attests lie on one branch of    *)
(* valid headers.  The span then attaches at or above the finalized head,  *)
(* because that head is on the same branch and is known, while no header   *)
(* of the span is; so nothing after the first insertion can fail.          *)
(***************************************************************************)
EXTENDS CheckpointSync, ChainStateProofs

-----------------------------------------------------------------------------
(* The invariant.                                                          *)

\* A branch of valid headers, with the attested blocks on it.
QuorumLine(line) ==
    /\ line \in Seq(Hash) /\ Len(line) >= 1 /\ line[1] = Genesis
    /\ \A i \in 2 .. Len(line) :
          /\ line[i] # Genesis
          /\ Tree[line[i]].prev = line[i - 1]
          /\ Tree[line[i]].height = i - 1
          /\ Tree[line[i]].valid
    /\ \A h \in Attested : \E i \in 1 .. Len(line) : h = line[i]

\* The quorum attests blocks of one branch of valid headers.
HonestQuorum == \E line : QuorumLine(line)

OnLine(line, h) == HeightIn(h) + 1 \in 1 .. Len(line) /\ line[HeightIn(h) + 1] = h

\* Each header is the child of the one before it.
Chained(hs) ==
    \A i \in 1 .. Len(hs) :
        /\ hs[i] \in Hash \ {Genesis}
        /\ i > 1 => Tree[hs[i]].prev = hs[i - 1]
        /\ HeightIn(hs[i]) = HeightIn(hs[1]) + i - 1

\* What the store holds of a header is what the header says.
StoreMatches(store) ==
    /\ \A h \in DOMAIN store : store[h].height = HeightIn(h)
    /\ \A h \in DOMAIN store \ {Genesis} : store[h].prev = Tree[h].prev

\* Finality comes from attested checkpoints, and fork choice's head is not ahead
\* of the tracker.
FinalityOK ==
    /\ latest \in Attested \cup {NoHash}
    /\ finalized \in Attested \cup {NoHash}
    /\ finalized # NoHash => latest # NoHash /\ HeightIn(finalized) <= HeightIn(latest)

Sessions == [cp : Hash, base : Hash, headers : Seq(Hash), peer : Peers, stalled : Nat]

SessionFits(s) ==
    /\ s \in Seq(Sessions)
    /\ \A i \in 1 .. Len(s) : Chained(s[i].headers)

SessionOK ==
    /\ session \in Seq(Sessions)
    /\ \A i \in 1 .. Len(session) : Chained(session[i].headers)

\* The span in admission: it ends in the tracker's checkpoint and its parent is a
\* known block at or above the finalized head.
SpanAttached ==
    /\ Chained(span)
    /\ latest # NoHash /\ span[Len(span)] = latest
    /\ Tree[span[1]].prev \in Known
    /\ DescendsFromFinalized(blocks, Tree[span[1]].prev)
    /\ Len(span) > 1 => \A i \in 1 .. Len(span) : span[i] \notin Known

SpanOK == span \in Seq(Hash) /\ (span # <<>> => SpanAttached)

SyncInv ==
    /\ IInv
    /\ StoreMatches(blocks)
    /\ NoForgedHeader
    /\ FinalityOK
    /\ SessionOK
    /\ msg \in Seq(Message)
    /\ SpanOK

-----------------------------------------------------------------------------
(* Lists of linked headers.                                                *)

LEMMA HeightsAreNat ==
    /\ \A h \in Hash : HeightIn(h) \in Nat
    /\ \A h \in Hash \ {Genesis} : HeightIn(h) >= 1
    /\ \A h \in Hash \ {Genesis} : HeightIn(h) = Tree[h].height /\ Tree[h].height \in 1 .. MaxHeight
    /\ \A h \in Hash \ {Genesis} : Tree[h].prev \in Hash /\ Tree[h].difficulty \in Difficulties
BY TreeAssumption, MaxHeightAssumption DEF HeightIn

\* An attested block is on the quorum's line at its own height.
LEMMA AttestedOnLine ==
    ASSUME NEW line, QuorumLine(line), NEW h \in Attested
    PROVE  OnLine(line, h)
<1>1. PICK i \in 1 .. Len(line) : h = line[i]
  BY DEF QuorumLine
<1>2. line \in Seq(Hash) /\ Len(line) \in Nat /\ line[i] \in Hash
  BY DEF QuorumLine
<1>3. i # 1
  BY <1>1, AttestedAssumption DEF QuorumLine
<1>4. i \in 2 .. Len(line) /\ h # Genesis
  BY <1>2, <1>3, <1>1, AttestedAssumption
<1>5. Tree[h].height = i - 1
  BY <1>4, <1>1 DEF QuorumLine
<1>6. HeightIn(h) + 1 = i
  BY <1>5, <1>4, <1>2 DEF HeightIn
<1> QED
  BY <1>1, <1>6 DEF OnLine

\* A list of linked headers that ends in an attested block is a piece of the
\* quorum's line: a hash has one parent.
LEMMA LinkedToAttested ==
    ASSUME NEW line, QuorumLine(line), NEW hs \in Seq(Hash), hs # <<>>, Chained(hs),
           hs[Len(hs)] \in Attested
    PROVE  \A i \in 1 .. Len(hs) : OnLine(line, hs[i])
<1> DEFINE n == Len(hs)
           Off == {i \in 1 .. n : ~ OnLine(line, hs[i])}
<1>1. n \in Nat /\ n >= 1
  OBVIOUS
<1>2. Len(line) \in Nat
  BY DEF QuorumLine
<1> SUFFICES ASSUME Off # {} PROVE FALSE
  OBVIOUS
<1>3. PICK i \in Off : \A j \in Off : j <= i
  BY <1>1, HighestExists
<1>4. i # n
  BY AttestedOnLine
<1>5. i + 1 \in 1 .. n /\ i + 1 > 1 /\ (i + 1) - 1 = i /\ i \in 1 .. n
  BY <1>1, <1>4
<1>6. OnLine(line, hs[i + 1])
  BY <1>3, <1>5
<1>7. /\ Tree[hs[i + 1]].prev = hs[i] /\ hs[i] \in Hash \ {Genesis} /\ hs[i + 1] \in Hash \ {Genesis}
      /\ HeightIn(hs[i + 1]) = HeightIn(hs[1]) + (i + 1) - 1
      /\ HeightIn(hs[i]) = HeightIn(hs[1]) + i - 1
      /\ hs[1] \in Hash
  BY <1>1, <1>5 DEF Chained
<1>8. HeightIn(hs[1]) \in Nat /\ HeightIn(hs[i]) \in Nat /\ HeightIn(hs[i]) >= 1
      /\ HeightIn(hs[i + 1]) \in Nat
  BY <1>7, HeightsAreNat
<1>9. HeightIn(hs[i + 1]) = HeightIn(hs[i]) + 1
  BY <1>7, <1>8, <1>5
<1>10. /\ HeightIn(hs[i + 1]) + 1 \in 2 .. Len(line)
       /\ line[HeightIn(hs[i + 1]) + 1] = hs[i + 1]
       /\ (HeightIn(hs[i + 1]) + 1) - 1 = HeightIn(hs[i]) + 1
  BY <1>2, <1>6, <1>8, <1>9 DEF OnLine
<1>11. Tree[hs[i + 1]].prev = line[HeightIn(hs[i]) + 1]
  BY <1>10 DEF QuorumLine
<1>12. HeightIn(hs[i]) + 1 \in 1 .. Len(line)
  BY <1>2, <1>8, <1>9, <1>10
<1> QED
  BY <1>3, <1>7, <1>11, <1>12 DEF OnLine

\* A linked list grows at its end and shrinks at its front.
LEMMA ChainedAppend ==
    ASSUME NEW hs \in Seq(Hash), Chained(hs), NEW h \in Hash \ {Genesis},
           hs # <<>> => Tree[h].prev = hs[Len(hs)] /\ HeightIn(h) = HeightIn(hs[Len(hs)]) + 1
    PROVE  Append(hs, h) \in Seq(Hash) /\ Chained(Append(hs, h))
<1> DEFINE n == Len(hs)
           new == Append(hs, h)
<1>1. /\ new \in Seq(Hash) /\ n \in Nat /\ Len(new) = n + 1 /\ new[n + 1] = h
      /\ \A i \in 1 .. n : new[i] = hs[i]
  BY AppendProperties
<1> SUFFICES ASSUME NEW i \in 1 .. Len(new)
             PROVE  /\ new[i] \in Hash \ {Genesis}
                    /\ i > 1 => Tree[new[i]].prev = new[i - 1]
                    /\ HeightIn(new[i]) = HeightIn(new[1]) + i - 1
  BY <1>1 DEF Chained
<1> HIDE DEF new
<1>2. CASE i \in 1 .. n
  <2>1. 1 \in 1 .. n /\ (i > 1 => i - 1 \in 1 .. n)
    BY <1>1, <1>2
  <2> QED
    BY <1>1, <1>2, <2>1 DEF Chained
<1>3. CASE i = n + 1 /\ n = 0
  BY <1>1, <1>3, HeightsAreNat
<1>4. CASE i = n + 1 /\ n # 0
  <2>1. 1 \in 1 .. n /\ n \in 1 .. n /\ i - 1 = n /\ hs # <<>>
    BY <1>1, <1>4
  <2>2. HeightIn(hs[n]) = HeightIn(hs[1]) + n - 1 /\ hs[1] \in Hash /\ new[1] = hs[1] /\ new[n] = hs[n]
    BY <2>1, <1>1 DEF Chained
  <2>3. HeightIn(hs[1]) \in Nat
    BY <2>2, HeightsAreNat
  <2>4. HeightIn(h) = HeightIn(hs[n]) + 1 /\ Tree[h].prev = hs[n]
    BY <2>1
  <2>5. HeightIn(h) = HeightIn(hs[1]) + (n + 1) - 1
    BY <2>2, <2>3, <2>4, <1>1
  <2> QED
    BY <1>1, <1>4, <2>1, <2>2, <2>4, <2>5
<1> QED
  BY <1>1, <1>2, <1>3, <1>4

LEMMA ChainedTail ==
    ASSUME NEW hs \in Seq(Hash), Chained(hs), Len(hs) > 1
    PROVE  /\ Tail(hs) \in Seq(Hash) /\ Chained(Tail(hs)) /\ Tail(hs) # <<>>
           /\ Len(Tail(hs)) = Len(hs) - 1
           /\ \A i \in 1 .. Len(Tail(hs)) : Tail(hs)[i] = hs[i + 1] /\ hs[i + 1] # hs[1]
<1> DEFINE n == Len(hs)
           new == Tail(hs)
<1>1. /\ new \in Seq(Hash) /\ n \in Nat /\ Len(new) = n - 1
      /\ \A i \in 1 .. n - 1 : new[i] = hs[i + 1]
  OBVIOUS
<1> HIDE DEF new
<1>2. new # <<>>
  BY <1>1
<1> HIDE DEF n
<1>3. /\ \A i \in 1 .. n - 1 : i + 1 \in 1 .. n /\ i + 1 > 1 /\ (i + 1) - 1 = i
      /\ 1 \in 1 .. n - 1 /\ 2 \in 1 .. n /\ 1 \in 1 .. n
  BY <1>1 DEF n
<1>4. hs[1] \in Hash /\ HeightIn(hs[1]) \in Nat
  BY <1>3, HeightsAreNat DEF Chained, n
<1>5. ASSUME NEW i \in 1 .. n - 1
      PROVE  /\ new[i] \in Hash \ {Genesis}
             /\ i > 1 => Tree[new[i]].prev = new[i - 1]
             /\ HeightIn(new[i]) = HeightIn(new[1]) + i - 1
             /\ hs[i + 1] # hs[1]
  <2>1. /\ new[i] = hs[i + 1] /\ new[1] = hs[2] /\ i \in Nat
        /\ HeightIn(hs[i + 1]) = HeightIn(hs[1]) + (i + 1) - 1
        /\ HeightIn(hs[2]) = HeightIn(hs[1]) + 2 - 1
        /\ hs[i + 1] \in Hash \ {Genesis}
        /\ Tree[hs[i + 1]].prev = hs[i]
    BY <1>1, <1>3 DEF Chained, n
  <2>2. i > 1 => i - 1 \in 1 .. n - 1 /\ (i - 1) + 1 = i
    BY <1>1
  <2>3. i > 1 => new[i - 1] = hs[i]
    BY <1>1, <2>2
  <2>4. HeightIn(hs[i + 1]) = HeightIn(hs[2]) + i - 1 /\ HeightIn(hs[i + 1]) # HeightIn(hs[1])
    BY <1>4, <2>1
  <2> QED
    BY <2>1, <2>3, <2>4
<1> QED
  BY <1>1, <1>2, <1>5 DEF Chained, n, new

-----------------------------------------------------------------------------
(* The chain.                                                              *)

LEMMA GenesisKnown == IInv => Genesis \in Known
<1> SUFFICES ASSUME IInv PROVE Genesis \in Known
  OBVIOUS
<1>1. tip \in Known /\ blocks[tip] \in Entry
  BY DEF IInv, TypeOK, Known
<1>2. /\ Len(blocks[tip].line) = blocks[tip].height + 1 /\ blocks[tip].line[1] = Genesis
      /\ \A i \in 1 .. Len(blocks[tip].line) : blocks[tip].line[i] \in Known
  BY <1>1 DEF IInv, TreeOK, Known
<1>3. 1 \in 1 .. Len(blocks[tip].line)
  BY <1>1, <1>2 DEF Entry
<1> QED
  BY <1>2, <1>3

\* submit_header and the insertion of a span's header: one more block in the store,
\* below its parent.
LEMMA HeaderInserted ==
    ASSUME IInv, StoreMatches(blocks), NEW h \in Hash,
           InsertHeader(h, Tree[h].prev, Tree[h].height, Tree[h].difficulty)
    PROVE  /\ h \notin Known /\ h # Genesis /\ Tree[h].prev \in Known
           /\ Known' = Known \cup {h} /\ \A x \in Known : blocks'[x] = blocks[x]
           /\ blocks'[h].line = Append(blocks[Tree[h].prev].line, h)
           /\ blocks'[h].height = blocks[Tree[h].prev].height + 1
           /\ IInv' /\ StoreMatches(blocks') /\ finalized' = finalized
           /\ Next
<1>1. h \notin Known /\ Tree[h].prev \in Known /\ Tree[h].height = HeightOf(Tree[h].prev) + 1
      /\ blocks' = Linked(h, Tree[h].prev, Tree[h].difficulty) /\ finalized' = finalized
  BY DEF InsertHeader
<1>2. h # Genesis
  BY <1>1, GenesisKnown
<1>3. Tree[h].height \in 0 .. MaxHeight /\ Tree[h].difficulty \in Difficulties /\ HeightIn(h) = Tree[h].height
  BY <1>2, HeightsAreNat, MaxHeightAssumption
<1>4. IInv'
  BY <1>1, <1>3, InsertHeaderIInv
<1>5. Next
  BY <1>1, <1>3 DEF Next
<1>6. /\ Known' = Known \cup {h} /\ \A x \in Known : blocks'[x] = blocks[x]
      /\ blocks'[h] = [prev   |-> Tree[h].prev,
                       height |-> blocks[Tree[h].prev].height + 1,
                       work   |-> blocks[Tree[h].prev].work + Weight(Tree[h].difficulty),
                       line   |-> Append(blocks[Tree[h].prev].line, h)]
  BY <1>1 DEF Linked, Known
<1>7. StoreMatches(blocks')
  BY <1>1, <1>3, <1>6 DEF StoreMatches, HeightOf, Known
<1> QED
  BY <1>1, <1>2, <1>4, <1>5, <1>6, <1>7

\* Finality is marked on an attested block: the blocks stay.
LEMMA HeadAdvanced ==
    ASSUME IInv, StoreMatches(blocks), NEW cp \in Attested, SetFinalized(cp)
    PROVE  /\ blocks' = blocks /\ finalized' = cp
           /\ IInv' /\ StoreMatches(blocks') /\ Next
<1>1. cp \in Hash
  BY AttestedAssumption
<1>2. blocks' = blocks /\ finalized' = cp
  BY DEF SetFinalized, FinalizeAndReanchor
<1> QED
  BY <1>1, <1>2, SetFinalizedIInv DEF Next

\* Position i of the main chain holds a known block of height i - 1.
LEMMA MainChainBlock ==
    ASSUME IInv, NEW i \in 1 .. Len(mainChain)
    PROVE  /\ mainChain[i] \in Known /\ blocks[mainChain[i]].height = i - 1
           /\ blocks[mainChain[i]].line = SubSeq(mainChain, 1, i)
           /\ mainChain \in Seq(Hash)
<1>1. tip \in Known /\ blocks[tip] \in Entry /\ mainChain = blocks[tip].line
      /\ mainChain \in Seq(Hash) /\ Len(mainChain) \in Nat
  BY DEF IInv, TypeOK, Known, IndexIsTipBranch
<1>2. mainChain[i] \in Known /\ blocks[mainChain[i]].line = SubSeq(mainChain, 1, i)
  BY <1>1 DEF IInv, TreeOK, Known
<1>3. Len(SubSeq(mainChain, 1, i)) = i
  BY <1>1, SubSeqProperties
<1>4. Len(blocks[mainChain[i]].line) = blocks[mainChain[i]].height + 1 /\ blocks[mainChain[i]] \in Entry
  BY <1>2 DEF IInv, TreeOK, TypeOK, Known
<1>5. blocks[mainChain[i]].height \in Nat
  BY <1>4 DEF Entry
<1> QED
  BY <1>1, <1>2, <1>3, <1>4, <1>5

\* What is on the main chain at or above the finalized head descends from it.
LEMMA AboveHead ==
    ASSUME IInv, NEW i \in 1 .. Len(mainChain),
           finalized # NoHash => blocks[finalized].height < i
    PROVE  mainChain[i] \in Known /\ blocks[mainChain[i]].height = i - 1
           /\ DescendsFromFinalized(blocks, mainChain[i])
<1>1. mainChain \in Seq(Hash) /\ Len(mainChain) \in Nat /\ mainChain = blocks[tip].line
  BY DEF IInv, TypeOK, IndexIsTipBranch
<1>2. mainChain[i] \in Known /\ blocks[mainChain[i]].line = SubSeq(mainChain, 1, i)
  BY MainChainBlock
<1>4. Len(SubSeq(mainChain, 1, i)) = i /\ \A k \in 1 .. i : SubSeq(mainChain, 1, i)[k] = mainChain[k]
  BY <1>1, SubSeqProperties
<1>6. blocks[mainChain[i]].height = i - 1
  BY MainChainBlock
<1>7. ASSUME finalized # NoHash
      PROVE  IsDescendantOf(blocks, mainChain[i], finalized, blocks[finalized].height)
  <2>1. finalized \in Known /\ blocks[finalized].height \in Nat
    BY <1>7 DEF IInv, TypeOK, Known, Entry
  <2>2. mainChain[blocks[finalized].height + 1] = finalized
    BY <1>7, <1>1 DEF IInv, TipDescendsFromFinalized, DescendsFromFinalized, IsDescendantOf, AncestorAt
  <2>3. blocks[finalized].height + 1 \in 1 .. i /\ blocks[finalized].height <= i - 1
    BY <1>7, <2>1, <1>1
  <2> QED
    BY <1>2, <1>4, <1>6, <2>2, <2>3 DEF IsDescendantOf, AncestorAt, Known
<1> QED
  BY <1>2, <1>6, <1>7 DEF DescendsFromFinalized

\* The checks of ingest_finalized_headers: a linked list that passes them attaches
\* at or above the finalized head.
LEMMA SpanAttaches ==
    ASSUME NEW line, QuorumLine(line), IInv, StoreMatches(blocks), FinalityOK,
           NEW hs \in Seq(Hash), hs # <<>>, Chained(hs), Admissible(hs)
    PROVE  /\ latest # NoHash /\ hs[Len(hs)] = latest
           /\ Tree[hs[1]].prev \in Known
           /\ DescendsFromFinalized(blocks, Tree[hs[1]].prev)
           /\ \A i \in 1 .. Len(hs) : hs[i] \notin Known
<1> DEFINE n == Len(hs)
<1>1. n \in Nat /\ n >= 1 /\ DOMAIN hs = 1 .. n /\ 1 \in 1 .. n /\ n \in 1 .. n
  OBVIOUS
<1>2. latest # NoHash /\ hs[n] = latest /\ \A i \in 1 .. n : hs[i] \notin Known
  BY <1>1 DEF Admissible, LandsOn, Last
<1>3. mainChain \in Seq(Hash) /\ Len(mainChain) \in Nat
  BY DEF IInv, TypeOK
<1>4. PICK p \in 1 .. Len(mainChain) : mainChain[p] = Tree[hs[1]].prev
  BY <1>3 DEF Admissible
<1>5. latest \in Attested
  BY <1>2 DEF FinalityOK
<1>6. \A i \in 1 .. n : OnLine(line, hs[i])
  BY <1>2, <1>5, LinkedToAttested
<1>7. ASSUME finalized # NoHash PROVE blocks[finalized].height < p
  <2>1. finalized \in Attested /\ HeightIn(finalized) <= HeightIn(latest)
    BY <1>7 DEF FinalityOK
  <2>2. finalized \in Known /\ blocks[finalized].height = HeightIn(finalized)
    BY <1>7 DEF IInv, TypeOK, Known, StoreMatches
  <2>3. OnLine(line, finalized)
    BY <2>1, AttestedOnLine
  <2>4. hs[1] \in Hash \ {Genesis} /\ HeightIn(hs[n]) = HeightIn(hs[1]) + n - 1
    BY <1>1 DEF Chained
  <2>5. /\ HeightIn(hs[1]) \in Nat /\ HeightIn(finalized) \in Nat
        /\ finalized \in Hash
    BY <2>1, <2>4, HeightsAreNat, AttestedAssumption
  <2> SUFFICES ASSUME p <= HeightIn(finalized) PROVE FALSE
    BY <2>2, <2>5
  <2>6. CASE HeightIn(hs[1]) <= HeightIn(finalized)
    <3> DEFINE j == HeightIn(finalized) - HeightIn(hs[1]) + 1
    <3>1. HeightIn(finalized) <= HeightIn(hs[1]) + n - 1
      BY <2>1, <2>4, <1>2
    <3>2. j \in 1 .. n /\ HeightIn(hs[1]) + j - 1 = HeightIn(finalized)
      BY <2>5, <2>6, <3>1, <1>1
    <3>3. HeightIn(hs[j]) = HeightIn(finalized)
      BY <3>2 DEF Chained
    <3>4. hs[j] = finalized
      BY <3>2, <3>3, <1>6, <2>3 DEF OnLine
    <3> QED
      BY <3>2, <3>4, <2>2, <1>2
  <2>7. CASE HeightIn(finalized) < HeightIn(hs[1])
    <3>1. OnLine(line, hs[1]) /\ HeightIn(hs[1]) >= 1
      BY <1>1, <1>6, <2>4, HeightsAreNat
    <3>2. line \in Seq(Hash) /\ Len(line) \in Nat
      BY DEF QuorumLine
    <3>3. /\ HeightIn(hs[1]) + 1 \in 2 .. Len(line) /\ (HeightIn(hs[1]) + 1) - 1 = HeightIn(hs[1])
          /\ line[HeightIn(hs[1]) + 1] = hs[1]
      BY <3>1, <3>2, <2>5 DEF OnLine
    <3>4. Tree[hs[1]].prev = line[HeightIn(hs[1])]
      BY <3>3 DEF QuorumLine
    <3> DEFINE a == line[HeightIn(hs[1])]
    <3>5. a \in Hash /\ HeightIn(a) = HeightIn(hs[1]) - 1
      <4>1. HeightIn(hs[1]) \in 1 .. Len(line)
        BY <3>1, <3>2, <3>3, <2>5
      <4>2. a \in Hash
        BY <4>1, <3>2
      <4>3. CASE HeightIn(hs[1]) = 1
        BY <4>2, <4>3 DEF QuorumLine, HeightIn
      <4>4. CASE HeightIn(hs[1]) # 1
        <5>1. HeightIn(hs[1]) \in 2 .. Len(line)
          BY <4>1, <4>4, <3>2
        <5>2. Tree[a].height = HeightIn(hs[1]) - 1 /\ a # Genesis
          BY <5>1 DEF QuorumLine
        <5> QED
          BY <4>2, <5>2 DEF HeightIn
      <4> QED
        BY <4>3, <4>4
    <3>6. mainChain[p] = a
      BY <1>4, <3>4
    <3>7. mainChain[p] \in Known /\ blocks[mainChain[p]].height = p - 1
      BY MainChainBlock
    <3>8. HeightIn(a) = p - 1
      BY <3>6, <3>7 DEF StoreMatches, Known
    <3> QED
      BY <3>5, <3>8, <2>5, <2>7, <1>3
  <2> QED
    BY <2>5, <2>6, <2>7
<1>8. mainChain[p] \in Known /\ DescendsFromFinalized(blocks, mainChain[p])
  BY <1>7, AboveHead
<1> QED
  BY <1>2, <1>4, <1>8

-----------------------------------------------------------------------------
(* The steps.                                                              *)

\* The parts of the invariant about the chain and its finality.
ChainPart == IInv /\ StoreMatches(blocks) /\ NoForgedHeader /\ FinalityOK

LEMMA ChainPartKept ==
    ASSUME ChainPart, UNCHANGED chainVars, UNCHANGED latest
    PROVE  ChainPart'
BY DEF ChainPart, chainVars, IInv, TypeOK, TreeOK, Entry, IndexIsTipBranch,
       TipDescendsFromFinalized, DescendsFromFinalized, IsDescendantOf, AncestorAt,
       StoreMatches, NoForgedHeader, FinalityOK, Known, HeightIn

\* A header that is valid, or stands on the quorum's line, enters the chain.
LEMMA ChainPartInsert ==
    ASSUME ChainPart, NEW h \in Hash, Tree[h].valid, UNCHANGED latest,
           InsertHeader(h, Tree[h].prev, Tree[h].height, Tree[h].difficulty)
    PROVE  ChainPart'
<1>1. /\ Known' = Known \cup {h} /\ finalized' = finalized /\ IInv' /\ StoreMatches(blocks')
  BY HeaderInserted DEF ChainPart
<1>2. NoForgedHeader'
  BY <1>1 DEF ChainPart, NoForgedHeader, Known
<1>3. FinalityOK'
  BY <1>1 DEF ChainPart, FinalityOK, HeightIn
<1> QED
  BY <1>1, <1>2, <1>3 DEF ChainPart, StoreMatches, HeightIn

\* The tracker moves to an attested checkpoint, and fork choice with it if it can.
LEMMA ChainPartFinality ==
    ASSUME ChainPart, NEW cp \in Attested, Advances(cp), latest' = cp, AdvanceChainHead(cp)
    PROVE  ChainPart' /\ [Next]_chainVars
<1>1. cp \in Hash /\ cp # NoHash /\ HeightIn(cp) \in Nat
  BY AttestedAssumption, NoHashAssumption, HeightsAreNat
<1>2. latest # NoHash => HeightIn(latest) < HeightIn(cp) /\ HeightIn(latest) \in Nat
  BY AttestedAssumption, HeightsAreNat DEF Advances, ChainPart, FinalityOK
<1>3. finalized # NoHash => finalized \in Attested /\ HeightIn(finalized) \in Nat
  BY AttestedAssumption, HeightsAreNat DEF ChainPart, FinalityOK
<1>4. CASE CanFinalize(cp)
  <2>1. SetFinalized(cp)
    BY <1>4 DEF AdvanceChainHead
  <2>2. blocks' = blocks /\ finalized' = cp /\ IInv' /\ StoreMatches(blocks') /\ Next
    BY <2>1, HeadAdvanced DEF ChainPart
  <2>3. FinalityOK'
    BY <1>1, <2>2 DEF FinalityOK, HeightIn
  <2> QED
    BY <2>2, <2>3 DEF ChainPart, NoForgedHeader, Known, StoreMatches, HeightIn
<1>5. CASE ~ CanFinalize(cp)
  <2>1. UNCHANGED chainVars
    BY <1>5 DEF AdvanceChainHead
  <2>2. finalized # NoHash => HeightIn(finalized) <= HeightIn(cp)
    BY <1>1, <1>2, <1>3 DEF ChainPart, FinalityOK
  <2>3. FinalityOK'
    BY <1>1, <1>3, <2>1, <2>2 DEF FinalityOK, chainVars, HeightIn
  <2> QED
    BY <2>1, <2>3 DEF ChainPart, chainVars, IInv, TypeOK, TreeOK, Entry, IndexIsTipBranch,
       TipDescendsFromFinalized, DescendsFromFinalized, IsDescendantOf, AncestorAt,
       StoreMatches, NoForgedHeader, Known, HeightIn
<1> QED
  BY <1>4, <1>5

\* What is left of a message is a message.
LEMMA MessageRemains ==
    ASSUME NEW m \in Message
    PROVE  /\ <<m>> \in Seq(Message) /\ Stopped(m) \in Seq(Message)
           /\ m.rest # <<>> => Head(m.rest) \in Hash /\ \A c : Done(m, c) \in Seq(Message)
<1>1. <<m>> \in Seq(Message) /\ <<>> \in Seq(Message)
  OBVIOUS
<1>2. Stopped(m) \in Seq(Message)
  <2> DEFINE none == <<>>
  <2>1. none \in Seq(Hash)
    OBVIOUS
  <2>2. [m EXCEPT !.rest = none] \in Message
    <3> HIDE DEF none
    <3> QED BY <2>1 DEF Message
  <2> QED
    BY <1>1, <2>2 DEF Stopped, InHand
<1>3. ASSUME m.rest # <<>>, NEW c PROVE Head(m.rest) \in Hash /\ Done(m, c) \in Seq(Message)
  <2>1. m.rest \in Seq(Hash)
    BY DEF Message
  <2>2. Head(m.rest) \in Hash /\ Tail(m.rest) \in Seq(Hash)
    BY <2>1, <1>3
  <2> DEFINE r == [m EXCEPT !.rest = Tail(@), !.accepted = @ \/ "accepted" \in c,
                            !.buffered = @ \/ "buffered" \in c,
                            !.dropped = @ \/ "dropped" \in c]
  <2>3. (m.accepted \/ "accepted" \in c) \in BOOLEAN /\ (m.buffered \/ "buffered" \in c) \in BOOLEAN
        /\ (m.dropped \/ "dropped" \in c) \in BOOLEAN
    OBVIOUS
  <2>4. r \in Message
    BY <2>2, <2>3 DEF Message
  <2> HIDE DEF r
  <2>5. InHand(r) \in Seq(Message)
    BY <2>4 DEF InHand
  <2> QED
    BY <2>2, <2>5 DEF r, Done
<1> QED
  BY <1>1, <1>2, <1>3

\* The invariant without the span, for the steps that end without one.
LEMMA NoSpan ==
    ASSUME ChainPart', SessionOK', (msg \in Seq(Message))', span' = <<>>
    PROVE  SyncInv'
<1>1. SpanOK'
  BY DEF SpanOK
<1> QED
  BY <1>1 DEF SyncInv, ChainPart

LEMMA SessionKept == SessionOK /\ session' = session => SessionOK'
<1>1. SessionOK = SessionFits(session)
  BY DEF SessionOK, SessionFits
<1>2. SessionOK' = SessionFits(session')
  BY DEF SessionOK, SessionFits, Chained
<1> QED
  BY <1>1, <1>2

\* The outcomes of submit_header.
LEMMA OrdinaryStep ==
    ASSUME SyncInv, span = <<>>, NEW m \in Message, m.rest # <<>>, NEW left,
           Ordinary(m, Head(m.rest), left)
    PROVE  SyncInv' /\ [Next]_chainVars
<1> DEFINE h == Head(m.rest)
<1>1. /\ h \in Hash /\ \A c : Done(m, c) \in Seq(Message)
      /\ Stopped(m) \in Seq(Message)
  BY MessageRemains
<1> HIDE DEF h
<1>2. Ordinary(m, h, left)
  BY DEF h
<1>3. ChainPart /\ SessionOK
  BY DEF SyncInv, ChainPart
<1>4. /\ latest' = latest /\ session' = session /\ span' = <<>>
      /\ msg' \in Seq(Message)
      /\ \/ UNCHANGED chainVars
         \/ Tree[h].valid /\ InsertHeader(h, Tree[h].prev, Tree[h].height, Tree[h].difficulty)
  BY <1>1, <1>2 DEF Ordinary
<1>5. CASE UNCHANGED chainVars
  BY <1>3, <1>4, <1>5, ChainPartKept, SessionKept, NoSpan
<1>6. CASE Tree[h].valid /\ InsertHeader(h, Tree[h].prev, Tree[h].height, Tree[h].difficulty)
  <2>1. ChainPart'
    BY <1>1, <1>3, <1>4, <1>6, ChainPartInsert
  <2>2. Next
    BY <1>1, <1>3, <1>6, HeaderInserted DEF ChainPart
  <2> QED
    BY <1>3, <1>4, <2>1, <2>2, SessionKept, NoSpan
<1> QED
  BY <1>4, <1>5, <1>6

\* The header that links to the frontier makes the buffer one longer.
LEMMA BufferGrows ==
    ASSUME NEW s \in Sessions, Chained(s.headers), NEW h \in Hash, LinksTo(h, s)
    PROVE  Append(s.headers, h) \in Seq(Hash) /\ Chained(Append(s.headers, h))
<1>1. s.headers \in Seq(Hash) /\ s.base \in Hash
  BY DEF Sessions
<1>2. s.headers # <<>> => Frontier(s) = s.headers[Len(s.headers)] /\ Frontier(s) \in Hash
  BY <1>1 DEF Frontier, Last
<1>3. Frontier(s) \in Hash
  BY <1>1, <1>2 DEF Frontier
<1>4. HeightIn(Frontier(s)) \in Nat /\ HeightIn(h) = HeightIn(Frontier(s)) + 1
      /\ Tree[h].prev = Frontier(s)
  BY <1>3, HeightsAreNat DEF LinksTo
<1>5. h # Genesis
  BY <1>4 DEF HeightIn
<1> QED
  BY <1>1, <1>2, <1>4, <1>5, ChainedAppend

\* ingest_checkpoint_sync_header.
LEMMA CollectStep ==
    ASSUME NEW line, QuorumLine(line), SyncInv, span = <<>>, NEW m \in Message,
           m.rest # <<>>, session # <<>>, NEW left,
           Collect(m, session[1], Head(m.rest), left)
    PROVE  SyncInv' /\ [Next]_chainVars
<1> DEFINE h == Head(m.rest)
           s == session[1]
<1>1. /\ h \in Hash /\ \A c : Done(m, c) \in Seq(Message)
      /\ Stopped(m) \in Seq(Message) /\ <<m>> \in Seq(Message)
      /\ m.peer \in Peers
  BY MessageRemains DEF Message
<1>2. s \in Sessions /\ Chained(s.headers)
  BY DEF SyncInv, SessionOK
<1> HIDE DEF h, s
<1>3. Collect(m, s, h, left)
  BY DEF h, s
<1>4. ChainPart /\ SessionOK
  BY DEF SyncInv, ChainPart
<1>5. UNCHANGED chainVars /\ latest' = latest
  BY <1>3 DEF Collect
<1>6. ChainPart'
  BY <1>4, <1>5, ChainPartKept
<1> DEFINE hs == Append(s.headers, h)
<1>7. CASE session' = session /\ span' = span /\ msg' = Done(m, {"dropped"})
  BY <1>1, <1>4, <1>5, <1>6, <1>7, SessionKept, NoSpan
<1>8. CASE /\ LinksTo(h, s)
           /\ \/ /\ session' = <<[s EXCEPT !.headers = hs, !.peer = m.peer]>>
                 /\ msg' = Done(m, {"accepted", "buffered"}) /\ span' = span
              \/ /\ Admissible(hs) /\ session' = <<>> /\ span' = hs
                 /\ msg' = Done(m, {"accepted", "buffered"})
              \/ session' = <<>> /\ span' = span /\ msg' \in {Stopped(m), <<m>>}
  <2>1. hs \in Seq(Hash) /\ Chained(hs)
    BY <1>1, <1>2, <1>8, BufferGrows
  <2>2. hs # <<>>
    <3>1. s.headers \in Seq(Hash)
      BY <1>2 DEF Sessions
    <3>2. Len(hs) = Len(s.headers) + 1 /\ Len(s.headers) \in Nat
      BY <3>1, AppendProperties, <1>1
    <3> HIDE DEF hs
    <3> QED BY <3>2
  <2>3. CASE /\ session' = <<[s EXCEPT !.headers = hs, !.peer = m.peer]>>
             /\ msg' = Done(m, {"accepted", "buffered"}) /\ span' = span
    <3> HIDE DEF hs
    <3>1. [s EXCEPT !.headers = hs, !.peer = m.peer] \in Sessions
          /\ [s EXCEPT !.headers = hs, !.peer = m.peer].headers = hs
      BY <1>1, <1>2, <2>1 DEF Sessions
    <3> DEFINE t == [s EXCEPT !.headers = hs, !.peer = m.peer]
    <3> HIDE DEF t
    <3>2. session' = <<t>> /\ t \in Sessions /\ t.headers = hs
      BY <2>3, <3>1 DEF t
    <3>3. session' \in Seq(Sessions) /\ Len(session') = 1 /\ session'[1] = t
      BY <3>2
    <3>4. \A i \in 1 .. Len(session') : Chained(session'[i].headers)
      BY <2>1, <3>2, <3>3
    <3>5. SessionOK'
      BY <3>3, <3>4 DEF SessionOK, Chained, HeightIn, Sessions
    <3> QED
      BY <1>1, <1>5, <1>6, <2>3, <3>5, NoSpan
  <2>4. CASE /\ Admissible(hs) /\ session' = <<>> /\ span' = hs
             /\ msg' = Done(m, {"accepted", "buffered"})
    <3>1. SessionOK'
      BY <2>4 DEF SessionOK
    <3>2. /\ latest # NoHash /\ hs[Len(hs)] = latest
          /\ Tree[hs[1]].prev \in Known
          /\ DescendsFromFinalized(blocks, Tree[hs[1]].prev)
          /\ \A i \in 1 .. Len(hs) : hs[i] \notin Known
      BY <1>4, <2>1, <2>2, <2>4, SpanAttaches DEF ChainPart
    <3> HIDE DEF hs
    <3>3. SpanOK'
      BY <1>5, <2>1, <2>4, <3>2 DEF SpanOK, SpanAttached, Chained, chainVars, Known, HeightIn,
             DescendsFromFinalized, IsDescendantOf, AncestorAt
    <3> QED
      BY <1>1, <1>5, <1>6, <2>4, <3>1, <3>3 DEF SyncInv, ChainPart
  <2>5. CASE session' = <<>> /\ span' = span /\ msg' \in {Stopped(m), <<m>>}
    <3>1. SessionOK'
      BY <2>5 DEF SessionOK
    <3> QED
      BY <1>1, <1>5, <1>6, <2>5, <3>1, NoSpan
  <2> QED
    BY <1>8, <2>3, <2>4, <2>5
<1> QED
  BY <1>3, <1>7, <1>8 DEF Collect, Fallback

\* Steps that leave the chain, the session, the message and the span alone.
LEMMA StepAside ==
    ASSUME SyncInv, span = <<>>, UNCHANGED <<chainVars, latest, session, msg, span>>
    PROVE  SyncInv' /\ [Next]_chainVars
<1>1. ChainPart' /\ SessionOK'
  BY ChainPartKept, SessionKept DEF SyncInv, ChainPart
<1> QED
  BY <1>1, NoSpan DEF SyncInv

\* on_checkpoint: the eager answer moves finality and may arm a session.
LEMMA OnCheckpointStep ==
    ASSUME SyncInv, NEW p \in Peers, NEW cp \in Attested, OnCheckpoint(p, cp)
    PROVE  SyncInv' /\ [Next]_chainVars
<1>1. ChainPart /\ SessionOK /\ span = <<>> /\ span' = <<>> /\ msg' = msg /\ msg \in Seq(Message)
  BY DEF OnCheckpoint, Idle, SyncInv, ChainPart
<1>2. ChainPart' /\ [Next]_chainVars
  <2>1. CASE Advances(cp)
    BY <1>1, <2>1, ChainPartFinality DEF OnCheckpoint
  <2>2. CASE ~ Advances(cp)
    BY <1>1, <2>2, ChainPartKept DEF OnCheckpoint
  <2> QED
    BY <2>1, <2>2
<1>3. tip' \in Hash /\ cp \in Hash
  BY <1>2, AttestedAssumption DEF ChainPart, IInv, TypeOK
<1>4. session' \in {session, <<>>,
                    <<[cp |-> cp, base |-> tip', headers |-> <<>>, peer |-> p, stalled |-> 0]>>}
  BY DEF OnCheckpoint, Begun
<1>5. SessionOK'
  <2>1. CASE session' = session
    BY <1>1, <2>1, SessionKept
  <2>2. CASE session' = <<>>
    BY <2>2 DEF SessionOK
  <2>3. CASE session' = <<[cp |-> cp, base |-> tip', headers |-> <<>>, peer |-> p, stalled |-> 0]>>
    <3> DEFINE s == [cp |-> cp, base |-> tip', headers |-> <<>>, peer |-> p, stalled |-> 0]
    <3>1. s \in Sessions
      BY <1>3 DEF Sessions
    <3>2. s.headers = <<>>
      OBVIOUS
    <3> HIDE DEF s
    <3>3. session' = <<s>>
      BY <2>3 DEF s
    <3>4. session' \in Seq(Sessions) /\ Len(session') = 1 /\ session'[1] = s
      BY <3>1, <3>3
    <3>5. \A i \in 1 .. Len(session') : session'[i].headers = <<>>
      BY <3>2, <3>4
    <3> QED
      BY <3>4, <3>5 DEF SessionOK, Chained, Sessions, HeightIn
  <2> QED
    BY <1>4, <2>1, <2>2, <2>3
<1> QED
  BY <1>1, <1>2, <1>5, NoSpan

\* Votes inside the tally window.
LEMMA OnVotesStep ==
    ASSUME SyncInv, NEW cp \in Attested, OnVotes(cp)
    PROVE  SyncInv' /\ [Next]_chainVars
<1>1. ChainPart /\ SessionOK /\ span' = <<>> /\ msg' = msg /\ msg \in Seq(Message) /\ session' = session
  BY DEF OnVotes, Idle, SyncInv, ChainPart, syncVars
<1>2. ChainPart' /\ [Next]_chainVars
  BY <1>1, ChainPartFinality DEF OnVotes
<1> QED
  BY <1>1, <1>2, SessionKept, NoSpan

\* One header of a message, whichever path it takes.
LEMMA HandleStep ==
    ASSUME NEW line, QuorumLine(line), SyncInv, span = <<>>, NEW m \in Message,
           m.rest # <<>>, NEW left, Handle(m, left)
    PROVE  SyncInv' /\ [Next]_chainVars
<1>1. CASE ForBuffer(m, Head(m.rest))
  BY <1>1, CollectStep DEF Handle, ForBuffer
<1>2. CASE ~ ForBuffer(m, Head(m.rest))
  BY <1>2, OrdinaryStep DEF Handle
<1> QED
  BY <1>1, <1>2

LEMMA DeliverStep ==
    ASSUME NEW line, QuorumLine(line), SyncInv, NEW kind \in {"headers", "header", "block"},
           NEW p \in Peers, NEW hs \in Seq(Hash), NEW left, Deliver(kind, p, hs, left)
    PROVE  span = <<>> /\ SyncInv' /\ [Next]_chainVars
<1> DEFINE m == [kind |-> kind, peer |-> p, rest |-> hs, full |-> Len(hs) = BatchMax,
                 accepted |-> FALSE, buffered |-> FALSE, dropped |-> FALSE]
<1>1. span = <<>>
  BY DEF Deliver, Idle
<1>2. m \in Message /\ m.rest = hs
  <2>1. (Len(hs) = BatchMax) \in BOOLEAN
    OBVIOUS
  <2> QED
    BY <2>1 DEF Message
<1>3. CASE hs # <<>>
  <2>1. Handle(m, left)
    BY <1>3 DEF Deliver
  <2> QED
    BY <1>1, <1>2, <1>3, <2>1, HandleStep
<1>4. CASE hs = <<>>
  <2> HIDE DEF m
  <2>1. msg' = <<m>> /\ UNCHANGED chainVars /\ latest' = latest /\ session' = session /\ span' = span
    BY <1>4 DEF Deliver, m
  <2>2. msg' \in Seq(Message)
    BY <1>2, <2>1
  <2>3. ChainPart' /\ SessionOK'
    BY <2>1, ChainPartKept, SessionKept DEF SyncInv, ChainPart
  <2> QED
    BY <1>1, <2>1, <2>2, <2>3, NoSpan
<1> QED
  BY <1>1, <1>3, <1>4

\* An honest answer is a piece of the peer's chain.
LEMMA AnswerIsHeaders ==
    ASSUME NEW p \in Honest, NEW from \in 0 .. MaxHeight
    PROVE  Answer(p, from) \in Seq(Hash)
<1> DEFINE l == Len(Serves[p])
           S == {from + 1 + BatchMax, l}
<1>1. Serves[p] \in Seq(Hash) /\ l \in Nat /\ from \in Nat /\ BatchMax \in Nat
  BY PeerAssumption, SyncLimitAssumption, MaxHeightAssumption DEF Honest
<1>2. \E x \in S : \A y \in S : x <= y
  BY <1>1
<1>3. Min(S) \in S /\ \A y \in S : Min(S) <= y
  BY <1>2 DEF Min
<1>4. Min(S) \in Nat /\ Min(S) <= l
  BY <1>1, <1>3
<1> HIDE DEF l
<1> DEFINE z == Min(S)
<1> HIDE DEF z
<1>5. z \in Nat /\ z <= l /\ l = Len(Serves[p])
  BY <1>4 DEF z, l
<1>6. \A i \in from + 2 .. z : i \in 1 .. l
  BY <1>1, <1>5
<1>7. SubSeq(Serves[p], from + 2, z) \in Seq(Hash)
  BY <1>1, <1>5, <1>6, SubSeqProperties DEF l
<1> QED
  BY <1>7 DEF Answer, z, l

\* A child of a block at or above the finalized head is above it.
LEMMA ChildDescends ==
    ASSUME IInv, NEW up \in Known, DescendsFromFinalized(blocks, up),
           NEW store, NEW h \in DOMAIN store,
           store[h].line = Append(blocks[up].line, h), store[h].height = blocks[up].height + 1,
           finalized # NoHash => store[finalized] = blocks[finalized]
    PROVE  /\ DescendsFromFinalized(store, h)
           /\ store[h].height > FinalizedHeight
<1>1. /\ blocks[up].line \in Seq(Hash) /\ blocks[up].height \in Nat
      /\ Len(blocks[up].line) = blocks[up].height + 1
  BY DEF IInv, TypeOK, TreeOK, Known, Entry
<1>2. CASE finalized = NoHash
  BY <1>1, <1>2 DEF DescendsFromFinalized, FinalizedHeight
<1>3. CASE finalized # NoHash
  <2>1. blocks[finalized].height \in Nat
    BY <1>3 DEF IInv, TypeOK, Known, Entry
  <2>2. blocks[finalized].height <= blocks[up].height
        /\ blocks[up].line[blocks[finalized].height + 1] = finalized
    BY <1>3 DEF DescendsFromFinalized, IsDescendantOf, AncestorAt
  <2>3. blocks[finalized].height + 1 \in 1 .. Len(blocks[up].line)
    BY <1>1, <2>1, <2>2
  <2>4. store[h].line[blocks[finalized].height + 1] = finalized
    BY <1>1, <2>2, <2>3, AppendProperties
  <2>5. store[h].height > blocks[finalized].height
    BY <1>1, <2>1, <2>2
  <2> QED
    BY <1>3, <2>1, <2>2, <2>4, <2>5, <1>1
       DEF DescendsFromFinalized, IsDescendantOf, AncestorAt, FinalizedHeight, HeightOf
<1> QED
  BY <1>2, <1>3

\* What the rest of a span has to be once the head of it is in.
LEMMA SpanGoesOn ==
    ASSUME NEW new \in Seq(Hash), span' = new, Chained(new), latest # NoHash, latest' = latest,
           new[Len(new)] = latest, finalized' = finalized, Tree[new[1]].prev \in Known',
           DescendsFromFinalized(blocks', Tree[new[1]].prev),
           Len(new) > 1 => \A i \in 1 .. Len(new) : new[i] \notin Known'
    PROVE  SpanOK'
<1>1. Chained(span)'
  BY DEF Chained, HeightIn
<1>2. DescendsFromFinalized(blocks, Tree[span[1]].prev)'
  BY DEF DescendsFromFinalized, IsDescendantOf, AncestorAt
<1> QED
  BY <1>1, <1>2 DEF SpanOK, SpanAttached

\* ingest_finalized_headers inserts the next header; it cannot fail.
LEMMA AdmitStep ==
    ASSUME NEW line, QuorumLine(line), SyncInv, AdmitHeader
    PROVE  SyncInv' /\ [Next]_chainVars /\ span' # <<>>
<1> DEFINE h == span[1]
           n == Len(span)
<1>1. /\ span \in Seq(Hash) /\ span # <<>> /\ SpanAttached
      /\ ChainPart /\ SessionOK
  BY DEF SyncInv, SpanOK, AdmitHeader, ChainPart
<1>2. n \in Nat /\ n >= 1 /\ 1 \in 1 .. n /\ Head(span) = h
  BY <1>1
<1>3. h \in Hash \ {Genesis} /\ Tree[h].prev \in Known /\ h \notin Known
  BY <1>1, <1>2 DEF SpanAttached, Chained, AdmitHeader
<1>4. /\ InsertHeader(h, Tree[h].prev, Tree[h].height, Tree[h].difficulty)
      /\ span' = (IF n > 1 THEN Tail(span) ELSE span)
      /\ latest' = latest /\ session' = session /\ msg' = msg
  BY <1>2, <1>3 DEF AdmitHeader
<1>5. Tree[h].valid
  <2>1. OnLine(line, h) /\ HeightIn(h) \in Nat /\ HeightIn(h) >= 1
    <3>1. span[n] \in Attested
      BY <1>1 DEF SpanAttached, ChainPart, FinalityOK
    <3> QED
      BY <1>1, <1>2, <1>3, <3>1, LinkedToAttested, HeightsAreNat DEF SpanAttached
  <2>2. HeightIn(h) + 1 \in 2 .. Len(line) /\ line[HeightIn(h) + 1] = h
    <3>1. Len(line) \in Nat
      BY DEF QuorumLine
    <3> QED
      BY <2>1, <3>1 DEF OnLine
  <2> QED
    BY <2>2 DEF QuorumLine
<1>6. ChainPart'
  BY <1>1, <1>3, <1>4, <1>5, ChainPartInsert
<1>7. /\ Known' = Known \cup {h} /\ \A x \in Known : blocks'[x] = blocks[x]
      /\ blocks'[h].line = Append(blocks[Tree[h].prev].line, h)
      /\ blocks'[h].height = blocks[Tree[h].prev].height + 1
      /\ finalized' = finalized /\ Next
  BY <1>1, <1>3, <1>4, HeaderInserted DEF ChainPart
<1>8. SessionOK' /\ msg' \in Seq(Message)
  BY <1>1, <1>4, SessionKept DEF SyncInv
<1>9. finalized # NoHash => finalized \in Known
  BY <1>1 DEF ChainPart, IInv, TypeOK, Known
<1>10. DescendsFromFinalized(blocks, Tree[h].prev)
  BY <1>1 DEF SpanAttached
<1>11. CASE n > 1
  <2>1. /\ Tail(span) \in Seq(Hash) /\ Chained(Tail(span)) /\ Tail(span) # <<>>
        /\ Len(Tail(span)) = n - 1
        /\ \A i \in 1 .. n - 1 : Tail(span)[i] = span[i + 1] /\ span[i + 1] # h
    BY <1>1, <1>11, ChainedTail DEF SpanAttached
  <2> DEFINE new == Tail(span)
  <2> HIDE DEF new, h, n
  <2>2. /\ new \in Seq(Hash) /\ Chained(new) /\ new # <<>> /\ Len(new) = n - 1 /\ span' = new
        /\ \A i \in 1 .. n - 1 : new[i] = span[i + 1] /\ span[i + 1] # h
    BY <2>1, <1>4, <1>11 DEF new, h, n
  <2>3. /\ 1 \in 1 .. n - 1 /\ n - 1 \in 1 .. n - 1 /\ (n - 1) + 1 = n /\ 1 + 1 = 2 /\ 2 \in 1 .. n
        /\ \A i \in 1 .. n - 1 : i + 1 \in 1 .. n
    BY <1>2, <1>11
  <2>4. new[Len(new)] = latest
    BY <1>1, <2>2, <2>3 DEF SpanAttached, n
  <2>5. Tree[new[1]].prev = h
    <3>1. new[1] = span[2]
      BY <2>2, <2>3
    <3>2. Tree[span[2]].prev = span[2 - 1]
      BY <1>1, <2>3 DEF SpanAttached, Chained, n
    <3> QED
      BY <3>1, <3>2 DEF h
  <2>6. \A i \in 1 .. Len(new) : new[i] \notin Known'
    <3>1. \A i \in 1 .. n : span[i] \notin Known
      BY <1>1, <1>11 DEF SpanAttached, n
    <3> QED
      BY <1>7, <2>2, <2>3, <3>1
  <2>7. DescendsFromFinalized(blocks', h)
    <3>1. h \in DOMAIN blocks'
      BY <1>7 DEF Known
    <3> QED
      BY <1>1, <1>3, <1>7, <1>9, <1>10, <3>1, ChildDescends DEF ChainPart
  <2>8. SpanOK'
    BY <1>1, <1>3, <1>4, <1>7, <2>2, <2>4, <2>5, <2>6, <2>7, SpanGoesOn DEF SpanAttached
  <2> QED
    BY <1>6, <1>7, <1>8, <2>2, <2>8 DEF SyncInv, ChainPart
<1>12. CASE n = 1
  <2>1. span' = span
    BY <1>4, <1>12
  <2>2. Tree[h].prev \in Known'
    BY <1>3, <1>7
  <2>3. DescendsFromFinalized(blocks', Tree[h].prev)
    BY <1>3, <1>7, <1>9, <1>10 DEF DescendsFromFinalized, IsDescendantOf, AncestorAt, Known
  <2>4. SpanOK'
    <3>1. /\ ~ (Len(span) > 1) /\ span[Len(span)] = latest /\ Chained(span) /\ latest # NoHash
          /\ Tree[span[1]].prev \in Known' /\ DescendsFromFinalized(blocks', Tree[span[1]].prev)
          /\ finalized' = finalized /\ latest' = latest /\ span \in Seq(Hash)
      <4>1. /\ Chained(span) /\ latest # NoHash /\ span[Len(span)] = latest
            /\ span \in Seq(Hash)
        BY <1>1 DEF SpanAttached
      <4>2. ~ (Len(span) > 1)
        BY <1>12
      <4>3. finalized' = finalized /\ latest' = latest
        BY <1>4, <1>7
      <4> QED
        BY <2>2, <2>3, <4>1, <4>2, <4>3
    <3> HIDE DEF h, n
    <3> QED
      BY <2>1, <3>1, SpanGoesOn
  <2> QED
    BY <1>1, <1>6, <1>7, <1>8, <2>1, <2>4 DEF SyncInv, ChainPart
<1> QED
  BY <1>2, <1>11, <1>12

\* ingest_finalized_headers marks the checkpoint; it cannot fail.
LEMMA FinalizeStep ==
    ASSUME SyncInv, FinalizeSpan
    PROVE  SyncInv' /\ [Next]_chainVars /\ finalized' = latest /\ fallback' = fallback
<1> DEFINE h == span[1]
<1>1. /\ span \in Seq(Hash) /\ Len(span) = 1 /\ span # <<>> /\ Head(span) = h /\ h \in Known
      /\ ChainPart /\ SessionOK /\ msg \in Seq(Message)
  <2>1. span \in Seq(Hash) /\ Len(span) = 1 /\ Head(span) \in Known
        /\ ChainPart /\ SessionOK /\ msg \in Seq(Message)
    BY DEF SyncInv, SpanOK, FinalizeSpan, ChainPart
  <2> QED
    BY <2>1
<1>2. SpanAttached
  BY <1>1 DEF SyncInv, SpanOK
<1>3. h \in Hash \ {Genesis} /\ Tree[h].prev \in Known /\ h = latest /\ latest \in Attested
      /\ DescendsFromFinalized(blocks, Tree[h].prev)
  BY <1>1, <1>2 DEF SpanAttached, Chained, ChainPart, FinalityOK
<1>4. blocks[h].prev = Tree[h].prev /\ Tree[h].prev # NoHash /\ Tree[h].prev \in Hash
  BY <1>1, <1>3, NoHashAssumption, HeightsAreNat DEF ChainPart, StoreMatches, Known
<1> DEFINE up == Tree[h].prev
<1>5. blocks[h].line = Append(blocks[up].line, h)
  BY <1>1, <1>4 DEF ChainPart, IInv, TreeOK, Known
<1>6. blocks[h].height = blocks[up].height + 1
  <2>1. /\ blocks[up].line \in Seq(Hash) /\ blocks[up].height \in Nat
        /\ Len(blocks[up].line) = blocks[up].height + 1
        /\ blocks[h].height \in Nat /\ Len(blocks[h].line) = blocks[h].height + 1
    BY <1>1, <1>3 DEF ChainPart, IInv, TypeOK, TreeOK, Known, Entry
  <2>2. Len(blocks[h].line) = Len(blocks[up].line) + 1
    BY <1>3, <1>5, <2>1, AppendProperties
  <2> QED
    BY <2>1, <2>2
<1>7. CanFinalize(latest)
  <2>1. DescendsFromFinalized(blocks, h) /\ blocks[h].height > FinalizedHeight
    BY <1>1, <1>3, <1>5, <1>6, ChildDescends DEF Known, ChainPart
  <2> QED
    BY <1>1, <1>3, <2>1 DEF CanFinalize, HeightOf
<1>8. /\ SetFinalized(latest) /\ span' = <<>> /\ fallback' = fallback
      /\ latest' = latest /\ session' = session /\ msg' = msg
  BY <1>7 DEF FinalizeSpan
<1>9. blocks' = blocks /\ finalized' = latest /\ IInv' /\ StoreMatches(blocks') /\ Next
  BY <1>1, <1>3, <1>8, HeadAdvanced DEF ChainPart
<1>10. ChainPart'
  <2>1. latest # NoHash /\ HeightIn(latest) \in Nat
    BY <1>3, AttestedAssumption, NoHashAssumption, HeightsAreNat
  <2>2. FinalityOK'
    BY <1>3, <1>8, <1>9, <2>1 DEF FinalityOK, HeightIn
  <2> QED
    BY <1>1, <1>9, <2>2 DEF ChainPart, NoForgedHeader, Known, StoreMatches, HeightIn
<1> QED
  BY <1>1, <1>8, <1>9, <1>10, SessionKept, NoSpan

\* The stall count may end the session or change only its count.
LEMMA EndMessageStep ==
    ASSUME SyncInv, EndMessage
    PROVE  span = <<>> /\ SyncInv' /\ [Next]_chainVars
<1>1. /\ span = <<>> /\ span' = <<>> /\ msg' = <<>> /\ UNCHANGED chainVars /\ latest' = latest
      /\ ChainPart /\ SessionOK
      /\ \/ session' = session \/ StallCounted(msg[1])
  BY DEF SyncInv, ChainPart, EndMessage
<1>2. ChainPart' /\ msg' \in Seq(Message)
  BY <1>1, ChainPartKept
<1>3. SessionOK'
  <2>1. CASE session' = session
    BY <1>1, <2>1, SessionKept
  <2>2. CASE session' = <<>>
    BY <2>2 DEF SessionOK
  <2>3. ASSUME session # <<>>, NEW k \in Nat, session' = <<[session[1] EXCEPT !.stalled = k]>>
        PROVE  SessionOK'
    <3> DEFINE s == session[1]
               t == [s EXCEPT !.stalled = k]
    <3>1. s \in Sessions /\ Chained(s.headers)
      BY <1>1, <2>3 DEF SessionOK
    <3> HIDE DEF s
    <3>2. t \in Sessions /\ t.headers = s.headers
      BY <3>1 DEF Sessions
    <3>3. session' = <<t>>
      BY <2>3 DEF s
    <3> HIDE DEF t
    <3>4. session' \in Seq(Sessions) /\ Len(session') = 1 /\ session'[1] = t
      BY <3>2, <3>3
    <3>5. \A i \in 1 .. Len(session') : Chained(session'[i].headers)
      BY <3>1, <3>2, <3>4
    <3> QED
      BY <3>4, <3>5 DEF SessionOK, Chained, HeightIn, Sessions
  <2>4. CASE StallCounted(msg[1]) /\ session # <<>>
    <3>1. session[1] \in Sessions
      BY <1>1, <2>4 DEF SessionOK
    <3>2. session[1].stalled \in Nat /\ session[1].stalled + 1 \in Nat /\ 0 \in Nat
      BY <3>1 DEF Sessions
    <3>3. \/ session' = session \/ session' = <<>>
          \/ session' = <<[session[1] EXCEPT !.stalled = 0]>>
          \/ session' = <<[session[1] EXCEPT !.stalled = session[1].stalled + 1]>>
      BY <2>4 DEF StallCounted
    <3> QED
      BY <2>1, <2>2, <2>3, <2>4, <3>2, <3>3
  <2>5. CASE StallCounted(msg[1]) /\ session = <<>>
    BY <2>5, <2>1 DEF StallCounted
  <2> QED
    BY <1>1, <2>1, <2>4, <2>5
<1> QED
  BY <1>1, <1>2, <1>3, NoSpan

\* What a step of the joiner keeps, and what the end of an admission means.
Completes == span # <<>> /\ span' = <<>> => finalized' = latest /\ fallback' = fallback

LEMMA JoinStep ==
    ASSUME HonestQuorum, SyncInv, [JoinNext]_joinVars
    PROVE  SyncInv' /\ [Next]_chainVars /\ Completes
<1> PICK line : QuorumLine(line)
  BY DEF HonestQuorum
<1> USE DEF Completes
<1>1. CASE UNCHANGED joinVars
  <2>1. ChainPart' /\ SessionOK'
    BY <1>1, ChainPartKept, SessionKept DEF SyncInv, ChainPart, joinVars, syncVars
  <2>2. SpanOK'
    BY <1>1 DEF joinVars, SyncInv, SpanOK, SpanAttached, chainVars, Known, Chained, HeightIn,
                DescendsFromFinalized, IsDescendantOf, AncestorAt
  <2>3. msg' = msg /\ span' = span /\ UNCHANGED chainVars
    BY <1>1 DEF joinVars
  <2> QED
    BY <2>1, <2>2, <2>3 DEF SyncInv, ChainPart
<1>2. CASE Tick
  BY <1>2, StepAside DEF Tick, Idle
<1>3. ASSUME NEW p \in Peers, NEW cp \in Attested, OnCheckpoint(p, cp)
      PROVE  SyncInv' /\ [Next]_chainVars /\ Completes
  BY <1>3, OnCheckpointStep DEF OnCheckpoint, Idle
<1>4. ASSUME NEW p \in Peers, OnNoCheckpoint(p)
      PROVE  SyncInv' /\ [Next]_chainVars /\ Completes
  BY <1>4, StepAside DEF OnNoCheckpoint, Idle
<1>5. ASSUME NEW cp \in Attested, OnVotes(cp)
      PROVE  SyncInv' /\ [Next]_chainVars /\ Completes
  BY <1>5, OnVotesStep DEF OnVotes, Idle
<1>6. ASSUME NEW p \in Honest, NEW from \in 0 .. MaxHeight, OnAnswer(p, from)
      PROVE  SyncInv' /\ [Next]_chainVars /\ Completes
  <2>1. p \in Peers /\ Answer(p, from) \in Seq(Hash)
    BY AnswerIsHeaders, PeerAssumption DEF Honest
  <2> QED
    BY <1>6, <2>1, DeliverStep DEF OnAnswer
<1>7. ASSUME NEW p \in Peers, NEW hs \in FaultyBatches, OnFaultyHeaders(p, hs)
      PROVE  SyncInv' /\ [Next]_chainVars /\ Completes
  <2>1. hs \in Seq(Hash)
    <3>1. hs = <<>> \/ \E h \in Hash : hs = <<h>>
      BY DEF FaultyBatches
    <3>2. <<>> \in Seq(Hash) /\ \A h \in Hash : <<h>> \in Seq(Hash)
      OBVIOUS
    <3> QED BY <3>1, <3>2
  <2> QED
    BY <1>7, <2>1, DeliverStep DEF OnFaultyHeaders
<1>8. ASSUME NEW p \in Peers, NEW h \in Hash, NEW kind \in {"header", "block"}, OnRelay(kind, p, h)
      PROVE  SyncInv' /\ [Next]_chainVars /\ Completes
  <2>1. <<h>> \in Seq(Hash)
    OBVIOUS
  <2> QED
    BY <1>8, <2>1, DeliverStep DEF OnRelay
<1>9. CASE HandleHeader
  <2>1. msg[1] \in Message
    BY <1>9 DEF HandleHeader, SyncInv
  <2> QED
    BY <1>9, <2>1, HandleStep DEF HandleHeader
<1>10. CASE AdmitHeader
  BY <1>10, AdmitStep
<1>11. CASE FinalizeSpan
  BY <1>11, FinalizeStep
<1>12. CASE EndMessage
  BY <1>12, EndMessageStep
<1>13. ASSUME NEW p \in Peers, LosePeer(p)
       PROVE  SyncInv' /\ [Next]_chainVars /\ Completes
  BY <1>13, StepAside DEF LosePeer, Idle
<1>14. ASSUME NEW p \in Peers, PeerReady(p)
       PROVE  SyncInv' /\ [Next]_chainVars /\ Completes
  BY <1>14, StepAside DEF PeerReady, Idle, syncVars
<1> QED
  BY <1>1, <1>2, <1>3, <1>4, <1>5, <1>6, <1>7, <1>8, <1>9, <1>10, <1>11, <1>12, <1>13, <1>14
     DEF JoinNext

LEMMA JoinInitial == JoinInit => SyncInv /\ Init
<1> SUFFICES ASSUME JoinInit PROVE SyncInv /\ Init
  OBVIOUS
<1>1. Init /\ latest = NoHash /\ session = <<>> /\ msg = <<>> /\ span = <<>>
  BY DEF JoinInit
<1>2. IInv
  BY <1>1, InitIInv
<1>3. DOMAIN blocks = {Genesis} /\ blocks[Genesis].height = 0 /\ finalized = NoHash
  BY <1>1 DEF Init
<1>4. StoreMatches(blocks) /\ NoForgedHeader /\ FinalityOK
  BY <1>1, <1>3 DEF StoreMatches, NoForgedHeader, Known, FinalityOK, HeightIn
<1>5. SessionOK /\ SpanOK /\ msg \in Seq(Message)
  BY <1>1 DEF SessionOK, SpanOK
<1> QED
  BY <1>1, <1>2, <1>4, <1>5 DEF SyncInv

-----------------------------------------------------------------------------
(* The theorems.                                                           *)

\* Whatever peers send, no header enters the joiner's chain that is not valid: the
\* unvalidated buffer reaches the chain only as part of the attested branch
\* (ingest_checkpoint_sync_header, ingest_finalized_headers).
THEOREM OnlyValidHeaders ==
    ASSUME HonestQuorum
    PROVE  JoinSpec => []NoForgedHeader
<1>1. SyncInv => NoForgedHeader
  BY DEF SyncInv
<1>2. SyncInv /\ [JoinNext]_joinVars => SyncInv'
  BY JoinStep
<1> QED
  BY <1>1, <1>2, JoinInitial, PTL DEF JoinSpec

\* An admission that has begun ends with the checkpoint final: after the checks of
\* ingest_finalized_headers neither an insertion nor set_finalized fails.
THEOREM AdmissionEndsFinal ==
    ASSUME HonestQuorum
    PROVE  JoinSpec => AdmissionCompletes
<1>1. SyncInv /\ [JoinNext]_joinVars => SyncInv'
  BY JoinStep
<1>2. SyncInv /\ [JoinNext]_joinVars
         => [span # <<>> /\ span' = <<>> => finalized' = latest /\ fallback' = fallback]_joinVars
  BY JoinStep DEF Completes
<1> QED
  BY <1>1, <1>2, JoinInitial, PTL DEF JoinSpec, AdmissionCompletes

\* The joiner uses fork choice only through its operations, the skipped validation
\* included: the main chain below its finalized head only grows.
THEOREM JoinerKeepsFinality ==
    ASSUME HonestQuorum
    PROVE  JoinSpec => FinalizedOnlyGrows
<1>1. SyncInv /\ [JoinNext]_joinVars => SyncInv'
  BY JoinStep
<1>2. SyncInv /\ [JoinNext]_joinVars => [Next]_chainVars
  BY JoinStep
<1>3. JoinSpec => Spec
  BY <1>1, <1>2, JoinInitial, PTL DEF JoinSpec, Spec
<1> QED
  BY <1>3, FinalityPreserved
=============================================================================
