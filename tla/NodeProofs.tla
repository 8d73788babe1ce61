----------------------------- MODULE NodeProofs -----------------------------
(***************************************************************************)
(* Proofs about NodeHeads and Mempool, for every tree of blocks, every set *)
(* of transactions and every limit, for any order of headers, bodies and   *)
(* votes and any number of crashes and restarts.  DiskHolds, a hypothesis  *)
(* of the theorems, excludes a failed append; nothing is assumed of where  *)
(* the committee's checkpoints are, or of votes coming after headers.      *)
(*                                                                         *)
(* The heads.  NInv is inductive: HInv, which holds whatever reaches the   *)
(* disk, and LogOK, that the replay of the log is the applied chain and    *)
(* its finalized head.  A rewind leaves no record, so what has to be shown *)
(* is that the next block's record makes the replay cut its line where the *)
(* rewind cut the chain: the parent of a block has one place in a line of  *)
(* the tree, and the rewind ends there.  That holds because a drain that   *)
(* rewinds also applies a block, and it holds for every prefix of a        *)
(* drain's records, which is what a crash leaves.  The applied chain is    *)
(* the line of a stored block, so the lines of ChainStateProofs give the   *)
(* shared prefix of applied and main chain.  Fork choice may refuse a      *)
(* checkpoint; one it has taken is on the main chain by the invariant of   *)
(* ChainStateProofs, and only a higher checkpoint replaces it.             *)
(*                                                                         *)
(* The pool.  A node with a pool takes the steps of NodeHeads, so what is  *)
(* proved of the heads holds of it.  The pool is maintained block by block *)
(* and only with the blocks a drain applies.  That is enough because a     *)
(* drain that changes the applied chain always applies a block (the bodies *)
(* it holds are not applied ones), so anchors and names are judged on the  *)
(* new tip; because nullifiers of the blocks that stay were judged before; *)
(* and because finality only moves up, so an anchor below the head stays   *)
(* below it.  The template then needs what no single transaction can be    *)
(* judged for: that no two of the chosen ones spend one note, which the    *)
(* pool excludes, or reveal one name, which assemble does.                 *)
(***************************************************************************)
EXTENDS Mempool, ChainStateProofs, NaturalsInduction

-----------------------------------------------------------------------------
(* Induction and folds.                                                    *)

\* A non-empty set of positions has a highest one, and Max is it.
LEMMA MaxPosition ==
    ASSUME NEW n \in Nat, NEW S, S \subseteq 1 .. n, S # {}
    PROVE  Max(S) \in S /\ \A j \in S : j <= Max(S)
<1>1. \E i \in S : \A j \in S : j <= i
  BY HighestExists
<1>2. \E i \in S : \A j \in S : i >= j
  BY <1>1
<1>3. Max(S) \in S /\ \A j \in S : Max(S) >= j
  BY <1>2 DEF Max
<1> QED
  BY <1>3

LEMMA TopOfRange ==
    ASSUME NEW n \in Nat
    PROVE  /\ Max(1 .. n + 1) = n + 1 /\ 1 .. n + 1 # {}
           /\ (1 .. n + 1) \ {n + 1} = 1 .. n
<1>1. n + 1 \in Nat /\ 1 .. n + 1 \subseteq 1 .. n + 1 /\ n + 1 \in 1 .. n + 1
  OBVIOUS
<1>2. Max(1 .. n + 1) \in 1 .. n + 1 /\ n + 1 <= Max(1 .. n + 1)
  BY <1>1, MaxPosition
<1> QED
  BY <1>1, <1>2

\* g tabulates the replay of the records of seq whose positions are in s, for the
\* sets s of positions up to n (the community module's FoldLeft).
Opening == [line |-> <<Genesis>>, final |-> NoHash, ok |-> TRUE]
Tabulates(g, seq, n) ==
    g = [s \in SUBSET (1 .. n) |->
            IF s = {} THEN Opening ELSE LoggedRecord(g[s \ {Max(s)}], seq[Max(s)])]

LEMMA TabulationGrows ==
    ASSUME NEW n \in Nat, NEW seq, NEW g, Tabulates(g, seq, n)
    PROVE  \E h : Tabulates(h, seq, n + 1)
<1> DEFINE h == [s \in SUBSET (1 .. n + 1) |->
                    IF n + 1 \in s THEN LoggedRecord(g[s \ {n + 1}], seq[n + 1]) ELSE g[s]]
<1>1. ASSUME NEW s \in SUBSET (1 .. n + 1)
      PROVE  h[s] = IF s = {} THEN Opening ELSE LoggedRecord(h[s \ {Max(s)}], seq[Max(s)])
  <2>1. CASE n + 1 \in s
    <3>1. Max(s) = n + 1
      <4> HIDE DEF h
      <4>1. n + 1 \in Nat /\ s \subseteq 1 .. n + 1 /\ s # {}
        BY <2>1
      <4>2. Max(s) \in s /\ \A j \in s : j <= Max(s)
        BY <4>1, MaxPosition
      <4>3. Max(s) \in 1 .. n + 1 /\ n + 1 <= Max(s)
        BY <4>1, <4>2, <2>1
      <4> HIDE DEF Max
      <4> QED
        BY <4>3
    <3>2. h[s \ {n + 1}] = g[s \ {n + 1}]
      OBVIOUS
    <3> HIDE DEF h
    <3>3. h[s] = LoggedRecord(g[s \ {n + 1}], seq[n + 1])
      BY <2>1 DEF h
    <3> QED
      BY <2>1, <3>1, <3>2, <3>3
  <2>2. CASE n + 1 \notin s
    <3>1. s \in SUBSET (1 .. n) /\ h[s] = g[s]
      BY <2>2
    <3>2. s \ {Max(s)} \in SUBSET (1 .. n + 1) /\ n + 1 \notin s \ {Max(s)}
      BY <2>2
    <3>3. h[s \ {Max(s)}] = g[s \ {Max(s)}]
      BY <3>2
    <3> HIDE DEF h
    <3>4. g[s] = IF s = {} THEN Opening ELSE LoggedRecord(g[s \ {Max(s)}], seq[Max(s)])
      BY <3>1 DEF Tabulates
    <3> QED
      BY <3>1, <3>3, <3>4
  <2> QED
    BY <2>1, <2>2
<1>2. Tabulates(h, seq, n + 1)
  BY <1>1 DEF Tabulates
<1> QED
  BY <1>2

LEMMA TabulationExists ==
    ASSUME NEW seq
    PROVE  \A n \in Nat : \E g : Tabulates(g, seq, n)
<1> DEFINE S == {n \in Nat : \E g : Tabulates(g, seq, n)}
<1>1. 0 \in S
  <2>1. SUBSET (1 .. 0) = {{}}
    OBVIOUS
  <2> DEFINE g == [s \in {{}} |-> Opening]
  <2>2. Tabulates(g, seq, 0)
    BY <2>1 DEF Tabulates
  <2> QED
    BY <2>2
<1>2. \A n \in Nat : n \in S => n + 1 \in S
  BY TabulationGrows
<1> HIDE DEF S
<1>3. Nat \subseteq S
  BY <1>1, <1>2, SetInduction
<1> QED
  BY <1>3 DEF S

\* Two tabulations agree as far as their records do.
LEMMA TabulationsAgree ==
    ASSUME NEW n \in Nat, NEW m \in Nat, NEW seq, NEW seq2, NEW g, NEW h,
           Tabulates(g, seq, n), Tabulates(h, seq2, m)
    PROVE  \A k \in Nat : (k <= n /\ k <= m /\ \A i \in 1 .. k : seq[i] = seq2[i])
                              => g[1 .. k] = h[1 .. k]
<1> DEFINE P(k) == (k <= n /\ k <= m /\ \A i \in 1 .. k : seq[i] = seq2[i])
                     => g[1 .. k] = h[1 .. k]
           S == {k \in Nat : P(k)}
<1>1. 0 \in S
  <2>1. 1 .. 0 = {}
    OBVIOUS
  <2>2. g[{}] = Opening /\ h[{}] = Opening
    BY DEF Tabulates
  <2> QED
    BY <2>1, <2>2
<1>2. ASSUME NEW k \in Nat, k \in S PROVE k + 1 \in S
  <2> SUFFICES ASSUME k + 1 <= n, k + 1 <= m, \A i \in 1 .. k + 1 : seq[i] = seq2[i]
               PROVE  g[1 .. k + 1] = h[1 .. k + 1]
    OBVIOUS
  <2>1. g[1 .. k] = h[1 .. k]
    BY <1>2
  <2> HIDE DEF S
  <2>2. 1 .. k + 1 \in SUBSET (1 .. n) /\ 1 .. k + 1 \in SUBSET (1 .. m)
    OBVIOUS
  <2>3. Max(1 .. k + 1) = k + 1 /\ 1 .. k + 1 # {} /\ (1 .. k + 1) \ {k + 1} = 1 .. k
    BY TopOfRange
  <2>4. /\ g[1 .. k + 1] = LoggedRecord(g[1 .. k], seq[k + 1])
        /\ h[1 .. k + 1] = LoggedRecord(h[1 .. k], seq2[k + 1])
    BY <2>2, <2>3 DEF Tabulates
  <2>5. seq[k + 1] = seq2[k + 1]
    OBVIOUS
  <2> QED
    BY <2>1, <2>4, <2>5
<1> HIDE DEF S
<1>3. Nat \subseteq S
  BY <1>1, <1>2, SetInduction
<1> QED
  BY <1>3 DEF S

\* The replay of a log is the last entry of its tabulation.
LEMMA ReplayedTabulates ==
    ASSUME NEW X, NEW seq \in Seq(X)
    PROVE  \E g : Tabulates(g, seq, Len(seq)) /\ Replayed(seq) = g[1 .. Len(seq)]
<1> DEFINE g == CHOOSE f : Tabulates(f, seq, Len(seq))
<1>1. DOMAIN seq = 1 .. Len(seq) /\ Len(seq) \in Nat
  OBVIOUS
<1>2. Tabulates(g, seq, Len(seq))
  BY <1>1, TabulationExists
<1>3. Replayed(seq) =
        (CHOOSE f : f = [s \in SUBSET DOMAIN seq |->
            IF s = {} THEN Opening ELSE LoggedRecord(f[s \ {Max(s)}], seq[Max(s)])])[DOMAIN seq]
  BY DEF Replayed, FoldLeft, MapThenFoldSet, Opening
<1>4. Replayed(seq) = g[1 .. Len(seq)]
  BY <1>1, <1>3 DEF Tabulates
<1> QED
  BY <1>2, <1>4

\* resume_by_replay on an empty log opens at genesis.
LEMMA ReplayedEmpty == Replayed(<< >>) = Opening
<1>1. << >> \in Seq(Record) /\ Len(<< >>) = 0 /\ 1 .. 0 = {}
  OBVIOUS
<1>2. PICK g : Tabulates(g, << >>, 0) /\ Replayed(<< >>) = g[{}]
  BY <1>1, ReplayedTabulates
<1> QED
  BY <1>2 DEF Tabulates

\* resume_by_replay applies the records one after the other.
LEMMA ReplayedAppend ==
    ASSUME NEW X, NEW seq \in Seq(X), NEW r \in X
    PROVE  Replayed(Append(seq, r)) = LoggedRecord(Replayed(seq), r)
<1> DEFINE n == Len(seq)
           longer == Append(seq, r)
<1>1. /\ n \in Nat /\ longer \in Seq(X) /\ Len(longer) = n + 1
      /\ longer[n + 1] = r /\ \A i \in 1 .. n : seq[i] = longer[i]
  BY AppendProperties
<1> HIDE DEF n, longer
<1>2. PICK g : Tabulates(g, seq, n) /\ Replayed(seq) = g[1 .. n]
  BY ReplayedTabulates DEF n
<1>3. PICK h : Tabulates(h, longer, n + 1) /\ Replayed(longer) = h[1 .. n + 1]
  BY <1>1, ReplayedTabulates
<1>4. g[1 .. n] = h[1 .. n]
  BY <1>1, <1>2, <1>3, TabulationsAgree
<1>5. Max(1 .. n + 1) = n + 1 /\ 1 .. n + 1 # {} /\ (1 .. n + 1) \ {n + 1} = 1 .. n
  BY <1>1, TopOfRange
<1>6. h[1 .. n + 1] = LoggedRecord(h[1 .. n], longer[n + 1])
  BY <1>3, <1>5 DEF Tabulates
<1> QED
  BY <1>1, <1>2, <1>3, <1>4, <1>6 DEF longer

-----------------------------------------------------------------------------
(* The work of a rebuilt entry is a number: the same two steps for the sum *)
(* of EntryOf.                                                             *)

Sums(g, seq, base, n) ==
    g = [s \in SUBSET (1 .. n) |->
            IF s = {} THEN base ELSE g[s \ {Max(s)}] + Weight(Tree[seq[Max(s)]].difficulty)]

LEMMA SumGrows ==
    ASSUME NEW n \in Nat, NEW seq, NEW base, NEW g, Sums(g, seq, base, n)
    PROVE  \E h : Sums(h, seq, base, n + 1)
<1> DEFINE W(i) == Weight(Tree[seq[i]].difficulty)
           h == [s \in SUBSET (1 .. n + 1) |->
                    IF n + 1 \in s THEN g[s \ {n + 1}] + W(n + 1) ELSE g[s]]
<1> HIDE DEF W
<1>1. ASSUME NEW s \in SUBSET (1 .. n + 1)
      PROVE  h[s] = IF s = {} THEN base ELSE h[s \ {Max(s)}] + W(Max(s))
  <2>1. CASE n + 1 \in s
    <3>1. Max(s) = n + 1
      <4> HIDE DEF h
      <4>1. n + 1 \in Nat /\ s \subseteq 1 .. n + 1 /\ s # {}
        BY <2>1
      <4>2. Max(s) \in s /\ \A j \in s : j <= Max(s)
        BY <4>1, MaxPosition
      <4>3. Max(s) \in 1 .. n + 1 /\ n + 1 <= Max(s)
        BY <4>1, <4>2, <2>1
      <4> QED
        BY <4>3
    <3>2. h[s \ {n + 1}] = g[s \ {n + 1}]
      OBVIOUS
    <3> HIDE DEF h
    <3>3. h[s] = g[s \ {n + 1}] + W(n + 1)
      BY <2>1 DEF h
    <3> QED
      BY <2>1, <3>1, <3>2, <3>3
  <2>2. CASE n + 1 \notin s
    <3>1. s \in SUBSET (1 .. n) /\ h[s] = g[s]
      BY <2>2
    <3>2. s \ {Max(s)} \in SUBSET (1 .. n + 1) /\ n + 1 \notin s \ {Max(s)}
      BY <2>2
    <3>3. h[s \ {Max(s)}] = g[s \ {Max(s)}]
      BY <3>2
    <3> HIDE DEF h
    <3>4. g[s] = IF s = {} THEN base ELSE g[s \ {Max(s)}] + W(Max(s))
      BY <3>1 DEF Sums, W
    <3> QED
      BY <3>1, <3>3, <3>4
  <2> QED
    BY <2>1, <2>2
<1>2. Sums(h, seq, base, n + 1)
  BY <1>1 DEF Sums, W
<1> QED
  BY <1>2

LEMMA SumExists ==
    ASSUME NEW seq, NEW base
    PROVE  \A n \in Nat : \E g : Sums(g, seq, base, n)
<1> DEFINE S == {n \in Nat : \E g : Sums(g, seq, base, n)}
<1>1. 0 \in S
  <2>1. SUBSET (1 .. 0) = {{}}
    OBVIOUS
  <2> DEFINE g == [s \in {{}} |-> base]
  <2>2. Sums(g, seq, base, 0)
    BY <2>1 DEF Sums
  <2> QED
    BY <2>2
<1>2. \A n \in Nat : n \in S => n + 1 \in S
  BY SumGrows
<1> HIDE DEF S
<1>3. Nat \subseteq S
  BY <1>1, <1>2, SetInduction
<1> QED
  BY <1>3 DEF S

LEMMA SumIsNatural ==
    ASSUME NEW n \in Nat, NEW seq, NEW base \in Nat, NEW g, Sums(g, seq, base, n),
           \A i \in 1 .. n : seq[i] \in Hash \ {Genesis}
    PROVE  g[1 .. n] \in Nat
<1> DEFINE S == {k \in Nat : k <= n => g[1 .. k] \in Nat}
<1>1. 0 \in S
  <2>1. 1 .. 0 = {} /\ {} \in SUBSET (1 .. n)
    OBVIOUS
  <2>2. g[{}] = base
    BY <2>1 DEF Sums
  <2> QED
    BY <2>1, <2>2
<1>2. ASSUME NEW k \in Nat, k \in S PROVE k + 1 \in S
  <2> SUFFICES ASSUME k + 1 <= n PROVE g[1 .. k + 1] \in Nat
    OBVIOUS
  <2>1. g[1 .. k] \in Nat
    BY <1>2
  <2> HIDE DEF S
  <2>2. 1 .. k + 1 \in SUBSET (1 .. n) /\ k + 1 \in 1 .. n
    OBVIOUS
  <2>3. Max(1 .. k + 1) = k + 1 /\ 1 .. k + 1 # {} /\ (1 .. k + 1) \ {k + 1} = 1 .. k
    BY TopOfRange
  <2>4. g[1 .. k + 1] = g[1 .. k] + Weight(Tree[seq[k + 1]].difficulty)
    BY <2>2, <2>3 DEF Sums
  <2>5. Weight(Tree[seq[k + 1]].difficulty) \in Nat
    BY <2>2, TreeAssumption, DifficultyAssumption DEF Weight
  <2> QED
    BY <2>1, <2>4, <2>5
<1> HIDE DEF S
<1>3. Nat \subseteq S
  BY <1>1, <1>2, SetInduction
<1> QED
  BY <1>3 DEF S

LEMMA EntryWork ==
    ASSUME NEW line, Tail(line) \in Seq(Hash \ {Genesis}), blocks[Genesis].work \in Nat
    PROVE  EntryOf(line).work \in Nat
<1> DEFINE seq == Tail(line)
           base == blocks[Genesis].work
           g == CHOOSE f : Sums(f, seq, base, Len(seq))
<1>1. DOMAIN seq = 1 .. Len(seq) /\ Len(seq) \in Nat /\ \A i \in 1 .. Len(seq) : seq[i] \in Hash \ {Genesis}
  <2> HIDE DEF seq
  <2>1. seq \in Seq(Hash \ {Genesis})
    BY DEF seq
  <2> QED
    BY <2>1
<1>2. Sums(g, seq, base, Len(seq))
  BY <1>1, SumExists
<1>3. EntryOf(line).work =
        (CHOOSE f : f = [s \in SUBSET DOMAIN seq |->
            IF s = {} THEN base
            ELSE f[s \ {Max(s)}] + Weight(Tree[seq[Max(s)]].difficulty)])[DOMAIN seq]
  BY DEF EntryOf, FoldLeft, MapThenFoldSet
<1>4. EntryOf(line).work = g[1 .. Len(seq)]
  BY <1>1, <1>3 DEF Sums
<1> HIDE DEF g, seq, base
<1>5. base \in Nat
  BY DEF base
<1>6. g[1 .. Len(seq)] \in Nat
  BY <1>1, <1>2, <1>5, SumIsNatural
<1> QED
  BY <1>4, <1>6

-----------------------------------------------------------------------------
(* Lines of blocks.                                                        *)

\* The entries of a store are the headers of the tree.
Matches(store) ==
    \A h \in DOMAIN store : store[h].prev = PrevIn(h) /\ store[h].height = HeightIn(h)

\* A line of the tree, from genesis on.
TreeLine(line) ==
    /\ line \in Seq(Hash)
    /\ Len(line) >= 1
    /\ line[1] = Genesis
    /\ \A i \in 1 .. Len(line) : HeightIn(line[i]) = i - 1
    /\ \A i \in 2 .. Len(line) : PrevIn(line[i]) = line[i - 1]

LEMMA HeightIsNatural ==
    /\ \A h \in Hash : HeightIn(h) \in 0 .. MaxHeight
    /\ \A h \in Hash \ {Genesis} : HeightIn(h) \in 1 .. MaxHeight /\ PrevIn(h) \in Hash /\ PrevIn(h) # NoHash
    /\ PrevIn(Genesis) = NoHash /\ HeightIn(Genesis) = 0
BY TreeAssumption, MaxHeightAssumption, GenesisAssumption, NoHashAssumption DEF HeightIn, PrevIn

\* The stored line of a block is a line of the tree that ends with the block, and
\* its prefixes are the lines of the blocks they end with.
LEMMA StoredLine ==
    ASSUME NEW store, StoreOK(store), Matches(store), NEW h \in DOMAIN store
    PROVE  /\ TreeLine(store[h].line)
           /\ Len(store[h].line) = HeightIn(h) + 1
           /\ Last(store[h].line) = h
           /\ \A i \in 1 .. Len(store[h].line) :
                 /\ store[h].line[i] \in DOMAIN store
                 /\ store[store[h].line[i]].line = SubSeq(store[h].line, 1, i)
<1> DEFINE line == store[h].line
<1>1. /\ store[h] \in Entry /\ line \in Seq(Hash) /\ store[h].height \in Nat
      /\ Len(line) = store[h].height + 1 /\ line[1] = Genesis /\ line[Len(line)] = h
      /\ \A i \in 1 .. Len(line) : line[i] \in DOMAIN store /\ store[line[i]].line = SubSeq(line, 1, i)
  BY DEF StoreOK, TreeOK, Entry
<1>2. Len(line) = HeightIn(h) + 1
  BY <1>1 DEF Matches
<1>3. \A g \in DOMAIN store : Len(store[g].line) = HeightIn(g) + 1 /\ g \in Hash
  BY DEF StoreOK, TreeOK, Matches
<1> HIDE DEF line
<1>4. ASSUME NEW i \in 1 .. Len(line) PROVE HeightIn(line[i]) = i - 1
  <2>1. Len(SubSeq(line, 1, i)) = i
    BY <1>1
  <2>2. i = HeightIn(line[i]) + 1 /\ line[i] \in Hash
    BY <1>1, <1>3, <2>1
  <2> QED
    BY <2>2, HeightIsNatural
<1>5. ASSUME NEW i \in 2 .. Len(line) PROVE PrevIn(line[i]) = line[i - 1]
  <2> DEFINE g == line[i]
             p == PrevIn(g)
  <2>1. i \in 1 .. Len(line) /\ i - 1 \in 1 .. Len(line) /\ i \in Nat
    BY <1>1
  <2>2. g \in DOMAIN store /\ g \in Hash /\ HeightIn(g) = i - 1 /\ store[g].line = SubSeq(line, 1, i)
    BY <1>1, <1>4, <2>1
  <2>3. g # Genesis
    BY <2>1, <2>2, HeightIsNatural
  <2>4. p \in Hash /\ p # NoHash /\ store[g].prev = p
    BY <2>2, <2>3, HeightIsNatural DEF Matches
  <2> HIDE DEF g, p
  <2>5. p \in DOMAIN store /\ SubSeq(line, 1, i) = Append(store[p].line, g)
    BY <2>2, <2>4 DEF StoreOK, TreeOK
  <2>6. /\ store[p].line \in Seq(Hash) /\ store[p].line[Len(store[p].line)] = p
        /\ Len(store[p].line) \in Nat /\ Len(store[p].line) >= 1
    <3>1. store[p] \in Entry /\ store[p].line[Len(store[p].line)] = p
      BY <2>5 DEF StoreOK, TreeOK
    <3>2. Len(store[p].line) = HeightIn(p) + 1 /\ HeightIn(p) \in Nat
      BY <2>5, <1>3, <2>4, HeightIsNatural, MaxHeightAssumption
    <3> QED
      BY <3>1, <3>2 DEF Entry
  <2> DEFINE q == store[p].line
             a == Append(q, g)
  <2>7. /\ Len(a) = Len(q) + 1 /\ a[Len(q)] = q[Len(q)] /\ q \in Seq(Hash)
    BY <2>6, <2>2, AppendProperties
  <2>8. Len(SubSeq(line, 1, i)) = i /\ SubSeq(line, 1, i)[i - 1] = line[i - 1]
    <3>1. line \in Seq(Hash) /\ i \in 1 .. Len(line) /\ i - 1 \in 1 .. i /\ Len(line) \in Nat
      BY <1>1, <2>1
    <3> QED
      BY <3>1
  <2>9. a = SubSeq(line, 1, i) /\ q[Len(q)] = p /\ Len(q) \in Nat
    BY <2>5, <2>6
  <2> HIDE DEF a, q
  <2>10. Len(q) = i - 1
    BY <2>1, <2>7, <2>8, <2>9
  <2>11. line[i - 1] = p
    BY <2>7, <2>8, <2>9, <2>10
  <2> QED
    BY <2>11 DEF g, p
<1>6. Len(line) >= 1
  BY <1>1
<1> QED
  BY <1>1, <1>2, <1>4, <1>5, <1>6 DEF TreeLine, line, Last

\* A block has one place on a line.
LEMMA OnePlace ==
    ASSUME NEW line, TreeLine(line), NEW i \in 1 .. Len(line), NEW j \in 1 .. Len(line),
           line[i] = line[j]
    PROVE  i = j
<1>1. HeightIn(line[i]) = i - 1 /\ HeightIn(line[j]) = j - 1 /\ Len(line) \in Nat
  BY DEF TreeLine
<1> QED
  BY <1>1

\* A non-empty prefix of a line is a line.
LEMMA PrefixLine ==
    ASSUME NEW line, TreeLine(line), NEW n \in 1 .. Len(line)
    PROVE  TreeLine(SubSeq(line, 1, n)) /\ Len(SubSeq(line, 1, n)) = n /\ Last(SubSeq(line, 1, n)) = line[n]
<1>1. line \in Seq(Hash) /\ Len(line) \in Nat
  BY DEF TreeLine
<1> DEFINE p == SubSeq(line, 1, n)
<1>2. p \in Seq(Hash) /\ Len(p) = n /\ \A i \in 1 .. n : p[i] = line[i]
  BY <1>1
<1> HIDE DEF p
<1>3. \A i \in 1 .. n : HeightIn(p[i]) = i - 1
  BY <1>1, <1>2 DEF TreeLine
<1>4. \A i \in 2 .. n : PrevIn(p[i]) = p[i - 1]
  <2> TAKE i \in 2 .. n
  <2>1. i \in 1 .. n /\ i - 1 \in 1 .. n /\ i \in 2 .. Len(line)
    BY <1>1
  <2> QED
    BY <1>2, <2>1 DEF TreeLine
<1>5. p[1] = Genesis
  BY <1>2 DEF TreeLine
<1>6. p[n] = line[n] /\ n >= 1
  BY <1>2
<1>7. TreeLine(p)
  BY <1>2, <1>3, <1>4, <1>5, <1>6 DEF TreeLine
<1>8. Last(p) = line[n]
  BY <1>2, <1>6 DEF Last
<1> QED
  BY <1>2, <1>7, <1>8 DEF p

-----------------------------------------------------------------------------
(* The drain.                                                              *)

\* Of the bodies that fit, one is the first by hash.
LEMMA FirstExists ==
    ASSUME NEW fits, fits \subseteq Hash, fits # {}
    PROVE  \E b : IsFirst(b, fits)
<1> DEFINE T == {Rank[c] : c \in fits}
<1>1. T \subseteq Nat /\ T # {}
  BY RankAssumption
<1>2. PICK x \in T : \A y \in T : ~ (<<y, x>> \in OpToRel(<, Nat))
  BY <1>1, WFMin, NatLessThanWellFounded
<1>3. \A y \in T : x <= y
  <2> TAKE y \in T
  <2>1. y \in Nat /\ x \in Nat /\ ~ (<<y, x>> \in OpToRel(<, Nat))
    BY <1>1, <1>2
  <2> HIDE DEF T
  <2> QED
    BY <2>1 DEF OpToRel
<1>4. PICK b \in fits : x = Rank[b]
  OBVIOUS
<1>5. \A c \in fits : Rank[b] <= Rank[c]
  BY <1>3, <1>4
<1> QED
  BY <1>4, <1>5 DEF IsFirst

LEMMA PrefixOfAppend ==
    ASSUME NEW line \in Seq(Hash), NEW b \in Hash, NEW k \in 0 .. Len(line)
    PROVE  SubSeq(Append(line, b), 1, k) = SubSeq(line, 1, k)
<1>1. Len(line) \in Nat /\ Append(line, b) \in Seq(Hash) /\ Len(Append(line, b)) = Len(line) + 1
      /\ \A i \in 1 .. Len(line) : Append(line, b)[i] = line[i]
  BY AppendProperties
<1> QED
  BY <1>1

\* The loop of drain_pending_bodies ends, on the line of a stored block that
\* extends the one it started from by held blocks, with no held body left that
\* fits its tip.
DrainEnds(store, line, held) ==
    LET grown == Grown(store, line, held)
    IN  /\ \E h \in DOMAIN store : grown = store[h].line
        /\ IsPrefix(line, grown)
        /\ Applicable(grown, held) = {}
        /\ \A i \in Len(line) + 1 .. Len(grown) : grown[i] \in held

LEMMA GrownLine ==
    ASSUME NEW store, StoreOK(store), Matches(store), NEW top \in DOMAIN store,
           NEW held, held \subseteq DOMAIN store
    PROVE  DrainEnds(store, store[top].line, held)
<1> DEFINE line == store[top].line
           Firsts(l) == \A i \in Len(line) + 1 .. Len(l) :
                           IsFirst(l[i], Applicable(SubSeq(l, 1, i - 1), held))
           All == {line} \cup {store[b].line : b \in held}
           Reached == {l \in All : IsPrefix(line, l) /\ Firsts(l)}
           lens == {Len(l) : l \in Reached}
<1>1. ASSUME NEW l \in All
      PROVE  /\ \E h \in DOMAIN store : l = store[h].line
             /\ l \in Seq(Hash) /\ Len(l) \in 1 .. MaxHeight + 1
  <2>1. PICK h \in DOMAIN store : l = store[h].line
    OBVIOUS
  <2>2. Len(l) = HeightIn(h) + 1 /\ l \in Seq(Hash) /\ h \in Hash
    BY <2>1, StoredLine DEF TreeLine, StoreOK
  <2>3. HeightIn(h) \in 0 .. MaxHeight
    BY <2>2, HeightIsNatural
  <2> QED
    BY <2>1, <2>2, <2>3, MaxHeightAssumption
<1>2. line \in Reached
  <2>1. line \in All /\ line \in Seq(Hash) /\ Len(line) \in Nat
    BY <1>1
  <2> HIDE DEF line, All
  <2>2. IsPrefix(line, line) /\ Firsts(line)
    BY <2>1 DEF IsPrefix
  <2> QED
    BY <2>1, <2>2
<1>3. PICK l \in Reached : \A m \in Reached : Len(m) <= Len(l)
  <2>1. lens \subseteq 1 .. MaxHeight + 1 /\ Len(line) \in lens
    BY <1>1, <1>2
  <2>2. MaxHeight + 1 \in Nat
    BY MaxHeightAssumption
  <2> HIDE DEF lens
  <2>3. PICK n \in lens : \A k \in lens : k <= n
    BY <2>1, <2>2, HighestExists
  <2> QED
    BY <2>3 DEF lens
<1>4. Applicable(l, held) = {}
  <2> SUFFICES ASSUME Applicable(l, held) # {} PROVE FALSE
    OBVIOUS
  <2>1. Applicable(l, held) \subseteq Hash
    BY DEF Applicable, StoreOK
  <2>2. PICK b : IsFirst(b, Applicable(l, held))
    BY <2>1, FirstExists
  <2>3. b \in held /\ b \in DOMAIN store /\ b \in Hash /\ PrevIn(b) = Last(l)
    BY <2>1, <2>2 DEF IsFirst, Applicable
  <2>4. PICK g \in DOMAIN store : l = store[g].line
    BY <1>1
  <2>5. Last(l) = g /\ g \in Hash /\ g # NoHash
    BY <2>4, StoredLine, NoHashAssumption DEF StoreOK
  <2>6. store[b].line = Append(l, b)
    BY <2>3, <2>4, <2>5 DEF Matches, StoreOK, TreeOK
  <2> DEFINE m == Append(l, b)
  <2>7. l \in Seq(Hash) /\ Len(l) \in Nat /\ line \in Seq(Hash) /\ Len(line) \in Nat
    BY <1>1, <1>2
  <2>8. m \in Seq(Hash) /\ Len(m) = Len(l) + 1 /\ m[Len(l) + 1] = b
        /\ \A i \in 1 .. Len(l) : m[i] = l[i]
    BY <2>3, <2>7, AppendProperties
  <2>9. \A k \in 0 .. Len(l) : SubSeq(m, 1, k) = SubSeq(l, 1, k)
    BY <2>3, <2>7, PrefixOfAppend
  <2>10. m \in All
    BY <2>3, <2>6
  <2>11. IsPrefix(line, l) /\ Firsts(l)
    OBVIOUS
  <2>12. SubSeq(l, 1, Len(l)) = l
    BY <2>7, SubSeqFull
  <2> HIDE DEF m, line, All
  <2>13. IsPrefix(line, m)
    BY <2>7, <2>8, <2>9, <2>11 DEF IsPrefix
  <2>14. ASSUME NEW i \in Len(line) + 1 .. Len(m)
         PROVE  IsFirst(m[i], Applicable(SubSeq(m, 1, i - 1), held))
    <3>1. CASE i = Len(l) + 1
      <4>1. i - 1 = Len(l) /\ SubSeq(m, 1, i - 1) = l /\ m[i] = b
        BY <2>7, <2>8, <2>9, <2>12, <3>1
      <4> QED
        BY <2>2, <4>1
    <3>2. CASE i # Len(l) + 1
      <4>1. i \in Len(line) + 1 .. Len(l) /\ i \in 1 .. Len(l) /\ i - 1 \in 0 .. Len(l)
        BY <2>7, <2>8, <3>2
      <4>2. m[i] = l[i] /\ SubSeq(m, 1, i - 1) = SubSeq(l, 1, i - 1)
        BY <2>8, <2>9, <4>1
      <4> QED
        BY <2>11, <4>1, <4>2
    <3> QED
      BY <3>1, <3>2
  <2>15. m \in Reached
    BY <2>10, <2>13, <2>14
  <2> QED
    BY <1>3, <2>7, <2>8, <2>15
<1> DEFINE grown == Grown(store, line, held)
<1>5. grown \in Reached /\ Applicable(grown, held) = {}
  <2>1. grown = CHOOSE x \in All : IsPrefix(line, x) /\ Firsts(x) /\ Applicable(x, held) = {}
    BY DEF Grown
  <2>2. \E x \in All : IsPrefix(line, x) /\ Firsts(x) /\ Applicable(x, held) = {}
    BY <1>4
  <2> QED
    BY <2>1, <2>2
<1>6. \A i \in Len(line) + 1 .. Len(grown) : grown[i] \in held
  <2> HIDE DEF grown
  <2>1. \A i \in Len(line) + 1 .. Len(grown) :
           IsFirst(grown[i], Applicable(SubSeq(grown, 1, i - 1), held))
    BY <1>5
  <2> QED
    BY <2>1 DEF IsFirst, Applicable
<1>7. \E h \in DOMAIN store : grown = store[h].line
  BY <1>1, <1>5
<1>8. IsPrefix(line, grown) /\ Applicable(grown, held) = {}
  BY <1>5
<1> HIDE DEF line, grown
<1>9. /\ \E h \in DOMAIN store : Grown(store, line, held) = store[h].line
      /\ IsPrefix(line, Grown(store, line, held)) /\ Applicable(Grown(store, line, held), held) = {}
      /\ \A i \in Len(line) + 1 .. Len(Grown(store, line, held)) : Grown(store, line, held)[i] \in held
  BY <1>6, <1>7, <1>8 DEF grown
<1>10. DrainEnds(store, line, held)
  BY <1>9 DEF DrainEnds
<1> QED
  BY <1>10 DEF line

\* state_fork_point finds the highest block two lines share.
LEMMA SharedPosition ==
    ASSUME NEW main, NEW line, TreeLine(main), TreeLine(line)
    PROVE  LET n == Shared(main, line) IN
           /\ n \in 1 .. Len(line) /\ n <= Len(main) /\ main[n] = line[n]
           /\ \A j \in 1 .. Len(line) : j <= Len(main) /\ main[j] = line[j] => j <= n
<1> DEFINE S == {i \in 1 .. Len(line) : i <= Len(main) /\ main[i] = line[i]}
<1>1. Len(line) \in Nat /\ Len(main) \in Nat /\ 1 \in S
  BY DEF TreeLine
<1>2. S \subseteq 1 .. Len(line) /\ S # {}
  BY <1>1
<1>3. Shared(main, line) = Max(S)
  BY DEF Shared
<1> HIDE DEF S
<1>4. Shared(main, line) \in S /\ \A j \in S : j <= Shared(main, line)
  BY <1>1, <1>2, <1>3, MaxPosition
<1> QED
  BY <1>4 DEF S

\* Where a drain may go from a line: a prefix of n blocks of it is kept, the head
\* of the state machine is in it, and the new line goes on from there.
GoesOn(line, n, new) ==
    /\ TreeLine(line) /\ TreeLine(new)
    /\ n \in 1 .. Len(line) /\ n <= Len(new)
    /\ SubSeq(new, 1, n) = SubSeq(line, 1, n)
    /\ MayRewind(line, stateFinal, n)

LEMMA HeadOnPrefix ==
    ASSUME NEW line, TreeLine(line), NEW f, f # NoHash => f \in ToSet(line)
    PROVE  MayRewind(line, f, Len(line))
<1>1. SubSeq(line, 1, Len(line)) = line
  BY SubSeqFull DEF TreeLine
<1> QED
  BY <1>1 DEF MayRewind

\* rejoin_main_chain and the loop of drain_pending_bodies: the state machine keeps
\* a prefix of its line with its finalized head in it, at least as long as what it
\* shares with the main chain, and goes on from there.  If it gave blocks up, it
\* applies at least one.  What it applies was held.
DrainGoesOn(store, main, line, held) ==
    LET kept == Rejoined(main, line, held)
        new == Grown(store, kept, held)
    IN  /\ GoesOn(line, Len(kept), new)
        /\ kept = SubSeq(line, 1, Len(kept))
        /\ Shared(main, line) <= Len(kept)
        /\ Len(new) = Len(kept) => new = line
        /\ \E h \in DOMAIN store : new = store[h].line
        /\ \A i \in Len(kept) + 1 .. Len(new) : new[i] \in held

LEMMA DrainLine ==
    ASSUME NEW store, StoreOK(store), Matches(store), NEW head \in DOMAIN store,
           NEW top \in DOMAIN store, NEW held \in SUBSET DOMAIN store,
           stateFinal # NoHash => stateFinal \in ToSet(store[top].line)
    PROVE  DrainGoesOn(store, store[head].line, store[top].line, held)
<1> DEFINE main == store[head].line
           line == store[top].line
           kept == Rejoined(main, line, held)
           new == Grown(store, kept, held)
<1>1. /\ TreeLine(line) /\ TreeLine(main) /\ line \in Seq(Hash)
      /\ Len(line) \in Nat /\ Len(main) \in Nat /\ Len(line) >= 1
      /\ \A i \in 1 .. Len(line) : line[i] \in DOMAIN store /\ store[line[i]].line = SubSeq(line, 1, i)
  BY StoredLine DEF TreeLine
<1>2. SubSeq(line, 1, Len(line)) = line
  BY <1>1, SubSeqFull
<1> DEFINE n == Shared(main, line)
<1>3. n \in 1 .. Len(line) /\ n <= Len(main) /\ main[n] = line[n]
  BY <1>1, SharedPosition
<1> HIDE DEF n
<1>4. /\ Len(kept) \in 1 .. Len(line) /\ n <= Len(kept)
      /\ kept = SubSeq(line, 1, Len(kept))
      /\ MayRewind(line, stateFinal, Len(kept))
      /\ kept = line \/ Applicable(kept, held) # {}
  <2>1. CASE /\ n < Len(line) /\ n < Len(main) /\ main[n + 1] \in held
             /\ MayRewind(line, stateFinal, n)
    <3>1. kept = SubSeq(line, 1, n)
      BY <2>1 DEF Rejoined, n
    <3>2. Len(kept) = n /\ Last(kept) = line[n]
      BY <1>1, <1>3, <3>1, PrefixLine
    <3>3. n + 1 \in 2 .. Len(main) /\ (n + 1) - 1 = n
      BY <1>1, <1>3, <2>1
    <3>4. PrevIn(main[n + 1]) = main[n]
      BY <1>1, <3>3 DEF TreeLine
    <3>5. main[n + 1] \in Applicable(kept, held)
      BY <1>3, <2>1, <3>2, <3>4 DEF Applicable
    <3> QED
      BY <1>3, <2>1, <3>1, <3>2, <3>5
  <2>2. CASE ~ /\ n < Len(line) /\ n < Len(main) /\ main[n + 1] \in held
               /\ MayRewind(line, stateFinal, n)
    <3>1. kept = line
      BY <2>2 DEF Rejoined, n
    <3>2. MayRewind(line, stateFinal, Len(line))
      BY <1>1, HeadOnPrefix
    <3> QED
      BY <1>1, <1>2, <1>3, <3>1, <3>2
  <2> QED
    BY <2>1, <2>2
<1>5. PICK g \in DOMAIN store : kept = store[g].line
  BY <1>1, <1>4
<1>6. /\ \E h \in DOMAIN store : new = store[h].line
      /\ IsPrefix(kept, new)
      /\ Applicable(new, held) = {}
      /\ \A i \in Len(kept) + 1 .. Len(new) : new[i] \in held
  <2>1. DrainEnds(store, store[g].line, held)
    BY GrownLine
  <2>2. DrainEnds(store, kept, held)
    BY <1>5, <2>1
  <2> HIDE DEF kept
  <2> QED
    BY <2>2 DEF DrainEnds
<1>7. TreeLine(new) /\ new \in Seq(Hash) /\ kept \in Seq(Hash) /\ Len(new) \in Nat /\ Len(kept) \in Nat
  BY <1>5, <1>6, StoredLine DEF TreeLine
<1>8. SubSeq(kept, 1, Len(kept)) = kept /\ SubSeq(new, 1, Len(new)) = new
  BY <1>7, SubSeqFull
<1>9. Len(kept) <= Len(new) /\ SubSeq(new, 1, Len(kept)) = kept
  BY <1>6, <1>8 DEF IsPrefix
<1>10. Len(new) = Len(kept) => new = line
  BY <1>4, <1>6, <1>8, <1>9
<1>11. GoesOn(line, Len(kept), new)
  BY <1>1, <1>4, <1>7, <1>9 DEF GoesOn
<1> QED
  BY <1>4, <1>6, <1>10, <1>11 DEF n, DrainGoesOn

-----------------------------------------------------------------------------
(* Replaying what a drain wrote.                                           *)

\* What a replay has rebuilt when it refused nothing.
Rebuilt(line, f) == [line |-> line, final |-> f, ok |-> TRUE]

\* apply_logged_block finds the block the live node went back to, however far.
LEMMA LoggedBlockRewinds ==
    ASSUME NEW line, TreeLine(line), NEW new, TreeLine(new), NEW f,
           NEW n \in 1 .. Len(line), n < Len(new),
           SubSeq(new, 1, n) = SubSeq(line, 1, n), MayRewind(line, f, n)
    PROVE  LoggedRecord(Rebuilt(line, f), [kind |-> "block", hash |-> new[n + 1]])
              = Rebuilt(SubSeq(new, 1, n + 1), f)
<1> DEFINE h == new[n + 1]
           s == Rebuilt(line, f)
           parents == {i \in DOMAIN s.line : s.line[i] = PrevIn(h)}
<1>1. /\ line \in Seq(Hash) /\ new \in Seq(Hash) /\ Len(line) \in Nat /\ Len(new) \in Nat
      /\ DOMAIN line = 1 .. Len(line)
  BY DEF TreeLine
<1>2. n + 1 \in 2 .. Len(new) /\ (n + 1) - 1 = n
  BY <1>1
<1>3. PrevIn(h) = new[n]
  BY <1>2 DEF TreeLine
<1>4. new[n] = line[n]
  <2>1. SubSeq(new, 1, n)[n] = new[n] /\ SubSeq(line, 1, n)[n] = line[n]
    BY <1>1
  <2> QED
    BY <2>1
<1>5. parents = {n}
  <2>1. \A i \in 1 .. Len(line) : line[i] = line[n] => i = n
    BY OnePlace
  <2> QED
    BY <1>1, <1>3, <1>4, <2>1 DEF Rebuilt
<1>6. Max(parents) = n
  BY <1>5 DEF Max
<1>7. LoggedBlock(s, h) = [s EXCEPT !.line = Append(SubSeq(line, 1, n), h)]
  BY <1>5, <1>6 DEF LoggedBlock, Rebuilt
<1>8. SubSeq(new, 1, n + 1) = Append(SubSeq(new, 1, n), h)
  <2>1. n + 1 \in 1 .. Len(new)
    BY <1>2
  <2> QED
    BY <1>1, <2>1, SubSeqRecursiveSecond
<1>9. LoggedBlock(s, h) = Rebuilt(SubSeq(new, 1, n + 1), f)
  BY <1>7, <1>8 DEF Rebuilt
<1> QED
  BY <1>9 DEF LoggedRecord, Rebuilt

\* The replay follows a drain record by record.
LEMMA ReplayFollowsDrain ==
    ASSUME NEW line, NEW n, NEW new, GoesOn(line, n, new),
           NEW records \in Seq(Record), Replayed(records) = Rebuilt(line, stateFinal)
    PROVE  \A k \in 1 .. Len(new) - n :
              Replayed(records \o SubSeq(BlockRecords(new, n), 1, k))
                 = Rebuilt(SubSeq(new, 1, n + k), stateFinal)
<1> DEFINE recs == BlockRecords(new, n)
           Part(k) == records \o SubSeq(recs, 1, k)
           At(k) == IF k = 0 THEN line ELSE SubSeq(new, 1, n + k)
           S == {k \in Nat : k <= Len(new) - n => Replayed(Part(k)) = Rebuilt(At(k), stateFinal)}
<1>1. /\ TreeLine(line) /\ TreeLine(new) /\ n \in 1 .. Len(line) /\ n <= Len(new)
      /\ SubSeq(new, 1, n) = SubSeq(line, 1, n) /\ MayRewind(line, stateFinal, n)
  BY DEF GoesOn
<1>2. line \in Seq(Hash) /\ new \in Seq(Hash) /\ Len(line) \in Nat /\ Len(new) \in Nat /\ n \in Nat
  BY <1>1 DEF TreeLine
<1>3. recs \in Seq(Record) /\ Len(recs) = Len(new) - n
      /\ \A i \in 1 .. Len(new) - n : recs[i] = [kind |-> "block", hash |-> new[n + i]]
  <2>1. Len(new) - n \in Nat /\ \A i \in 1 .. Len(new) - n : n + i \in 1 .. Len(new)
    BY <1>1, <1>2
  <2>2. \A i \in 1 .. Len(new) - n : [kind |-> "block", hash |-> new[n + i]] \in Record
    BY <1>2, <2>1 DEF Record
  <2> QED
    BY <2>1, <2>2 DEF BlockRecords
<1> HIDE DEF recs
<1>4. 0 \in S
  <2>1. SubSeq(recs, 1, 0) = << >>
    BY <1>3, SubSeqEmpty
  <2>2. Part(0) = records
    BY <2>1, ConcatEmptySeq
  <2> HIDE DEF Part
  <2> QED
    BY <2>2
<1>5. ASSUME NEW k \in Nat, k \in S PROVE k + 1 \in S
  <2> SUFFICES ASSUME k + 1 <= Len(new) - n
               PROVE  Replayed(Part(k + 1)) = Rebuilt(At(k + 1), stateFinal)
    OBVIOUS
  <2>1. Replayed(Part(k)) = Rebuilt(At(k), stateFinal)
    BY <1>2, <1>5
  <2> HIDE DEF S
  <2>2. Part(k) \in Seq(Record) /\ recs[k + 1] \in Record /\ Part(k + 1) = Append(Part(k), recs[k + 1])
    <3>1. k + 1 \in 1 .. Len(recs) /\ k \in 0 .. Len(recs)
      BY <1>2, <1>3
    <3>2. SubSeq(recs, 1, k + 1) = Append(SubSeq(recs, 1, k), recs[k + 1])
      BY <1>3, <3>1, SubSeqRecursiveSecond
    <3>3. SubSeq(recs, 1, k) \in Seq(Record) /\ recs[k + 1] \in Record
      BY <1>3, <3>1
    <3> DEFINE a == SubSeq(recs, 1, k)
    <3> HIDE DEF a
    <3>4. a \in Seq(Record) /\ records \o Append(a, recs[k + 1]) = Append(records \o a, recs[k + 1])
      BY <3>3 DEF a
    <3>5. records \o a \in Seq(Record)
      BY <3>4, ConcatProperties
    <3> QED
      BY <3>2, <3>3, <3>4, <3>5 DEF a
  <2>3. Replayed(Part(k + 1)) = LoggedRecord(Rebuilt(At(k), stateFinal), recs[k + 1])
    BY <2>1, <2>2, ReplayedAppend
  <2>4. recs[k + 1] = [kind |-> "block", hash |-> new[n + k + 1]] /\ At(k + 1) = SubSeq(new, 1, n + k + 1)
    <3>1. k + 1 \in 1 .. Len(new) - n /\ n + (k + 1) = n + k + 1 /\ k + 1 # 0
      BY <1>2
    <3> QED
      BY <1>3, <3>1
  <2> HIDE DEF Part
  <2>5. CASE k = 0
    <3>1. At(k) = line /\ n + k = n /\ n < Len(new)
      BY <1>2, <2>5
    <3> HIDE DEF At
    <3>2. LoggedRecord(Rebuilt(line, stateFinal), [kind |-> "block", hash |-> new[n + 1]])
            = Rebuilt(SubSeq(new, 1, n + 1), stateFinal)
      BY <1>1, <3>1, LoggedBlockRewinds
    <3> QED
      BY <2>3, <2>4, <3>1, <3>2
  <2>6. CASE k # 0
    <3> DEFINE m == n + k
               cur == SubSeq(new, 1, m)
    <3>1. At(k) = cur /\ m \in 1 .. Len(new) /\ m < Len(new) /\ n <= m
      BY <1>2, <2>6
    <3> HIDE DEF At, m
    <3>2. TreeLine(cur) /\ Len(cur) = m
      BY <1>1, <3>1, PrefixLine
    <3>3. SubSeq(new, 1, m) = SubSeq(cur, 1, m)
      <4>1. cur \in Seq(Hash)
        BY <3>2 DEF TreeLine
      <4> HIDE DEF cur
      <4>2. SubSeq(cur, 1, m) = cur
        BY <3>2, <4>1, SubSeqFull
      <4> QED
        BY <4>2 DEF cur
    <3>4. MayRewind(cur, stateFinal, m)
      <4> SUFFICES ASSUME stateFinal # NoHash PROVE stateFinal \in ToSet(cur)
        BY <3>3 DEF MayRewind
      <4>1. stateFinal \in ToSet(SubSeq(new, 1, n))
        BY <1>1 DEF MayRewind
      <4>2. PICK i \in DOMAIN SubSeq(new, 1, n) : stateFinal = SubSeq(new, 1, n)[i]
        BY <4>1 DEF ToSet
      <4>3. i \in 1 .. n /\ stateFinal = new[i]
        BY <1>1, <1>2, <4>2
      <4>4. i \in DOMAIN cur /\ cur[i] = new[i]
        BY <1>2, <3>1, <4>3
      <4> QED
        BY <4>3, <4>4 DEF ToSet
    <3>5. m \in 1 .. Len(cur)
      BY <3>1, <3>2
    <3> HIDE DEF cur
    <3>6. LoggedRecord(Rebuilt(cur, stateFinal), [kind |-> "block", hash |-> new[m + 1]])
            = Rebuilt(SubSeq(new, 1, m + 1), stateFinal)
      BY <1>1, <3>1, <3>2, <3>3, <3>4, <3>5, LoggedBlockRewinds
    <3>7. At(k) = cur
      BY <3>1 DEF cur
    <3> QED
      BY <2>3, <2>4, <3>6, <3>7 DEF m
  <2> QED
    BY <2>5, <2>6
<1> HIDE DEF S
<1>6. Nat \subseteq S
  BY <1>4, <1>5, SetInduction
<1>7. ASSUME NEW k \in 1 .. Len(new) - n
      PROVE  Replayed(Part(k)) = Rebuilt(SubSeq(new, 1, n + k), stateFinal)
  <2>1. k \in S /\ k # 0 /\ k <= Len(new) - n
    BY <1>2, <1>6
  <2> QED
    BY <2>1 DEF S
<1> QED
  BY <1>7 DEF recs

\* sync_state_finality logs the head it sets.
LEMMA ReplayFinality ==
    ASSUME NEW records \in Seq(Record), NEW line, NEW cp \in Hash \cup {NoHash},
           Replayed(records) = Rebuilt(line, stateFinal)
    PROVE  /\ records \o FinalityRecord(cp, line) \in Seq(Record)
           /\ Replayed(records \o FinalityRecord(cp, line))
                 = Rebuilt(line, FinalAfter(FinalityRecord(cp, line)))
<1> DEFINE r == [kind |-> "finalize", hash |-> cp]
<1>1. CASE FinalityRecord(cp, line) = << >>
  <2>1. records \o << >> = records
    BY ConcatEmptySeq
  <2>2. FinalAfter(<< >>) = stateFinal
    BY DEF FinalAfter
  <2> QED
    BY <1>1, <2>1, <2>2
<1>2. CASE FinalityRecord(cp, line) # << >>
  <2>1. FinalityRecord(cp, line) = <<r>> /\ cp # NoHash /\ Finalizes(line, stateFinal, cp)
    BY <1>2 DEF FinalityRecord
  <2>2. r \in Record
    BY <2>1 DEF Record
  <2>3. records \o <<r>> = Append(records, r) /\ Append(records, r) \in Seq(Record)
    BY <2>2, AppendIsConcat, AppendProperties
  <2>4. FinalAfter(<<r>>) = cp
    BY DEF FinalAfter
  <2>5. LoggedRecord(Rebuilt(line, stateFinal), r) = Rebuilt(line, cp)
    BY <2>1 DEF LoggedRecord, LoggedFinalize, Rebuilt
  <2>6. Replayed(Append(records, r)) = LoggedRecord(Rebuilt(line, stateFinal), r)
    BY <2>2, ReplayedAppend
  <2> HIDE DEF r
  <2> QED
    BY <2>1, <2>3, <2>4, <2>5, <2>6
<1> QED
  BY <1>1, <1>2

\* The records of a drain replay to what the drain leaves, and those before a crash to
\* a part of it.
DrainReplays(records, n, new, cp) ==
    LET final == FinalityRecord(cp, new)
        all == BlockRecords(new, n) \o final
    IN  /\ records \o all \in Seq(Record)
        /\ Replayed(records \o all) = Rebuilt(new, FinalAfter(final))
        /\ \A k \in 1 .. Len(all) - 1 :
              /\ records \o SubSeq(all, 1, k) \in Seq(Record)
              /\ \E m \in n + 1 .. Len(new) :
                    Replayed(records \o SubSeq(all, 1, k)) = Rebuilt(SubSeq(new, 1, m), stateFinal)

\* A log that ends with all the records of a drain, or with some of them, rebuilds
\* what the drain made of the state, or had made of it by then.
LEMMA ReplayDrain ==
    ASSUME NEW line, NEW n, NEW new, GoesOn(line, n, new), Len(new) = n => new = line,
           NEW records \in Seq(Record), Replayed(records) = Rebuilt(line, stateFinal),
           NEW cp \in Hash \cup {NoHash}
    PROVE  DrainReplays(records, n, new, cp)
<1> DEFINE recs == BlockRecords(new, n)
           final == FinalityRecord(cp, new)
           all == recs \o final
<1>1. /\ new \in Seq(Hash) /\ Len(new) \in Nat /\ n \in Nat /\ n <= Len(new) /\ n >= 1
  BY DEF GoesOn, TreeLine
<1>2. recs \in Seq(Record) /\ Len(recs) = Len(new) - n
  <2>1. Len(new) - n \in Nat /\ \A i \in 1 .. Len(new) - n : n + i \in 1 .. Len(new)
    BY <1>1
  <2>2. \A i \in 1 .. Len(new) - n : [kind |-> "block", hash |-> new[n + i]] \in Record
    BY <1>1, <2>1 DEF Record
  <2> QED
    BY <2>1, <2>2 DEF BlockRecords
<1>3. final \in Seq(Record) /\ Len(final) \in 0 .. 1
  <2>1. CASE final = << >>
    BY <2>1, EmptySeq
  <2>2. CASE final # << >>
    <3>1. final = <<[kind |-> "finalize", hash |-> cp]>> /\ cp # NoHash
      BY <2>2 DEF FinalityRecord
    <3>2. [kind |-> "finalize", hash |-> cp] \in Record
      BY <3>1 DEF Record
    <3> HIDE DEF final
    <3> QED
      BY <3>1, <3>2
  <2> QED
    BY <2>1, <2>2
<1>4. \A k \in 1 .. Len(new) - n :
         Replayed(records \o SubSeq(recs, 1, k)) = Rebuilt(SubSeq(new, 1, n + k), stateFinal)
  BY ReplayFollowsDrain
<1> HIDE DEF recs
<1>5. records \o recs \in Seq(Record) /\ Replayed(records \o recs) = Rebuilt(new, stateFinal)
  <2>1. records \o recs \in Seq(Record)
    BY <1>2, ConcatProperties
  <2>2. CASE Len(new) = n
    <3>1. recs = << >>
      BY <1>1, <1>2, <2>2, EmptySeq
    <3>2. records \o recs = records
      BY <3>1, ConcatEmptySeq
    <3> QED
      BY <2>1, <2>2, <3>2
  <2>3. CASE Len(new) # n
    <3>1. Len(new) - n \in 1 .. Len(new) - n /\ n + (Len(new) - n) = Len(new)
      BY <1>1, <2>3
    <3>2. SubSeq(recs, 1, Len(new) - n) = recs /\ SubSeq(new, 1, Len(new)) = new
      BY <1>1, <1>2, SubSeqFull
    <3> QED
      BY <1>4, <2>1, <3>1, <3>2
  <2> QED
    BY <2>2, <2>3
<1> HIDE DEF final
<1>6. /\ records \o all \in Seq(Record)
      /\ Replayed(records \o all) = Rebuilt(new, FinalAfter(final))
  <2>1. records \o (recs \o final) = (records \o recs) \o final
    BY <1>2, <1>3, ConcatAssociative
  <2>2. /\ (records \o recs) \o final \in Seq(Record)
        /\ Replayed((records \o recs) \o final) = Rebuilt(new, FinalAfter(final))
    BY <1>5, ReplayFinality DEF final
  <2> QED
    BY <2>1, <2>2
<1>7. ASSUME NEW k \in 1 .. Len(all) - 1
      PROVE  /\ records \o SubSeq(all, 1, k) \in Seq(Record)
             /\ \E m \in n + 1 .. Len(new) :
                   Replayed(records \o SubSeq(all, 1, k)) = Rebuilt(SubSeq(new, 1, m), stateFinal)
  <2>1. Len(all) = Len(recs) + Len(final) /\ all \in Seq(Record)
    BY <1>2, <1>3, ConcatProperties
  <2>2. k \in 1 .. Len(recs) /\ k \in 1 .. Len(new) - n /\ n + k \in n + 1 .. Len(new)
    <3> HIDE DEF all
    <3>1. Len(recs) \in Nat /\ Len(final) <= 1 /\ Len(final) \in Nat
      <4>1. Len(recs) \in Nat
        BY <1>2, LenProperties
      <4>2. \A x \in 0 .. 1 : x \in Nat /\ x <= 1
        OBVIOUS
      <4> QED
        BY <1>3, <4>1, <4>2
    <3>2. k >= 1 /\ k <= Len(recs) /\ k \in Nat
      BY <2>1, <3>1
    <3> QED
      BY <1>1, <1>2, <3>2
  <2>3. SubSeq(all, 1, k) = SubSeq(recs, 1, k)
    BY <1>2, <1>3, <2>2, SubSeqOfConcat1
  <2>4. SubSeq(recs, 1, k) \in Seq(Record)
    BY <1>2, <2>2
  <2>5. records \o SubSeq(recs, 1, k) \in Seq(Record)
    BY <2>4, ConcatProperties
  <2> HIDE DEF all
  <2> QED
    BY <1>4, <2>2, <2>3, <2>5
<1> QED
  BY <1>6, <1>7 DEF recs, final, DrainReplays

-----------------------------------------------------------------------------
(* Opening.                                                                *)

\* The entries open_for rebuilds for the blocks of a line.
LEMMA RebuiltEntry ==
    ASSUME NEW line, TreeLine(line), blocks[Genesis].work \in Nat, NEW i \in 1 .. Len(line)
    PROVE  LET e == EntryOf(SubSeq(line, 1, i)) IN
           /\ e \in Entry
           /\ e.prev = PrevIn(line[i]) /\ e.height = i - 1 /\ e.line = SubSeq(line, 1, i)
<1> DEFINE p == SubSeq(line, 1, i)
<1>1. /\ TreeLine(p) /\ Len(p) = i /\ Last(p) = line[i] /\ p \in Seq(Hash) /\ i >= 1 /\ i - 1 \in Nat
      /\ line[i] \in Hash
  BY PrefixLine DEF TreeLine
<1> HIDE DEF p
<1>2. Tail(p) \in Seq(Hash \ {Genesis})
  <2>1. p # << >>
    BY <1>1
  <2>2. /\ Tail(p) \in Seq(Hash) /\ Len(Tail(p)) = i - 1
        /\ \A j \in 1 .. Len(Tail(p)) : Tail(p)[j] = p[j + 1]
    BY <1>1, <2>1, HeadTailProperties
  <2>3. ASSUME NEW j \in 1 .. i - 1 PROVE Tail(p)[j] \in Hash \ {Genesis}
    <3>1. j + 1 \in 1 .. Len(p) /\ j \in Nat /\ j >= 1
      BY <1>1
    <3>2. HeightIn(p[j + 1]) = (j + 1) - 1 /\ p[j + 1] \in Hash
      BY <1>1, <3>1 DEF TreeLine
    <3>3. p[j + 1] # Genesis
      BY <3>1, <3>2, HeightIsNatural
    <3> QED
      BY <2>2, <3>2, <3>3
  <2> DEFINE q == Tail(p)
  <2> HIDE DEF q
  <2>4. q \in Seq(Hash) /\ Len(q) = i - 1 /\ \A j \in 1 .. Len(q) : q[j] \in Hash \ {Genesis}
    BY <2>2, <2>3 DEF q
  <2>5. q \in Seq(Hash \ {Genesis})
    BY <2>4
  <2> QED
    BY <2>5 DEF q
<1>3. EntryOf(p).work \in Nat
  BY <1>2, EntryWork
<1>4. EntryOf(p).prev = PrevIn(line[i]) /\ EntryOf(p).height = i - 1 /\ EntryOf(p).line = p
  BY <1>1 DEF EntryOf
<1>5. PrevIn(line[i]) \in Hash \cup {NoHash}
  BY <1>1, HeightIsNatural
<1>6. EntryOf(p) = [prev |-> EntryOf(p).prev, height |-> EntryOf(p).height,
                    work |-> EntryOf(p).work, line |-> EntryOf(p).line]
  BY DEF EntryOf
<1> DEFINE e == EntryOf(p)
<1> HIDE DEF e
<1>7. /\ e = [prev |-> e.prev, height |-> e.height, work |-> e.work, line |-> e.line]
      /\ e.prev \in Hash \cup {NoHash} /\ e.height \in Nat /\ e.work \in Nat /\ e.line \in Seq(Hash)
  BY <1>1, <1>3, <1>4, <1>5, <1>6 DEF e
<1>8. e \in Entry
  BY <1>7 DEF Entry
<1> QED
  BY <1>4, <1>8 DEF e, p

\* The store open_for rebuilds from a line holds the blocks of that line.
LEMMA RebuiltStore ==
    ASSUME NEW line, TreeLine(line), blocks[Genesis].work \in Nat,
           NEW store, store = [h \in ToSet(line) |-> EntryOf(SubSeq(line, 1, HeightIn(h) + 1))]
    PROVE  /\ StoreOK(store) /\ Matches(store)
           /\ \A i \in 1 .. Len(line) :
                 line[i] \in DOMAIN store /\ store[line[i]].line = SubSeq(line, 1, i)
           /\ DOMAIN store = ToSet(line)
<1>1. line \in Seq(Hash) /\ Len(line) \in Nat /\ Len(line) >= 1 /\ DOMAIN line = 1 .. Len(line)
  BY DEF TreeLine
<1>2. DOMAIN store = ToSet(line) /\ ToSet(line) = {line[i] : i \in 1 .. Len(line)}
  BY <1>1 DEF ToSet
<1>3. ASSUME NEW i \in 1 .. Len(line)
      PROVE  /\ line[i] \in DOMAIN store /\ line[i] \in Hash /\ store[line[i]] \in Entry
             /\ store[line[i]].prev = PrevIn(line[i]) /\ store[line[i]].height = i - 1
             /\ store[line[i]].line = SubSeq(line, 1, i)
             /\ HeightIn(line[i]) = i - 1
  <2>1. HeightIn(line[i]) = i - 1 /\ (i - 1) + 1 = i /\ line[i] \in Hash
    BY <1>1 DEF TreeLine
  <2>2. line[i] \in DOMAIN store /\ store[line[i]] = EntryOf(SubSeq(line, 1, i))
    BY <1>2, <2>1
  <2> QED
    BY <2>1, <2>2, RebuiltEntry
<1>4. Matches(store) /\ DOMAIN store \subseteq Hash /\ store \in [DOMAIN store -> Entry]
  <2>1. store = [h \in DOMAIN store |-> store[h]]
    OBVIOUS
  <2>2. ASSUME NEW h \in DOMAIN store
        PROVE  h \in Hash /\ store[h] \in Entry /\ store[h].prev = PrevIn(h) /\ store[h].height = HeightIn(h)
    <3>1. PICK i \in 1 .. Len(line) : h = line[i]
      BY <1>2
    <3> QED
      BY <1>3, <3>1
  <2>3. Matches(store)
    BY <2>2 DEF Matches
  <2>4. DOMAIN store \subseteq Hash
    BY <2>2
  <2>5. store \in [DOMAIN store -> Entry]
    BY <2>1, <2>2
  <2> QED
    BY <2>3, <2>4, <2>5
<1>5. TreeOK(store)
  <2> SUFFICES ASSUME NEW h \in DOMAIN store
               PROVE  /\ Len(store[h].line) = store[h].height + 1
                      /\ store[h].line[1] = Genesis
                      /\ store[h].line[Len(store[h].line)] = h
                      /\ store[h].prev # NoHash =>
                            /\ store[h].prev \in DOMAIN store
                            /\ store[h].line = Append(store[store[h].prev].line, h)
                      /\ \A i \in 1 .. Len(store[h].line) :
                            /\ store[h].line[i] \in DOMAIN store
                            /\ store[store[h].line[i]].line = SubSeq(store[h].line, 1, i)
    BY DEF TreeOK
  <2>1. PICK i \in 1 .. Len(line) : h = line[i]
    BY <1>2
  <2> DEFINE p == SubSeq(line, 1, i)
  <2>2. /\ p \in Seq(Hash) /\ Len(p) = i /\ \A j \in 1 .. i : p[j] = line[j] /\ j \in 1 .. Len(line)
        /\ i \in Nat /\ i >= 1
    BY <1>1
  <2>3. store[h].line = p /\ store[h].height = i - 1 /\ store[h].prev = PrevIn(h)
    BY <1>3, <2>1
  <2> HIDE DEF p
  <2>4. p[1] = Genesis /\ p[i] = h
    BY <2>1, <2>2 DEF TreeLine
  <2>5. ASSUME PrevIn(h) # NoHash
        PROVE  PrevIn(h) \in DOMAIN store /\ p = Append(store[PrevIn(h)].line, h)
    <3>1. i # 1
      BY <2>1, <2>5, HeightIsNatural DEF TreeLine
    <3>2. i \in 2 .. Len(line) /\ i - 1 \in 1 .. Len(line)
      BY <1>1, <3>1
    <3>3. PrevIn(h) = line[i - 1]
      BY <2>1, <3>2 DEF TreeLine
    <3>4. store[line[i - 1]].line = SubSeq(line, 1, i - 1) /\ line[i - 1] \in DOMAIN store
      BY <1>3, <3>2
    <3>5. p = Append(SubSeq(line, 1, i - 1), line[i])
      <4>1. (i - 1) + 1 = i
        BY <2>2
      <4> QED
        BY <1>1, <3>2, <4>1, SubSeqRecursiveSecond DEF p
    <3> QED
      BY <2>1, <3>3, <3>4, <3>5
  <2>6. ASSUME NEW j \in 1 .. i
        PROVE  p[j] \in DOMAIN store /\ store[p[j]].line = SubSeq(p, 1, j)
    <3>1. p[j] = line[j] /\ j \in 1 .. Len(line)
      BY <2>2
    <3>2. SubSeq(p, 1, j) = SubSeq(line, 1, j)
      BY <1>1, <2>2 DEF p
    <3> QED
      BY <1>3, <3>1, <3>2
  <2>7. Len(store[h].line) = i /\ i = (i - 1) + 1
    BY <2>2, <2>3
  <2>8. /\ Len(store[h].line) = store[h].height + 1
        /\ store[h].line[1] = Genesis
        /\ store[h].line[Len(store[h].line)] = h
    BY <2>3, <2>4, <2>7
  <2>9. store[h].prev # NoHash =>
            /\ store[h].prev \in DOMAIN store
            /\ store[h].line = Append(store[store[h].prev].line, h)
    BY <2>3, <2>5
  <2>10. \A j \in 1 .. Len(store[h].line) :
            /\ store[h].line[j] \in DOMAIN store
            /\ store[store[h].line[j]].line = SubSeq(store[h].line, 1, j)
    BY <2>3, <2>6, <2>7
  <2> QED
    BY <2>8, <2>9, <2>10
<1> QED
  BY <1>2, <1>3, <1>4, <1>5 DEF StoreOK

-----------------------------------------------------------------------------
(* The invariant.                                                          *)

\* The applied chain is the line of a known block.
AppliedStored == \E h \in Known : applied = blocks[h].line

\* A restart rebuilds the state machine.
LogOK == log \in Seq(Record) /\ Replayed(log) = Rebuilt(applied, stateFinal)

\* A head f of the state machine is applied, and not above the committee's cp.
HeadFits(f, cp, line) ==
    /\ cp \in Hash \cup {NoHash}
    /\ f # NoHash => /\ f \in ToSet(line)
                     /\ f = cp \/ (cp # NoHash /\ HeightIn(f) < HeightIn(cp))

\* What holds of the heads of a node, whatever of its records reaches the disk.
HInv ==
    /\ IInv
    /\ Matches(blocks)
    /\ AppliedStored
    /\ pending \subseteq Known
    /\ HeadFits(stateFinal, latest, applied)
    /\ StateFinalityFollows

\* The inductive invariant of a node whose disk accepts its records.
NInv == HInv /\ LogOK

\* Every append reaches the file.
DiskHolds == DiskFails = {}

LEMMA LogGrows ==
    ASSUME DiskHolds, NEW records, WriteLog(records)
    PROVE  log' = log \o records
<1>1. \A l \in SUBSET {r \in ToSet(records) : r.kind \in DiskFails} : l = {}
  BY DEF DiskHolds
<1>2. \A kept \in Appended(records) : kept = records
  BY <1>1 DEF Appended, Surviving
<1> QED
  BY <1>2 DEF WriteLog

\* sync_state_finality keeps the head on the applied chain and brings it to the
\* committee's checkpoint when that is applied.
LEMMA HeadFollows ==
    ASSUME NEW line, TreeLine(line), NEW cp, HeadFits(stateFinal, cp, line),
           NEW f, f = FinalAfter(FinalityRecord(cp, line))
    PROVE  HeadFits(f, cp, line) /\ (cp \in ToSet(line) => f = cp)
<1>1. ToSet(line) \subseteq Hash
  BY DEF TreeLine, ToSet
<1>2. CASE FinalityRecord(cp, line) = << >>
  <2>1. f = stateFinal
    BY <1>2 DEF FinalAfter
  <2>2. ASSUME cp \in ToSet(line) PROVE stateFinal = cp
    <3>1. cp # NoHash /\ cp \in Hash
      BY <1>1, <2>2, NoHashAssumption
    <3>2. ~ /\ stateFinal # NoHash => HeightIn(stateFinal) # HeightIn(cp)
            /\ Finalizes(line, stateFinal, cp)
      BY <1>2, <3>1 DEF FinalityRecord
    <3>3. CASE stateFinal = NoHash
      BY <2>2, <3>2, <3>3 DEF Finalizes
    <3>4. CASE stateFinal # NoHash
      <4>1. stateFinal \in Hash
        BY <1>1, <3>4 DEF HeadFits
      <4>2. HeightIn(stateFinal) \in Nat /\ HeightIn(cp) \in Nat
        BY <3>1, <4>1, HeightIsNatural, MaxHeightAssumption
      <4> QED
        BY <2>2, <3>2, <3>4, <4>2 DEF Finalizes, HeadFits
    <3> QED
      BY <3>3, <3>4
  <2> QED
    BY <2>1, <2>2
<1>3. CASE FinalityRecord(cp, line) # << >>
  <2>1. FinalityRecord(cp, line) = <<[kind |-> "finalize", hash |-> cp]>> /\ cp \in ToSet(line)
    BY <1>3 DEF FinalityRecord, Finalizes
  <2>2. f = cp
    BY <2>1 DEF FinalAfter
  <2> QED
    BY <2>1, <2>2 DEF HeadFits
<1> QED
  BY <1>2, <1>3

\* A drain keeps the head on the line.
LEMMA HeadKept ==
    ASSUME NEW line, NEW n, NEW new, GoesOn(line, n, new), NEW m \in n .. Len(new),
           stateFinal # NoHash
    PROVE  stateFinal \in ToSet(SubSeq(new, 1, m)) /\ stateFinal \in ToSet(new)
<1>1. /\ new \in Seq(Hash) /\ Len(new) \in Nat /\ n \in Nat /\ n >= 1 /\ n <= Len(new)
      /\ SubSeq(new, 1, n) = SubSeq(line, 1, n) /\ stateFinal \in ToSet(SubSeq(line, 1, n))
  BY DEF GoesOn, TreeLine, MayRewind
<1>2. PICK i \in DOMAIN SubSeq(new, 1, n) : stateFinal = SubSeq(new, 1, n)[i]
  BY <1>1 DEF ToSet
<1>3. i \in 1 .. n /\ stateFinal = new[i]
  BY <1>1, <1>2
<1>4. i \in DOMAIN new /\ i \in DOMAIN SubSeq(new, 1, m) /\ SubSeq(new, 1, m)[i] = new[i]
  BY <1>1, <1>3
<1> QED
  BY <1>3, <1>4 DEF ToSet

LEMMA NodeInitNInv == NodeInit => NInv
<1> SUFFICES ASSUME NodeInit PROVE NInv
  OBVIOUS
<1>1. IInv
  BY InitIInv DEF NodeInit
<1>2. PICK d \in Difficulties :
        blocks = [h \in {Genesis} |->
                     [prev |-> NoHash, height |-> 0, work |-> d, line |-> <<Genesis>>]]
  BY DEF NodeInit, Init
<1>3. /\ DOMAIN blocks = {Genesis} /\ blocks[Genesis].prev = NoHash
      /\ blocks[Genesis].height = 0 /\ blocks[Genesis].line = <<Genesis>>
  BY <1>2
<1>4. Matches(blocks)
  BY <1>3, HeightIsNatural DEF Matches
<1>5. AppliedStored /\ pending \subseteq Known
  BY <1>3 DEF AppliedStored, Known, NodeInit
<1>6. LogOK
  <2>1. << >> \in Seq(Record)
    OBVIOUS
  <2> QED
    BY <2>1, ReplayedEmpty DEF LogOK, NodeInit, Opening, Rebuilt
<1>7. HeadFits(stateFinal, latest, applied) /\ StateFinalityFollows
  BY DEF HeadFits, StateFinalityFollows, NodeInit
<1> QED
  BY <1>1, <1>4, <1>5, <1>6, <1>7 DEF NInv, HInv

\* A header that is learned, or known already, leaves every entry in place.
LEMMA LearnedHeader ==
    ASSUME IInv, Matches(blocks), NEW h \in Hash \ {Genesis},
           LearnHeader(h) \/ (h \in Known /\ UNCHANGED chainVars)
    PROVE  /\ IInv' /\ Matches(blocks') /\ h \in DOMAIN blocks'
           /\ Known \subseteq DOMAIN blocks' /\ \A g \in Known : blocks'[g] = blocks[g]
<1>1. CASE h \in Known /\ UNCHANGED chainVars
  <2>1. IInv'
    BY <1>1, NextIInv
  <2> QED
    BY <1>1, <2>1 DEF chainVars, Known
<1>2. CASE LearnHeader(h)
  <2> DEFINE p == Tree[h].prev
             d == Tree[h].difficulty
             k == Tree[h].height
  <2>1. k \in 0 .. MaxHeight /\ d \in Difficulties
    BY TreeAssumption, MaxHeightAssumption
  <2>2. InsertHeader(h, p, k, d) /\ p \in Known /\ h \notin Known /\ k = HeightOf(p) + 1
    BY <1>2 DEF LearnHeader, InsertHeader
  <2>3. IInv'
    BY <2>1, <2>2, InsertHeaderIInv
  <2>4. StoreOK(blocks)
    BY DEF IInv, TypeOK, StoreOK
  <2>5. blocks' = Linked(h, p, d)
    BY <2>2 DEF InsertHeader
  <2>6. /\ DOMAIN blocks' = Known \cup {h} /\ \A g \in Known : blocks'[g] = blocks[g]
    BY <2>2, <2>5 DEF Linked, Known
  <2>7. blocks'[h].prev = p /\ blocks'[h].height = HeightOf(p) + 1
    BY <2>5 DEF Linked, HeightOf
  <2>8. PrevIn(h) = p /\ HeightIn(h) = k
    BY DEF PrevIn, HeightIn
  <2>9. Matches(blocks')
    BY <2>2, <2>6, <2>7, <2>8 DEF Matches, Known
  <2> QED
    BY <2>3, <2>6, <2>9
<1> QED
  BY <1>1, <1>2

\* What a step does to the state machine: a drain of its applied chain, a head that
\* stays or moves up on it, or neither.
HeadMoves(line, f, g) == g = f \/ Finalizes(line, f, g)
StateStep ==
    \E n \in 1 .. Len(applied) :
        /\ GoesOn(applied, n, applied')
        /\ mainChain' = mainChain => Shared(mainChain, applied) <= n
        /\ HeadMoves(applied', stateFinal, stateFinal')

LEMMA HeadAfter ==
    ASSUME NEW line, NEW cp
    PROVE  HeadMoves(line, stateFinal, FinalAfter(FinalityRecord(cp, line)))
<1>1. CASE FinalityRecord(cp, line) = << >>
  BY <1>1 DEF FinalAfter, HeadMoves
<1>2. CASE FinalityRecord(cp, line) # << >>
  <2>1. FinalityRecord(cp, line) = <<[kind |-> "finalize", hash |-> cp]>> /\ Finalizes(line, stateFinal, cp)
    BY <1>2 DEF FinalityRecord
  <2>2. FinalAfter(<<[kind |-> "finalize", hash |-> cp]>>) = cp
    BY DEF FinalAfter
  <2> QED
    BY <2>1, <2>2 DEF HeadMoves
<1> QED
  BY <1>1, <1>2

LEMMA AppliedLine ==
    ASSUME HInv
    PROVE  TreeLine(applied) /\ TreeLine(mainChain) /\ applied \in Seq(Hash) /\ mainChain \in Seq(Hash)
<1>1. StoreOK(blocks) /\ Matches(blocks) /\ tip \in DOMAIN blocks /\ mainChain = blocks[tip].line
  BY DEF NInv, HInv, IInv, TypeOK, StoreOK, IndexIsTipBranch
<1>2. TreeLine(applied) /\ TreeLine(mainChain)
  BY <1>1, StoredLine DEF NInv, HInv, AppliedStored, Known
<1> QED
  BY <1>2 DEF TreeLine

\* Without a drain the applied chain stays.
LEMMA StaysApplied ==
    ASSUME HInv, applied' = applied, HeadMoves(applied', stateFinal, stateFinal')
    PROVE  StateStep
<1> DEFINE n == Len(applied)
<1>1. TreeLine(applied) /\ TreeLine(mainChain) /\ n \in 1 .. Len(applied)
  BY AppliedLine DEF TreeLine
<1>2. MayRewind(applied, stateFinal, n)
  BY <1>1, HeadOnPrefix DEF NInv, HInv, HeadFits
<1>3. Shared(mainChain, applied) <= n
  <2>1. Shared(mainChain, applied) \in 1 .. Len(applied)
    BY <1>1, SharedPosition
  <2> QED
    BY <1>1, <2>1
<1> HIDE DEF n
<1>4. GoesOn(applied, n, applied)
  <2>1. n <= Len(applied)
    BY <1>1
  <2> QED
    BY <1>1, <1>2, <2>1 DEF GoesOn
<1> QED
  BY <1>1, <1>3, <1>4 DEF StateStep

LEMMA BufferedKnown ==
    ASSUME NEW h, NEW S, pending \subseteq S, h \in S
    PROVE  Buffered(h) \subseteq S
BY DEF Buffered

\* A drain of the applied chain, against a store that holds what the node knows.
LEMMA DrainFrom ==
    ASSUME HInv, NEW store, StoreOK(store), Matches(store), Known \subseteq DOMAIN store,
           \A g \in Known : store[g] = blocks[g],
           NEW head \in DOMAIN store, NEW h \in DOMAIN store
    PROVE  /\ DrainGoesOn(store, store[head].line, applied, Buffered(h))
           /\ Buffered(h) \subseteq DOMAIN store
<1>1. PICK top \in Known : applied = blocks[top].line
  BY DEF NInv, HInv, AppliedStored
<1>2. top \in DOMAIN store /\ applied = store[top].line
  BY <1>1
<1>3. Buffered(h) \subseteq DOMAIN store
  BY BufferedKnown DEF NInv, HInv
<1>4. stateFinal # NoHash => stateFinal \in ToSet(store[top].line)
  BY <1>2 DEF NInv, HInv, HeadFits
<1>5. DrainGoesOn(store, store[head].line, store[top].line, Buffered(h))
  BY <1>2, <1>3, <1>4, DrainLine
<1> QED
  BY <1>2, <1>3, <1>5

LEMMA SubmitHeaderHInv ==
    ASSUME HInv, NEW h \in Hash \ {Genesis}, SubmitHeader(h)
    PROVE  HInv' /\ StateStep
<1>1. /\ IInv' /\ Matches(blocks')
      /\ Known \subseteq DOMAIN blocks' /\ \A g \in Known : blocks'[g] = blocks[g]
  BY LearnedHeader DEF HInv, SubmitHeader
<1>2. UNCHANGED <<latest, applied, stateFinal, log, pending>>
  BY DEF SubmitHeader, stateVars
<1>3. AppliedStored' /\ pending' \subseteq Known'
  BY <1>1, <1>2 DEF HInv, AppliedStored, Known
<1>4. HeadFits(stateFinal, latest, applied)' /\ StateFinalityFollows'
  BY <1>2 DEF HInv, HeadFits, StateFinalityFollows
<1>5. StateStep
  BY <1>2, StaysApplied DEF HeadMoves
<1> QED
  BY <1>1, <1>3, <1>4, <1>5 DEF HInv

\* ingest_block: the header is linked, the body held, and the drain goes on from a
\* prefix of the applied chain.
LEMMA IngestDrains ==
    ASSUME HInv, NEW h \in Hash \ {Genesis}, IngestBlock(h)
    PROVE  /\ IInv' /\ Matches(blocks') /\ latest' = latest
           /\ Buffered(h) \subseteq DOMAIN blocks'
           /\ pending' = {b \in Buffered(h) : WorthHolding(b, applied')}
           /\ stateFinal' = FinalAfter(FinalityRecord(latest, applied'))
           /\ \E n \in 1 .. Len(applied) :
                 /\ GoesOn(applied, n, applied')
                 /\ Len(applied') = n => applied' = applied
                 /\ \E g \in DOMAIN blocks' : applied' = blocks'[g].line
                 /\ Shared(mainChain', applied) <= n
                 /\ \A i \in n + 1 .. Len(applied') : applied'[i] \in Buffered(h)
                 /\ WriteLog(BlockRecords(applied', n) \o FinalityRecord(latest, applied'))
<1>1. /\ IInv' /\ Matches(blocks') /\ h \in DOMAIN blocks'
      /\ Known \subseteq DOMAIN blocks' /\ \A g \in Known : blocks'[g] = blocks[g]
  BY LearnedHeader DEF NInv, HInv, IngestBlock
<1>2. StoreOK(blocks') /\ tip' \in DOMAIN blocks' /\ mainChain' = blocks'[tip'].line
  BY <1>1 DEF IInv, TypeOK, StoreOK, IndexIsTipBranch
<1> DEFINE held == Buffered(h)
           kept == Rejoined(mainChain', applied, held)
           new == Grown(blocks', kept, held)
           n == Len(kept)
<1>3. /\ applied' = new /\ stateFinal' = FinalAfter(FinalityRecord(latest, new))
      /\ pending' = {b \in held : WorthHolding(b, new)}
      /\ WriteLog(BlockRecords(new, n) \o FinalityRecord(latest, new)) /\ latest' = latest
  <2>1. /\ applied' = Drained(kept, new, held).line
        /\ stateFinal' = Drained(kept, new, held).final
        /\ pending' = Drained(kept, new, held).held
        /\ WriteLog(Drained(kept, new, held).records)
        /\ latest' = latest
    BY DEF IngestBlock
  <2> HIDE DEF kept, new, held
  <2> QED
    BY <2>1 DEF Drained, n
<1>4. DrainGoesOn(blocks', blocks'[tip'].line, applied, held) /\ held \subseteq DOMAIN blocks'
  <2>1. ASSUME NEW head \in DOMAIN blocks', NEW g \in DOMAIN blocks'
        PROVE  /\ DrainGoesOn(blocks', blocks'[head].line, applied, Buffered(g))
               /\ Buffered(g) \subseteq DOMAIN blocks'
    BY <1>1, <1>2, DrainFrom
  <2> QED
    BY <1>1, <1>2, <2>1
<1>5. /\ GoesOn(applied, n, new)
      /\ Len(new) = n => new = applied
      /\ \E g \in DOMAIN blocks' : new = blocks'[g].line
      /\ Shared(mainChain', applied) <= n
      /\ \A i \in n + 1 .. Len(new) : new[i] \in held
  BY <1>2, <1>4 DEF DrainGoesOn
<1> HIDE DEF held, kept, new, n
<1>6. n \in 1 .. Len(applied)
  BY <1>5 DEF GoesOn
<1> QED
  BY <1>1, <1>3, <1>4, <1>5, <1>6 DEF held

LEMMA IngestBlockHInv ==
    ASSUME HInv, NEW h \in Hash \ {Genesis}, IngestBlock(h)
    PROVE  HInv' /\ StateStep
<1> DEFINE held == Buffered(h)
           new == applied'
           final == FinalityRecord(latest, new)
<1>1. IInv' /\ Matches(blocks')
  BY IngestDrains
<1>2. PICK n \in 1 .. Len(applied) :
        /\ GoesOn(applied, n, new)
        /\ Len(new) = n => new = applied
        /\ \E g \in DOMAIN blocks' : new = blocks'[g].line
        /\ Shared(mainChain', applied) <= n
        /\ WriteLog(BlockRecords(new, n) \o final)
  BY IngestDrains
<1> DEFINE all == BlockRecords(new, n) \o final
<1>3. /\ applied' = new /\ stateFinal' = FinalAfter(final)
      /\ pending' = {b \in held : WorthHolding(b, new)}
      /\ WriteLog(all) /\ latest' = latest
  BY <1>2, IngestDrains
<1>4. held \subseteq DOMAIN blocks'
  BY IngestDrains
<1>5. /\ GoesOn(applied, n, new)
      /\ Len(new) = n => new = applied
      /\ \E g \in DOMAIN blocks' : new = blocks'[g].line
      /\ Shared(mainChain', applied) <= n
  BY <1>2
<1> HIDE DEF held, new, final, all
<1>6. TreeLine(new) /\ n \in Nat /\ n <= Len(new) /\ Len(new) \in Nat
  <2>1. TreeLine(applied) /\ TreeLine(new) /\ n \in 1 .. Len(applied) /\ n <= Len(new)
    BY <1>5 DEF GoesOn
  <2>2. Len(applied) \in Nat /\ Len(new) \in Nat
    BY <2>1 DEF TreeLine
  <2> QED
    BY <2>1, <2>2
<1>7. AppliedStored' /\ pending' \subseteq Known'
  BY <1>3, <1>4, <1>5 DEF AppliedStored, Known
<1>8. latest \in Hash \cup {NoHash}
  BY DEF HInv, HeadFits
<1>10. HeadFits(stateFinal, latest, applied)' /\ StateFinalityFollows'
  <2>1. HeadFits(stateFinal, latest, new)
    <3>1. Len(new) \in n .. Len(new)
      BY <1>6
    <3> QED
      BY <1>5, <3>1, HeadKept DEF HInv, HeadFits
  <2>2. /\ HeadFits(FinalAfter(final), latest, new)
        /\ latest \in ToSet(new) => FinalAfter(final) = latest
    BY <1>6, <2>1, HeadFollows DEF final
  <2> QED
    BY <1>3, <2>2 DEF HeadFits, StateFinalityFollows
<1>11. StateStep
  <2>1. HeadMoves(new, stateFinal, FinalAfter(final))
    BY HeadAfter DEF final
  <2>2. n \in 1 .. Len(applied)
    BY <1>5 DEF GoesOn
  <2> QED
    BY <1>3, <1>5, <2>1, <2>2 DEF StateStep
<1> QED
  BY <1>1, <1>7, <1>10, <1>11 DEF HInv

LEMMA IngestBlockLog ==
    ASSUME DiskHolds, NInv, NEW h \in Hash \ {Genesis}, IngestBlock(h)
    PROVE  LogOK'
<1> DEFINE new == applied'
           final == FinalityRecord(latest, new)
<1>1. HInv
  BY DEF NInv
<1>2. PICK n \in 1 .. Len(applied) :
        /\ GoesOn(applied, n, new)
        /\ Len(new) = n => new = applied
        /\ WriteLog(BlockRecords(new, n) \o final)
  BY <1>1, IngestDrains
<1> DEFINE all == BlockRecords(new, n) \o final
<1>3. stateFinal' = FinalAfter(final) /\ WriteLog(all)
  BY <1>1, <1>2, IngestDrains
<1>4. latest \in Hash \cup {NoHash}
  BY <1>1 DEF HInv, HeadFits
<1> HIDE DEF final, all
<1>5. log' = log \o all
  BY <1>3, LogGrows
<1>6. log \o all \in Seq(Record) /\ Replayed(log \o all) = Rebuilt(applied', FinalAfter(final))
  <2>1. log \in Seq(Record) /\ Replayed(log) = Rebuilt(applied, stateFinal)
    BY DEF NInv, LogOK
  <2>2. DrainReplays(log, n, new, latest)
    BY <1>2, <1>4, <2>1, ReplayDrain
  <2> QED
    BY <2>2 DEF DrainReplays, all, final
<1> QED
  BY <1>3, <1>5, <1>6 DEF LogOK

LEMMA IngestVotesHInv ==
    ASSUME HInv, NEW cp \in FinalLine, IngestVotes(cp)
    PROVE  HInv' /\ StateStep
<1>1. cp \in Hash
  BY FinalLineAssumption
<1>2. IInv' /\ blocks' = blocks
  <2>1. CASE UNCHANGED chainVars
    BY <2>1, NextIInv DEF HInv, chainVars
  <2>2. CASE SetFinalized(cp)
    BY <1>1, <2>2, SetFinalizedIInv DEF HInv, SetFinalized
  <2> QED
    BY <2>1, <2>2 DEF IngestVotes, AdvanceChainHead
<1> DEFINE record == FinalityRecord(cp, applied)
<1>3. /\ UNCHANGED <<applied, pending>> /\ latest' = cp
      /\ stateFinal' = FinalAfter(record) /\ WriteLog(record)
      /\ latest # NoHash => HeightIn(cp) > HeightIn(latest)
  BY DEF IngestVotes
<1>4. TreeLine(applied)
  <2>1. StoreOK(blocks)
    BY DEF HInv, IInv, TypeOK, StoreOK
  <2> QED
    BY <2>1, StoredLine DEF HInv, AppliedStored, Known
<1>5. Matches(blocks)' /\ AppliedStored' /\ (pending \subseteq Known)'
  BY <1>2, <1>3 DEF HInv, AppliedStored, Matches, Known
<1>7. HeadFits(stateFinal, cp, applied)
  <2> SUFFICES ASSUME stateFinal # NoHash
               PROVE  stateFinal \in ToSet(applied) /\ HeightIn(stateFinal) < HeightIn(cp) /\ cp # NoHash
    BY <1>1 DEF HeadFits
  <2>1. /\ stateFinal \in ToSet(applied) /\ latest \in Hash \cup {NoHash}
        /\ stateFinal = latest \/ (latest # NoHash /\ HeightIn(stateFinal) < HeightIn(latest))
    BY DEF HInv, HeadFits
  <2>2. stateFinal \in Hash
    BY <1>4, <2>1 DEF TreeLine, ToSet
  <2>3. latest \in Hash /\ latest # NoHash
    BY <2>1, <2>2, NoHashAssumption
  <2>4. HeightIn(cp) \in Nat /\ HeightIn(latest) \in Nat /\ HeightIn(stateFinal) \in Nat
    BY <1>1, <2>2, <2>3, HeightIsNatural, MaxHeightAssumption
  <2> QED
    BY <1>1, <1>3, <2>1, <2>3, <2>4, NoHashAssumption
<1>8. HeadFits(FinalAfter(record), cp, applied) /\ (cp \in ToSet(applied) => FinalAfter(record) = cp)
  BY <1>4, <1>7, HeadFollows
<1>9. HeadFits(stateFinal, latest, applied)' /\ StateFinalityFollows'
  <2> HIDE DEF record
  <2> QED
    BY <1>3, <1>8 DEF HeadFits, StateFinalityFollows
<1>10. StateStep
  <2>1. HeadMoves(applied, stateFinal, FinalAfter(record))
    BY HeadAfter
  <2> HIDE DEF record
  <2> QED
    BY <1>3, <2>1, StaysApplied
<1> QED
  BY <1>2, <1>5, <1>9, <1>10 DEF HInv

LEMMA IngestVotesLog ==
    ASSUME DiskHolds, NInv, NEW cp \in FinalLine, IngestVotes(cp)
    PROVE  LogOK'
<1> DEFINE record == FinalityRecord(cp, applied)
<1>1. cp \in Hash
  BY FinalLineAssumption
<1>2. applied' = applied /\ stateFinal' = FinalAfter(record) /\ WriteLog(record)
  BY DEF IngestVotes
<1>3. log' = log \o record
  BY <1>2, LogGrows
<1>4. log \o record \in Seq(Record) /\ Replayed(log \o record) = Rebuilt(applied, FinalAfter(record))
  BY <1>1, ReplayFinality DEF NInv, LogOK
<1> HIDE DEF record
<1> QED
  BY <1>2, <1>3, <1>4 DEF LogOK

\* All three heads of a node that has just opened are those the log gave.
OpenedWith(line, f) ==
    /\ applied' = line /\ mainChain' = line
    /\ stateFinal' = f /\ latest' = f /\ finalized' = f

\* A node that opens on a line of the tree and a head on it.
LEMMA AdoptHInv ==
    ASSUME HInv, NEW s, TreeLine(s.line), s.final # NoHash => s.final \in ToSet(s.line),
           NEW records, Adopt(s, records)
    PROVE  HInv' /\ OpenedWith(s.line, s.final) /\ log' = records
<1> DEFINE line == s.line
           f == s.final
<1>1. StoreOK(blocks) /\ Matches(blocks)
  BY DEF HInv, IInv, TypeOK, StoreOK
<1>2. /\ TreeLine(line) /\ line \in Seq(Hash) /\ Len(line) \in Nat /\ Len(line) >= 1
      /\ line[1] = Genesis /\ Genesis \in Known
  <2>1. line \in Seq(Hash) /\ Len(line) \in Nat /\ Len(line) >= 1 /\ line[1] = Genesis
    BY DEF TreeLine
  <2>2. PICK g \in DOMAIN blocks : applied = blocks[g].line
    BY DEF HInv, AppliedStored, Known
  <2>3. TreeLine(blocks[g].line) /\ \A i \in 1 .. Len(blocks[g].line) : blocks[g].line[i] \in DOMAIN blocks
    BY <1>1, StoredLine
  <2>4. Genesis \in Known
    BY <2>3 DEF TreeLine, Known
  <2> QED
    BY <2>1, <2>4
<1>3. blocks[Genesis].work \in Nat
  BY <1>1, <1>2 DEF StoreOK, Entry, Known
<1>4. /\ log' = records /\ applied' = line /\ stateFinal' = f /\ latest' = f /\ pending' = {}
      /\ blocks' = [h \in ToSet(line) |-> EntryOf(SubSeq(line, 1, HeightIn(h) + 1))]
      /\ tip' = Last(line) /\ mainChain' = line /\ finalized' = f
  BY DEF Adopt
<1>5. /\ StoreOK(blocks') /\ Matches(blocks') /\ DOMAIN blocks' = ToSet(line)
      /\ \A i \in 1 .. Len(line) : line[i] \in DOMAIN blocks' /\ blocks'[line[i]].line = SubSeq(line, 1, i)
  BY <1>2, <1>3, <1>4, RebuiltStore
<1>6. /\ tip' = line[Len(line)] /\ Len(line) \in 1 .. Len(line) /\ SubSeq(line, 1, Len(line)) = line
  BY <1>2, <1>4, SubSeqFull DEF Last
<1>7. tip' \in DOMAIN blocks' /\ blocks'[tip'].line = line
  BY <1>5, <1>6
<1>8. IInv'
  <2>1. TypeOK'
    BY <1>2, <1>4, <1>5, <1>7 DEF TypeOK, StoreOK
  <2>2. TreeOK(blocks)' /\ IndexIsTipBranch'
    BY <1>4, <1>5, <1>7 DEF StoreOK, IndexIsTipBranch
  <2>3. TipDescendsFromFinalized'
    <3> SUFFICES ASSUME f # NoHash
                 PROVE  IsDescendantOf(blocks', tip', f, blocks'[f].height)
      BY <1>4 DEF TipDescendsFromFinalized, DescendsFromFinalized
    <3>1. PICK i \in 1 .. Len(line) : f = line[i]
      BY <1>2 DEF ToSet
    <3>2. HeightIn(f) = i - 1 /\ HeightIn(tip') = Len(line) - 1
      BY <1>2, <1>6, <3>1 DEF TreeLine
    <3>3. blocks'[f].height = HeightIn(f) /\ blocks'[tip'].height = HeightIn(tip')
      BY <1>5, <1>7, <3>1 DEF Matches
    <3>4. blocks'[f].height = i - 1 /\ i - 1 <= Len(line) - 1 /\ (i - 1) + 1 = i
      BY <1>2, <3>2, <3>3
    <3> QED
      BY <1>7, <3>1, <3>2, <3>3, <3>4 DEF IsDescendantOf, AncestorAt
  <2> QED
    BY <2>1, <2>2, <2>3 DEF IInv
<1>9. AppliedStored' /\ (pending \subseteq Known)'
  BY <1>4, <1>7 DEF AppliedStored, Known
<1>10. HeadFits(stateFinal, latest, applied)' /\ StateFinalityFollows'
  <2>1. f \in Hash \cup {NoHash}
    BY <1>2 DEF ToSet
  <2> QED
    BY <1>4, <2>1 DEF HeadFits, StateFinalityFollows
<1> QED
  BY <1>4, <1>5, <1>8, <1>9, <1>10 DEF HInv, OpenedWith

\* A restart on a log that rebuilds the line of a known block.
LEMMA ReopenNInv ==
    ASSUME NInv, NEW g \in Known, NEW f, f # NoHash => f \in ToSet(blocks[g].line),
           NEW records \in Seq(Record), Replayed(records) = Rebuilt(blocks[g].line, f), Reopen(records)
    PROVE  NInv' /\ OpenedWith(blocks[g].line, f)
<1> DEFINE s == Rebuilt(blocks[g].line, f)
<1>1. s.line = blocks[g].line /\ s.final = f
  BY DEF Rebuilt
<1>2. TreeLine(s.line)
  <2>1. StoreOK(blocks) /\ Matches(blocks)
    BY DEF NInv, HInv, IInv, TypeOK, StoreOK
  <2> QED
    BY <1>1, <2>1, StoredLine DEF Known
<1>3. Adopt(s, records)
  BY DEF Reopen
<1> HIDE DEF s
<1>4. HInv' /\ OpenedWith(s.line, s.final) /\ log' = records
  BY <1>1, <1>2, <1>3, AdoptHInv DEF NInv
<1>5. LogOK'
  BY <1>1, <1>4 DEF LogOK, OpenedWith
<1> QED
  BY <1>1, <1>4, <1>5 DEF NInv

LEMMA RestartNInv ==
    ASSUME NInv, Restart
    PROVE  NInv' /\ StateStep /\ stateFinal' = stateFinal /\ latest' = stateFinal /\ finalized' = stateFinal
<1>1. PICK g \in Known : applied = blocks[g].line
  BY DEF NInv, HInv, AppliedStored
<1>2. /\ stateFinal # NoHash => stateFinal \in ToSet(applied)
      /\ log \in Seq(Record) /\ Replayed(log) = Rebuilt(applied, stateFinal)
  BY DEF NInv, HInv, HeadFits, LogOK
<1>3. /\ NInv' /\ applied' = applied /\ stateFinal' = stateFinal
      /\ latest' = stateFinal /\ finalized' = stateFinal
  <2>1. NInv' /\ OpenedWith(blocks[g].line, stateFinal)
    BY <1>1, <1>2, ReopenNInv DEF Restart
  <2> QED
    BY <1>1, <2>1 DEF OpenedWith
<1> QED
  BY <1>3, StaysApplied DEF HeadMoves, NInv

\* A crash after any record of a drain.
LEMMA CrashInDrainNInv ==
    ASSUME NInv, NEW h \in Hash \ {Genesis}, CrashInDrain(h)
    PROVE  NInv' /\ StateStep /\ stateFinal' = stateFinal /\ latest' = stateFinal /\ finalized' = stateFinal
<1> DEFINE held == Buffered(h)
           kept == Rejoined(mainChain, applied, held)
           new == Grown(blocks, kept, held)
           n == Len(kept)
           final == FinalityRecord(latest, new)
           all == BlockRecords(new, n) \o final
<1>1. StoreOK(blocks) /\ Matches(blocks) /\ tip \in DOMAIN blocks /\ mainChain = blocks[tip].line
  BY DEF NInv, HInv, IInv, TypeOK, StoreOK, IndexIsTipBranch
<1>2. h \in DOMAIN blocks /\ \E k \in 1 .. Len(all) - 1 : Reopen(log \o SubSeq(all, 1, k))
  BY DEF CrashInDrain, Known, Drained
<1>3. DrainGoesOn(blocks, mainChain, applied, held)
  <2>1. DrainGoesOn(blocks, blocks[tip].line, applied, Buffered(h))
    BY <1>1, <1>2, DrainFrom DEF Known, NInv
  <2> QED
    BY <1>1, <2>1
<1>4. /\ GoesOn(applied, n, new)
      /\ Len(new) = n => new = applied
      /\ \E g \in DOMAIN blocks : new = blocks[g].line
      /\ Shared(mainChain, applied) <= n
  BY <1>3 DEF DrainGoesOn
<1> HIDE DEF held, kept, new, n
<1>5. latest \in Hash \cup {NoHash} /\ log \in Seq(Record) /\ Replayed(log) = Rebuilt(applied, stateFinal)
  BY DEF NInv, HInv, HeadFits, LogOK
<1>6. PICK k \in 1 .. Len(all) - 1 : Reopen(log \o SubSeq(all, 1, k))
  BY <1>2
<1>7. /\ log \o SubSeq(all, 1, k) \in Seq(Record)
      /\ \E m \in n + 1 .. Len(new) :
            Replayed(log \o SubSeq(all, 1, k)) = Rebuilt(SubSeq(new, 1, m), stateFinal)
  <2>1. DrainReplays(log, n, new, latest)
    BY <1>4, <1>5, ReplayDrain
  <2> QED
    BY <2>1 DEF DrainReplays
<1> HIDE DEF final, all
<1>8. PICK m \in n + 1 .. Len(new) :
         Replayed(log \o SubSeq(all, 1, k)) = Rebuilt(SubSeq(new, 1, m), stateFinal)
  BY <1>7
<1>9. /\ TreeLine(new) /\ n \in Nat /\ n <= Len(new) /\ Len(new) \in Nat /\ n \in 1 .. Len(applied)
      /\ m \in 1 .. Len(new) /\ m \in n .. Len(new) /\ n <= m
  <2>1. TreeLine(applied) /\ TreeLine(new) /\ n \in 1 .. Len(applied) /\ n <= Len(new)
    BY <1>4 DEF GoesOn
  <2>2. Len(applied) \in Nat /\ Len(new) \in Nat
    BY <2>1 DEF TreeLine
  <2> QED
    BY <2>1, <2>2
<1> DEFINE line == SubSeq(new, 1, m)
<1>10. PICK g \in Known : line = blocks[g].line
  <2>1. PICK x \in DOMAIN blocks : new = blocks[x].line
    BY <1>4
  <2>2. \A i \in 1 .. Len(new) : new[i] \in DOMAIN blocks /\ blocks[new[i]].line = SubSeq(new, 1, i)
    BY <1>1, <2>1, StoredLine
  <2> QED
    BY <1>9, <2>2 DEF Known
<1>11. stateFinal # NoHash => stateFinal \in ToSet(line)
  BY <1>4, <1>9, HeadKept
<1>12. /\ NInv' /\ applied' = line /\ stateFinal' = stateFinal
       /\ latest' = stateFinal /\ finalized' = stateFinal
  <2> HIDE DEF line
  <2>1. NInv' /\ OpenedWith(blocks[g].line, stateFinal)
    <3>1. Replayed(log \o SubSeq(all, 1, k)) = Rebuilt(blocks[g].line, stateFinal)
      BY <1>8, <1>10 DEF line
    <3> QED
      BY <1>6, <1>7, <1>10, <1>11, <3>1, ReopenNInv
  <2> QED
    BY <1>10, <2>1 DEF OpenedWith
<1>13. GoesOn(applied, n, line)
  <2>1. TreeLine(line) /\ Len(line) = m
    BY <1>9, PrefixLine
  <2>2. SubSeq(line, 1, n) = SubSeq(new, 1, n)
    <3>1. new \in Seq(Hash)
      BY <1>9 DEF TreeLine
    <3> QED
      BY <1>9, <3>1
  <2> HIDE DEF line
  <2> QED
    BY <1>4, <1>9, <2>1, <2>2 DEF GoesOn
<1> HIDE DEF line
<1> QED
  BY <1>4, <1>9, <1>12, <1>13 DEF StateStep, HeadMoves

LEMMA NodeNextNInv ==
    ASSUME DiskHolds, NInv, NodeNext
    PROVE  NInv' /\ StateStep
<1>1. HInv /\ LogOK
  BY DEF NInv
<1>2. ASSUME NEW h \in Hash \ {Genesis}, SubmitHeader(h)
      PROVE  NInv' /\ StateStep
  <2>1. HInv' /\ StateStep
    BY <1>1, <1>2, SubmitHeaderHInv
  <2>2. UNCHANGED <<applied, stateFinal, log>>
    BY <1>2 DEF SubmitHeader, stateVars
  <2> QED
    BY <1>1, <2>1, <2>2 DEF NInv, LogOK
<1>3. ASSUME NEW h \in Hash \ {Genesis}, IngestBlock(h)
      PROVE  NInv' /\ StateStep
  BY <1>1, <1>3, IngestBlockHInv, IngestBlockLog DEF NInv
<1>4. ASSUME NEW cp \in FinalLine, IngestVotes(cp)
      PROVE  NInv' /\ StateStep
  BY <1>1, <1>4, IngestVotesHInv, IngestVotesLog DEF NInv
<1> QED
  BY <1>2, <1>3, <1>4, RestartNInv, CrashInDrainNInv DEF NodeNext

LEMMA StutterHInv ==
    ASSUME HInv, UNCHANGED nodeVars
    PROVE  HInv' /\ UNCHANGED <<applied, stateFinal, mainChain, log>>
<1>1. /\ UNCHANGED chainVars /\ UNCHANGED <<latest, applied, stateFinal, log, pending>>
      /\ UNCHANGED <<blocks, mainChain>>
  BY DEF nodeVars, stateVars, chainVars
<1>2. IInv'
  BY <1>1, NextIInv DEF HInv
<1> QED
  BY <1>1, <1>2 DEF HInv, AppliedStored, HeadFits, StateFinalityFollows, Matches, Known

LEMMA NodeStutterNInv ==
    ASSUME NInv, UNCHANGED nodeVars
    PROVE  NInv' /\ UNCHANGED <<applied, stateFinal, mainChain>>
BY StutterHInv DEF NInv, LogOK

LEMMA NodeInvariant ==
    ASSUME DiskHolds
    PROVE  NodeSpec => []NInv
<1>1. NInv /\ [NodeNext]_nodeVars => NInv'
  BY NodeNextNInv, NodeStutterNInv
<1> QED
  BY <1>1, NodeInitNInv, PTL DEF NodeSpec

-----------------------------------------------------------------------------
(* What holds of the state machine and its log.                            *)

\* Whenever the committee's checkpoint is applied, it is the finalized head of the
\* state machine (sync_state_finality), in whatever order bodies and votes come.
THEOREM FinalityFollows ==
    ASSUME DiskHolds
    PROVE  NodeSpec => []StateFinalityFollows
<1>1. NInv => StateFinalityFollows
  BY DEF NInv, HInv
<1> QED
  BY <1>1, NodeInvariant, PTL

\* A restart rebuilds exactly the applied chain and the finalized head, after any
\* number of rewinds, crashes inside a drain and earlier restarts
\* (apply_logged_block infers every rewind).
THEOREM RestartRebuilds ==
    ASSUME DiskHolds
    PROVE  NodeSpec => []RestartReproducesState
<1>1. NInv => RestartReproducesState
  BY DEF NInv, HInv, LogOK, Rebuilt, RestartReproducesState
<1> QED
  BY <1>1, NodeInvariant, PTL

LEMMA LosersOnly ==
    ASSUME HInv, StateStep, mainChain' = mainChain
    PROVE  Shared(mainChain, applied') >= Shared(mainChain, applied)
<1>1. PICK n \in 1 .. Len(applied) :
         GoesOn(applied, n, applied') /\ Shared(mainChain, applied) <= n
  BY DEF StateStep
<1> DEFINE s == Shared(mainChain, applied)
           t == Shared(mainChain, applied')
<1>2. /\ TreeLine(mainChain) /\ TreeLine(applied) /\ TreeLine(applied') /\ n <= Len(applied')
      /\ SubSeq(applied', 1, n) = SubSeq(applied, 1, n)
  BY <1>1, AppliedLine DEF GoesOn
<1>3. /\ applied \in Seq(Hash) /\ applied' \in Seq(Hash)
      /\ Len(applied) \in Nat /\ Len(applied') \in Nat /\ Len(mainChain) \in Nat
  BY <1>2 DEF TreeLine
<1>4. s \in 1 .. Len(applied) /\ s <= Len(mainChain) /\ mainChain[s] = applied[s]
  BY <1>2, SharedPosition
<1>5. /\ t \in 1 .. Len(applied')
      /\ \A j \in 1 .. Len(applied') : j <= Len(mainChain) /\ mainChain[j] = applied'[j] => j <= t
  BY <1>2, SharedPosition
<1> HIDE DEF s, t
<1>6. s <= n
  BY <1>1 DEF s
<1>7. s \in 1 .. Len(applied') /\ s \in 1 .. n /\ n \in Nat
  BY <1>2, <1>3, <1>4, <1>6
<1>8. applied'[s] = applied[s]
  <2>1. SubSeq(applied', 1, n)[s] = applied'[s] /\ SubSeq(applied, 1, n)[s] = applied[s]
    BY <1>2, <1>3, <1>7
  <2> QED
    BY <1>2, <2>1
<1>9. s <= t
  BY <1>4, <1>5, <1>7, <1>8
<1>10. s \in Int /\ t \in Int
  BY <1>4, <1>5
<1> QED
  BY <1>9, <1>10 DEF s, t

\* No step costs the state machine blocks it shares with the main chain
\* (rejoin_main_chain rewinds to the fork point and no further).
THEOREM OnlyLosersUndone ==
    ASSUME DiskHolds
    PROVE  NodeSpec => RewindsOnlyLosers
<1> DEFINE A == mainChain' = mainChain => Shared(mainChain, applied') >= Shared(mainChain, applied)
<1>1. NInv /\ [NodeNext]_nodeVars => [A]_nodeVars
  <2> SUFFICES ASSUME NInv, NodeNext, mainChain' = mainChain
               PROVE  Shared(mainChain, applied') >= Shared(mainChain, applied)
    OBVIOUS
  <2> QED
    BY NodeNextNInv, LosersOnly DEF NInv
<1> QED
  BY <1>1, NodeInvariant, PTL DEF NodeSpec, RewindsOnlyLosers

\* The durable blocks are a prefix of the applied chain, up to the head.
DurableIsAPrefix ==
    stateFinal # NoHash =>
        \E i \in 1 .. Len(applied) :
           /\ stateFinal = applied[i] /\ HeightIn(stateFinal) = i - 1
           /\ DurableBlocks = SubSeq(applied, 1, i)

LEMMA DurableIsPrefix == HInv => DurableIsAPrefix
<1> SUFFICES ASSUME HInv, stateFinal # NoHash
             PROVE  \E i \in 1 .. Len(applied) :
                       /\ stateFinal = applied[i] /\ HeightIn(stateFinal) = i - 1
                       /\ DurableBlocks = SubSeq(applied, 1, i)
  BY DEF DurableIsAPrefix
<1>1. TreeLine(applied) /\ applied \in Seq(Hash) /\ Len(applied) \in Nat
  BY AppliedLine
<1>2. PICK i \in 1 .. Len(applied) : stateFinal = applied[i]
  BY <1>1 DEF HInv, HeadFits, ToSet
<1>3. HeightIn(stateFinal) = i - 1 /\ HeightIn(stateFinal) + 1 = i
  BY <1>1, <1>2 DEF TreeLine
<1>4. Min({i, Len(applied)}) = i
  <2>1. i \in Int /\ Len(applied) \in Int /\ i <= Len(applied)
    BY <1>1
  <2> DEFINE n == Len(applied)
  <2> HIDE DEF n
  <2>2. i <= n /\ i \in Int /\ n \in Int
    BY <2>1 DEF n
  <2>3. Min({i, n}) = i
    BY <2>2 DEF Min
  <2> QED
    BY <2>3 DEF n
<1>5. DurableBlocks = SubSeq(applied, 1, i)
  BY <1>3, <1>4 DEF DurableBlocks
<1> QED
  BY <1>2, <1>3, <1>5

\* What a step may do to the durable blocks: the applied chain goes on from a prefix
\* that holds the head, and the head stays or moves up.
DurableStep ==
    \E n \in 1 .. Len(applied) :
        GoesOn(applied, n, applied') /\ HeadMoves(applied', stateFinal, stateFinal')

LEMMA DurableExtends ==
    ASSUME HInv, HInv', DurableStep
    PROVE  [DP!Extend]_DurableBlocks
<1> DEFINE before == DurableBlocks
           after == DurableBlocks'
<1>1. PICK n \in 1 .. Len(applied) :
         GoesOn(applied, n, applied') /\ HeadMoves(applied', stateFinal, stateFinal')
  BY DEF DurableStep
<1>2. /\ TreeLine(applied) /\ TreeLine(applied') /\ n <= Len(applied')
      /\ SubSeq(applied', 1, n) = SubSeq(applied, 1, n)
      /\ MayRewind(applied, stateFinal, n)
  BY <1>1 DEF GoesOn
<1>3. /\ applied \in Seq(Hash) /\ applied' \in Seq(Hash) /\ applied'[1] = Genesis
      /\ Len(applied) \in Nat /\ Len(applied') \in Nat
  BY <1>2 DEF TreeLine
<1>4. CASE stateFinal' = NoHash
  <2>1. stateFinal = NoHash
    <3>1. NoHash \notin ToSet(applied')
      BY <1>3, NoHashAssumption DEF ToSet
    <3> QED
      BY <1>1, <1>4, <3>1 DEF HeadMoves, Finalizes
  <2> QED
    BY <1>4, <2>1 DEF DurableBlocks
<1>5. CASE stateFinal' # NoHash
  <2>1. PICK j \in 1 .. Len(applied') :
           /\ stateFinal' = applied'[j] /\ HeightIn(stateFinal') = j - 1
           /\ after = SubSeq(applied', 1, j)
    <3>1. DurableIsAPrefix'
      BY DurableIsPrefix, PTL
    <3>2. HeightIn(stateFinal)' = HeightIn(stateFinal')
      BY DEF HeightIn
    <3> QED
      BY <1>5, <3>1, <3>2 DEF DurableIsAPrefix
  <2>2. after \in Seq(Hash) /\ Len(after) = j
    <3> HIDE DEF after
    <3> QED
      BY <1>3, <2>1
  <2> SUFFICES \E i \in 1 .. j : before = SubSeq(applied', 1, i)
    <3>1. PICK i \in 1 .. j : before = SubSeq(applied', 1, i)
      OBVIOUS
    <3> HIDE DEF before, after
    <3>2. i \in Nat /\ i <= j /\ i <= Len(applied') /\ i >= 1
      BY <1>3, <2>1
    <3>3. Len(before) = i
      BY <1>3, <3>1, <3>2
    <3>4. SubSeq(after, 1, i) = SubSeq(applied', 1, i)
      BY <1>3, <2>1, <3>2
    <3>5. Len(before) <= Len(after) /\ SubSeq(after, 1, Len(before)) = before
      BY <2>2, <3>1, <3>2, <3>3, <3>4
    <3> QED
      BY <2>2, <3>5 DEF DP!Extend, before, after
  <2>3. CASE stateFinal = NoHash
    <3>1. before = <<Genesis>>
      BY <2>3 DEF DurableBlocks
    <3>2. SubSeq(applied', 1, 1) = <<applied'[1]>>
      <4> DEFINE q == applied'
      <4> HIDE DEF q
      <4>1. q \in Seq(Hash) /\ Len(q) >= 1 /\ Len(q) \in Nat
        BY <1>2, <1>3 DEF TreeLine, q
      <4>2. /\ SubSeq(q, 1, 1) \in Seq(Hash) /\ Len(SubSeq(q, 1, 1)) = 1
            /\ SubSeq(q, 1, 1)[1] = q[1] /\ q[1] \in Hash
        BY <4>1
      <4>3. <<q[1]>> \in Seq(Hash) /\ Len(<<q[1]>>) = 1 /\ <<q[1]>>[1] = q[1]
        BY <4>2
      <4>4. \A i \in 1 .. Len(SubSeq(q, 1, 1)) : SubSeq(q, 1, 1)[i] = <<q[1]>>[i]
        BY <4>2, <4>3
      <4>5. SubSeq(q, 1, 1) = <<q[1]>>
        BY <4>2, <4>3, <4>4, SeqEqual
      <4> QED
        BY <4>5 DEF q
    <3>3. 1 \in 1 .. j
      OBVIOUS
    <3> HIDE DEF before
    <3> QED
      BY <1>3, <3>1, <3>2, <3>3
  <2>4. CASE stateFinal # NoHash
    <3>1. PICK i \in 1 .. Len(applied) :
             stateFinal = applied[i] /\ HeightIn(stateFinal) = i - 1 /\ before = SubSeq(applied, 1, i)
      BY <2>4, DurableIsPrefix DEF DurableIsAPrefix
    <3> HIDE DEF before, after
    <3>2. i \in 1 .. n
      <4>1. PICK k \in DOMAIN SubSeq(applied, 1, n) : stateFinal = SubSeq(applied, 1, n)[k]
        BY <1>2, <2>4 DEF MayRewind, ToSet
      <4>2. k \in 1 .. n /\ k \in 1 .. Len(applied) /\ stateFinal = applied[k]
        BY <1>3, <4>1
      <4>3. k = i
        BY <1>2, <3>1, <4>2, OnePlace
      <4> QED
        BY <4>2, <4>3
    <3>3. i <= j
      <4>1. CASE stateFinal' = stateFinal
        BY <2>1, <3>1, <4>1
      <4>2. CASE Finalizes(applied', stateFinal, stateFinal')
        BY <2>1, <2>4, <3>1, <4>2 DEF Finalizes
      <4> QED
        BY <1>1, <4>1, <4>2 DEF HeadMoves
    <3>4. SubSeq(applied', 1, i) = SubSeq(applied, 1, i)
      <4>1. /\ SubSeq(SubSeq(applied', 1, n), 1, i) = SubSeq(applied', 1, i)
            /\ SubSeq(SubSeq(applied, 1, n), 1, i) = SubSeq(applied, 1, i)
        BY <1>2, <1>3, <3>2
      <4> QED
        BY <1>2, <4>1
    <3>5. i \in 1 .. j
      BY <3>2, <3>3
    <3> QED
      BY <3>1, <3>4, <3>5
  <2> QED
    BY <2>3, <2>4
<1> QED
  BY <1>4, <1>5

\* No rewind, crash or restart ever undoes a block at or below the durable finalized
\* head: the state machine implements a list of final blocks that only grows
\* (rewind_path refuses to cross the head, apply_logged_block infers the rest).
THEOREM DurableFinality ==
    ASSUME DiskHolds
    PROVE  NodeSpec => DP!Spec
<1>1. NodeInit => DP!Init
  BY DEF NodeInit, DP!Init, DurableBlocks
<1>2. NInv /\ NInv' /\ [NodeNext]_nodeVars => [DP!Extend]_DurableBlocks
  <2> SUFFICES ASSUME NInv, NInv', [NodeNext]_nodeVars PROVE [DP!Extend]_DurableBlocks
    OBVIOUS
  <2>1. CASE NodeNext
    <3>1. HInv /\ HInv' /\ StateStep
      BY <2>1, NodeNextNInv DEF NInv
    <3>2. DurableStep
      BY <3>1 DEF StateStep, DurableStep
    <3> QED
      BY <3>1, <3>2, DurableExtends
  <2>2. CASE UNCHANGED nodeVars
    <3>1. UNCHANGED <<applied, stateFinal>>
      BY <2>2, NodeStutterNInv
    <3> QED
      BY <3>1 DEF DurableBlocks
  <2> QED
    BY <2>1, <2>2
<1> QED
  BY <1>1, <1>2, NodeInvariant, PTL DEF NodeSpec, DP!Spec

-----------------------------------------------------------------------------
(* The three heads, when fork choice has taken the committee's checkpoint. *)
(* Nothing is assumed of the order of votes and headers, nor of where the  *)
(* finalized blocks are: set_finalized may have refused a checkpoint the   *)
(* tracker reports, and these theorems say what holds of the others.       *)

Taken == latest # NoHash /\ finalized = latest

\* Two blocks of one branch of the tree.
OnOneBranch(f, h) == \E line : TreeLine(line) /\ {f, h} \subseteq ToSet(line)

\* Two lines that share a block share all blocks below it.
LEMMA LinesAgree ==
    ASSUME NEW a, NEW b, TreeLine(a), TreeLine(b),
           NEW i \in 1 .. Len(a), i <= Len(b), a[i] = b[i]
    PROVE  \A j \in 1 .. i : a[j] = b[j]
<1> DEFINE S == {k \in Nat : k < i => a[i - k] = b[i - k]}
<1>1. Len(a) \in Nat /\ Len(b) \in Nat /\ i \in Nat /\ i - 0 = i
  BY DEF TreeLine
<1>2. 0 \in S
  BY <1>1
<1>3. ASSUME NEW k \in Nat, k \in S PROVE k + 1 \in S
  <2> SUFFICES ASSUME k + 1 < i PROVE a[i - (k + 1)] = b[i - (k + 1)]
    OBVIOUS
  <2>1. a[i - k] = b[i - k]
    BY <1>1, <1>3
  <2>2. i - k \in 2 .. Len(a) /\ i - k \in 2 .. Len(b) /\ (i - k) - 1 = i - (k + 1)
    BY <1>1
  <2>3. PrevIn(a[i - k]) = a[(i - k) - 1] /\ PrevIn(b[i - k]) = b[(i - k) - 1]
    BY <2>2 DEF TreeLine
  <2> QED
    BY <2>1, <2>2, <2>3
<1> HIDE DEF S
<1>4. Nat \subseteq S
  BY <1>2, <1>3, SetInduction
<1>5. ASSUME NEW j \in 1 .. i PROVE a[j] = b[j]
  <2>1. i - j \in Nat /\ i - j < i /\ i - (i - j) = j
    BY <1>1
  <2>2. i - j \in S
    BY <1>4, <2>1
  <2> QED
    BY <2>1, <2>2 DEF S
<1> QED
  BY <1>5

\* A line that holds a block holds every lower block of its branch, at its height.
LEMMA BranchBelow ==
    ASSUME NEW f, NEW c, OnOneBranch(f, c), HeightIn(f) <= HeightIn(c),
           NEW line, TreeLine(line), HeightIn(c) + 1 <= Len(line), line[HeightIn(c) + 1] = c
    PROVE  HeightIn(f) + 1 \in 1 .. Len(line) /\ line[HeightIn(f) + 1] = f
<1>1. PICK branch : TreeLine(branch) /\ {f, c} \subseteq ToSet(branch)
  BY DEF OnOneBranch
<1>2. branch \in Seq(Hash) /\ Len(branch) \in Nat /\ Len(line) \in Nat
  BY <1>1 DEF TreeLine
<1>3. PICK i \in 1 .. Len(branch) : f = branch[i]
  BY <1>1, <1>2 DEF ToSet
<1>4. PICK j \in 1 .. Len(branch) : c = branch[j]
  BY <1>1, <1>2 DEF ToSet
<1>5. HeightIn(f) = i - 1 /\ HeightIn(c) = j - 1
  BY <1>1, <1>3, <1>4 DEF TreeLine
<1>6. HeightIn(f) + 1 = i /\ HeightIn(c) + 1 = j /\ i <= j /\ i \in 1 .. j /\ j <= Len(line)
  BY <1>2, <1>5
<1>7. branch[j] = line[j]
  BY <1>4, <1>6
<1>8. \A k \in 1 .. j : branch[k] = line[k]
  BY <1>1, <1>6, <1>7, LinesAgree
<1> QED
  BY <1>2, <1>3, <1>6, <1>8

\* The finalized head of fork choice is on the main chain, at its height.
LEMMA ChainHeadOnMainChain ==
    ASSUME HInv, finalized # NoHash
    PROVE  /\ finalized \in Hash
           /\ HeightIn(finalized) + 1 \in 1 .. Len(mainChain)
           /\ mainChain[HeightIn(finalized) + 1] = finalized
           /\ finalized \in ToSet(mainChain)
<1>1. /\ finalized \in Known /\ tip \in Known /\ mainChain = blocks[tip].line
      /\ IsDescendantOf(blocks, tip, finalized, blocks[finalized].height)
      /\ StoreOK(blocks) /\ Matches(blocks)
  BY DEF HInv, IInv, TypeOK, StoreOK, IndexIsTipBranch, TipDescendsFromFinalized,
         DescendsFromFinalized, Known
<1>2. blocks[finalized].height = HeightIn(finalized) /\ blocks[tip].height = HeightIn(tip)
  BY <1>1 DEF Matches, Known
<1>3. HeightIn(finalized) <= HeightIn(tip) /\ mainChain[HeightIn(finalized) + 1] = finalized
  BY <1>1, <1>2 DEF IsDescendantOf, AncestorAt
<1>4. Len(mainChain) = HeightIn(tip) + 1
  BY <1>1, StoredLine DEF Known
<1>5. HeightIn(finalized) \in Nat /\ HeightIn(tip) \in Nat /\ finalized \in Hash
  BY <1>1, HeightIsNatural, MaxHeightAssumption DEF StoreOK, Known
<1>6. HeightIn(finalized) + 1 \in 1 .. Len(mainChain)
  BY <1>3, <1>4, <1>5
<1>7. HeightIn(finalized) + 1 \in DOMAIN mainChain
  BY <1>6, AppliedLine
<1> QED
  BY <1>3, <1>5, <1>6, <1>7 DEF ToSet

\* The blocks below and at a head that two lines share are kept by a rewind from one to
\* the other.
LEMMA SharedHeadKept ==
    ASSUME NEW main, NEW line, TreeLine(main), TreeLine(line), NEW f \in ToSet(line),
           f \in ToSet(main)
    PROVE  MayRewind(line, f, Shared(main, line))
<1>1. /\ main \in Seq(Hash) /\ line \in Seq(Hash) /\ Len(main) \in Nat /\ Len(line) \in Nat
      /\ DOMAIN main = 1 .. Len(main) /\ DOMAIN line = 1 .. Len(line)
  BY DEF TreeLine
<1>2. PICK i \in 1 .. Len(line) : f = line[i]
  BY <1>1 DEF ToSet
<1>3. PICK j \in 1 .. Len(main) : f = main[j]
  BY <1>1 DEF ToSet
<1>4. i = j
  <2>1. HeightIn(f) = i - 1 /\ HeightIn(f) = j - 1
    BY <1>2, <1>3 DEF TreeLine
  <2> QED
    BY <1>1, <2>1
<1> DEFINE n == Shared(main, line)
<1>5. n \in 1 .. Len(line) /\ i <= n
  <2>1. i <= Len(main) /\ main[i] = line[i]
    BY <1>1, <1>2, <1>3, <1>4
  <2> QED
    BY <2>1, SharedPosition
<1> HIDE DEF n
<1>6. i \in DOMAIN SubSeq(line, 1, n) /\ SubSeq(line, 1, n)[i] = f
  BY <1>1, <1>2, <1>5
<1>7. f \in ToSet(SubSeq(line, 1, n))
  BY <1>6 DEF ToSet
<1> QED
  BY <1>7 DEF MayRewind, n

\* Once fork choice has taken the committee's checkpoint, the rewind to the main chain
\* is permitted: rejoin_main_chain's refusal is "Unreachable", with any lag of bodies
\* behind votes, as long as the durable head is on the checkpoint's branch (which it
\* is when the checkpoint is applied, since it then is the durable head).
THEOREM RewindPermitted ==
    ASSUME DiskHolds
    PROVE  NodeSpec => [](Taken /\ (OnOneBranch(stateFinal, latest) \/ latest \in ToSet(applied))
                            => /\ StateFinalOnMainChain
                               /\ MayRewind(applied, stateFinal, Shared(mainChain, applied)))
<1> DEFINE Goal == Taken /\ (OnOneBranch(stateFinal, latest) \/ latest \in ToSet(applied))
                     => /\ StateFinalOnMainChain
                        /\ MayRewind(applied, stateFinal, Shared(mainChain, applied))
<1>1. NInv => Goal
  <2> SUFFICES ASSUME NInv, Taken, stateFinal # NoHash,
                      OnOneBranch(stateFinal, latest) \/ latest \in ToSet(applied)
               PROVE  /\ stateFinal \in ToSet(mainChain)
                      /\ MayRewind(applied, stateFinal, Shared(mainChain, applied))
    BY DEF StateFinalOnMainChain, MayRewind
  <2>1. /\ HInv /\ latest = finalized /\ latest # NoHash /\ stateFinal \in ToSet(applied)
        /\ stateFinal = latest \/ HeightIn(stateFinal) < HeightIn(latest)
        /\ latest \in ToSet(applied) => stateFinal = latest
    BY DEF NInv, HInv, HeadFits, Taken, StateFinalityFollows
  <2>2. TreeLine(applied) /\ TreeLine(mainChain) /\ applied \in Seq(Hash) /\ mainChain \in Seq(Hash)
    BY <2>1, AppliedLine
  <2>3. /\ latest \in Hash /\ HeightIn(latest) + 1 \in 1 .. Len(mainChain)
        /\ mainChain[HeightIn(latest) + 1] = latest /\ latest \in ToSet(mainChain)
    BY <2>1, ChainHeadOnMainChain
  <2>4. stateFinal \in ToSet(mainChain)
    <3>1. CASE stateFinal = latest
      BY <2>3, <3>1
    <3>2. CASE stateFinal # latest
      <4>1. OnOneBranch(stateFinal, latest) /\ HeightIn(stateFinal) < HeightIn(latest)
        BY <2>1, <3>2
      <4>2. stateFinal \in Hash
        BY <2>1, <2>2 DEF ToSet
      <4>3. HeightIn(stateFinal) <= HeightIn(latest) /\ HeightIn(latest) + 1 <= Len(mainChain)
        BY <2>2, <2>3, <4>1, <4>2, HeightIsNatural, MaxHeightAssumption
      <4>4. /\ HeightIn(stateFinal) + 1 \in 1 .. Len(mainChain)
            /\ mainChain[HeightIn(stateFinal) + 1] = stateFinal
        BY <2>2, <2>3, <4>1, <4>3, BranchBelow
      <4>5. HeightIn(stateFinal) + 1 \in DOMAIN mainChain
        BY <2>2, <4>4
      <4> QED
        BY <4>4, <4>5 DEF ToSet
    <3> QED
      BY <3>1, <3>2
  <2> QED
    BY <2>1, <2>2, <2>4, SharedHeadKept
<1> QED
  BY <1>1, NodeInvariant, PTL

\* "No reorg past a finalized checkpoint, EVER" (insert_header), for the checkpoint the
\* node reports, once fork choice has taken it: as long as the node reports it, across
\* any headers, bodies, crashes and restarts, it stays taken and on the main chain.
THEOREM TakenCheckpointStays ==
    ASSUME DiskHolds
    PROVE  NodeSpec => [][Taken /\ latest' = latest => Taken' /\ latest \in ToSet(mainChain')]_nodeVars
<1> DEFINE A == Taken /\ latest' = latest => Taken' /\ latest \in ToSet(mainChain')
           On == finalized # NoHash => finalized \in ToSet(mainChain)
<1>1. NInv => On
  BY ChainHeadOnMainChain DEF NInv
<1>2. NInv /\ On' /\ [NodeNext]_nodeVars => [A]_nodeVars
  <2> SUFFICES ASSUME NInv, On', NodeNext, Taken, latest' = latest
               PROVE  Taken' /\ latest \in ToSet(mainChain')
    OBVIOUS
  <2>1. latest # NoHash /\ finalized = latest
    BY DEF Taken
  <2>2. ASSUME NEW h \in Hash \ {Genesis}, SubmitHeader(h) \/ IngestBlock(h)
        PROVE  finalized' = latest'
    <3>1. finalized' = finalized
      BY <2>2 DEF SubmitHeader, IngestBlock, LearnHeader, InsertHeader, chainVars
    <3> QED
      BY <2>1, <3>1
  \* A checkpoint the tracker accepts is above the one it has.
  <2>3. ASSUME NEW cp \in FinalLine, IngestVotes(cp) PROVE FALSE
    <3>1. cp = latest /\ HeightIn(cp) > HeightIn(latest) /\ cp \in Hash
      BY <2>1, <2>3, FinalLineAssumption DEF IngestVotes
    <3>2. HeightIn(cp) \in Nat
      BY <3>1, HeightIsNatural, MaxHeightAssumption
    <3> QED
      BY <3>1, <3>2
  <2>4. ASSUME NEW s, NEW records, Adopt(s, records) PROVE finalized' = latest'
    BY <2>4 DEF Adopt
  <2>5. finalized' = latest'
    BY <2>2, <2>3, <2>4 DEF NodeNext, Restart, CrashInDrain, Reopen
  <2>6. finalized' # NoHash
    BY <2>1, <2>5
  <2>7. finalized' \in ToSet(mainChain')
    BY <2>6
  <2> QED
    BY <2>1, <2>5, <2>7 DEF Taken
<1> HIDE DEF On
<1> QED
  BY <1>1, <1>2, NodeInvariant, PTL DEF NodeSpec

-----------------------------------------------------------------------------
(* A node with a pool is a node.                                           *)

LEMMA PoolStepIsNodeStep == [PoolNext]_poolVars => [NodeNext]_nodeVars
<1> SUFFICES ASSUME [PoolNext]_poolVars PROVE [NodeNext]_nodeVars
  OBVIOUS
<1>1. CASE UNCHANGED poolVars
  BY <1>1 DEF poolVars
<1>2. CASE PoolNext
  BY <1>2 DEF PoolNext, NodeNext, SubmitTx
<1> QED
  BY <1>1, <1>2

\* Keeping a pool changes nothing of what a node does with its chain (the calls into
\* the pool in drain_pending_bodies), so every theorem above is one of it.
THEOREM PoolIsNode == PoolSpec => NodeSpec
<1>1. PoolInit => NodeInit
  BY DEF PoolInit
<1> QED
  BY <1>1, PoolStepIsNodeStep, PTL DEF PoolSpec, NodeSpec

-----------------------------------------------------------------------------
(* What a drain leaves of the pool.                                        *)

Survives(line, n, t) == ~ Evicts(SubSeq(line, 1, n), stateFinal, t)

\* The transactions the m blocks after the first ones of line leave.
Kept(txs, line, from, m) == {t \in txs : \A i \in 1 .. m : Survives(line, from + i, t)}

\* g tabulates the maintenance for the sets of positions of the connected blocks
\* (the community module's FoldLeft).
Sieve(g, txs, line, from, m) ==
    g = [s \in SUBSET (1 .. m) |->
            IF s = {} THEN txs
            ELSE {t \in g[s \ {Max(s)}] : Survives(line, from + Max(s), t)}]

LEMMA SieveExists ==
    ASSUME NEW txs, NEW line, NEW from, NEW m \in Nat
    PROVE  \E g : Sieve(g, txs, line, from, m)
<1> DEFINE g == [s \in SUBSET (1 .. m) |-> {t \in txs : \A i \in s : Survives(line, from + i, t)}]
<1>1. ASSUME NEW s \in SUBSET (1 .. m)
      PROVE  g[s] = IF s = {} THEN txs
                    ELSE {t \in g[s \ {Max(s)}] : Survives(line, from + Max(s), t)}
  <2>1. CASE s = {}
    BY <2>1
  <2>2. CASE s # {}
    <3>1. Max(s) \in s
      BY <2>2, MaxPosition
    <3>2. s \ {Max(s)} \in SUBSET (1 .. m)
      OBVIOUS
    <3> DEFINE x == Max(s)
    <3> HIDE DEF x
    <3>3. g[s \ {x}] = {t \in txs : \A i \in s \ {x} : Survives(line, from + i, t)}
      BY <3>2 DEF x
    <3>4. g[s] = {t \in txs : \A i \in s : Survives(line, from + i, t)}
      OBVIOUS
    <3> HIDE DEF g
    <3>5. g[s] = {t \in g[s \ {x}] : Survives(line, from + x, t)}
      BY <3>1, <3>3, <3>4 DEF x
    <3> QED
      BY <2>2, <3>5 DEF x
  <2> QED
    BY <2>1, <2>2
<1>2. Sieve(g, txs, line, from, m)
  BY <1>1 DEF Sieve
<1> QED
  BY <1>2

LEMMA SieveKeeps ==
    ASSUME NEW txs, NEW line, NEW from, NEW m \in Nat, NEW g, Sieve(g, txs, line, from, m)
    PROVE  g[1 .. m] = Kept(txs, line, from, m)
<1> DEFINE P(k) == k <= m => g[1 .. k] = {t \in txs : \A i \in 1 .. k : Survives(line, from + i, t)}
           S == {k \in Nat : P(k)}
<1>1. 0 \in S
  <2>1. 1 .. 0 = {} /\ {} \in SUBSET (1 .. m)
    OBVIOUS
  <2>2. g[{}] = txs
    BY <2>1 DEF Sieve
  <2> QED
    BY <2>1, <2>2
<1>2. ASSUME NEW k \in Nat, k \in S PROVE k + 1 \in S
  <2> SUFFICES ASSUME k + 1 <= m
               PROVE  g[1 .. k + 1] = {t \in txs : \A i \in 1 .. k + 1 : Survives(line, from + i, t)}
    OBVIOUS
  <2>1. g[1 .. k] = {t \in txs : \A i \in 1 .. k : Survives(line, from + i, t)}
    BY <1>2
  <2> HIDE DEF S
  <2>2. Max(1 .. k + 1) = k + 1 /\ 1 .. k + 1 # {} /\ (1 .. k + 1) \ {k + 1} = 1 .. k
    BY TopOfRange
  <2>3. 1 .. k + 1 \in SUBSET (1 .. m)
    OBVIOUS
  <2>4. g[1 .. k + 1] = {t \in g[1 .. k] : Survives(line, from + (k + 1), t)}
    BY <2>2, <2>3 DEF Sieve
  <2>5. 1 .. k + 1 = (1 .. k) \cup {k + 1}
    OBVIOUS
  <2> QED
    BY <2>1, <2>4, <2>5
<1> HIDE DEF S
<1>3. Nat \subseteq S
  BY <1>1, <1>2, SetInduction
<1> QED
  BY <1>3 DEF S, Kept

\* on_block_connected, over the blocks of a drain: what stays was evicted by none.
LEMMA ConnectedKeeps ==
    ASSUME NEW txs, NEW line, NEW from \in Nat, Len(line) \in Nat, from <= Len(line)
    PROVE  Connected(txs, line, from) = Kept(txs, line, from, Len(line) - from)
<1> DEFINE m == Len(line) - from
           seq == [i \in 1 .. m |-> from + i]
           g == CHOOSE f : Sieve(f, txs, line, from, m)
<1>1. m \in Nat /\ DOMAIN seq = 1 .. m
  OBVIOUS
<1>2. Sieve(g, txs, line, from, m)
  BY <1>1, SieveExists
<1>3. Connected(txs, line, from) =
        (CHOOSE f : f = [s \in SUBSET DOMAIN seq |->
            IF s = {} THEN txs
            ELSE {t \in f[s \ {Max(s)}] : ~ Evicts(SubSeq(line, 1, seq[Max(s)]), stateFinal, t)}])[DOMAIN seq]
  BY DEF Connected, FoldLeft, MapThenFoldSet
<1>4. ASSUME NEW f
      PROVE  (f = [s \in SUBSET DOMAIN seq |->
                    IF s = {} THEN txs
                    ELSE {t \in f[s \ {Max(s)}] : ~ Evicts(SubSeq(line, 1, seq[Max(s)]), stateFinal, t)}])
                <=> Sieve(f, txs, line, from, m)
  <2>1. ASSUME NEW s \in SUBSET (1 .. m), s # {} PROVE seq[Max(s)] = from + Max(s)
    <3>1. Max(s) \in 1 .. m
      BY <1>1, <2>1, MaxPosition
    <3> QED
      BY <3>1
  <2> HIDE DEF seq, m
  <2> QED
    BY <1>1, <2>1 DEF Sieve, Survives
<1>5. Connected(txs, line, from) = g[1 .. m]
  <2> HIDE DEF seq, m
  <2> QED
    BY <1>1, <1>3, <1>4 DEF g
<1> HIDE DEF g, m
<1>6. g[1 .. m] = Kept(txs, line, from, m)
  BY <1>1, <1>2, SieveKeeps
<1> QED
  BY <1>5, <1>6 DEF m

-----------------------------------------------------------------------------
(* What block validation asks of one transaction.                          *)

Minable(line, f, t) ==
    /\ IsValidAnchor(line, f, Surface[t].anchor)
    /\ CheckOp(Registry(line), Len(line), Surface[t].op, {})
    /\ Surface[t].nullifiers \cap Spent(line) = {}

LEMMA ValidAlone ==
    ASSUME NEW line, NEW f, NEW t
    PROVE  ValidBody(line, f, <<t>>) <=> Minable(line, f, t)
<1> DEFINE txs == <<t>>
<1>1. DOMAIN txs = {1} /\ txs[1] = t
  OBVIOUS
<1>2. {txs[j] : j \in 1 .. 1 - 1} = {}
  OBVIOUS
<1> HIDE DEF txs
<1> DEFINE earlier(i) == {txs[j] : j \in 1 .. i - 1}
           revealed(i) == {Surface[v].op.name :
                             v \in {u \in earlier(i) : Surface[u].op.kind = "reveal"}}
           P(i) == /\ IsValidAnchor(line, f, Surface[txs[i]].anchor)
                   /\ CheckOp(Registry(line), Len(line), Surface[txs[i]].op, revealed(i))
                   /\ Surface[txs[i]].nullifiers \cap Spent(line) = {}
                   /\ \A v \in earlier(i) :
                         Surface[txs[i]].nullifiers \cap Surface[v].nullifiers = {}
<1>3. ValidBody(line, f, txs) <=> \A i \in DOMAIN txs : P(i)
  BY DEF ValidBody
<1>4. earlier(1) = {} /\ revealed(1) = {}
  BY <1>2
<1> HIDE DEF earlier, revealed
<1>5. P(1) <=> Minable(line, f, t)
  BY <1>1, <1>4 DEF Minable
<1> HIDE DEF P
<1>6. ValidBody(line, f, txs) <=> Minable(line, f, t)
  BY <1>1, <1>3, <1>5
<1> QED
  BY <1>6 DEF txs

\* Finality that moves up the applied chain keeps every anchor.
LEMMA AnchorStays ==
    ASSUME NEW line, TreeLine(line), NEW f, f \in ToSet(line) \cup {NoHash}, NEW g,
           HeadMoves(line, f, g), NEW a, IsValidAnchor(line, f, a)
    PROVE  IsValidAnchor(line, g, a)
<1>1. ToSet(line) \subseteq Hash
  BY DEF TreeLine, ToSet
<1>2. a \in Hash /\ f \in Hash /\ HeightIn(a) <= HeightIn(f)
  BY <1>1 DEF IsValidAnchor
<1>3. CASE g = f
  BY <1>3
<1>4. CASE Finalizes(line, f, g)
  <2>1. g \in Hash /\ HeightIn(g) > HeightIn(f) /\ g # NoHash
    BY <1>1, <1>4, <1>2, NoHashAssumption DEF Finalizes
  <2>2. HeightIn(g) \in Nat /\ HeightIn(f) \in Nat /\ HeightIn(a) \in Nat
    BY <1>2, <2>1, HeightIsNatural, MaxHeightAssumption
  <2>3. HeightIn(a) <= HeightIn(g)
    BY <1>2, <2>1, <2>2
  <2> QED
    BY <2>1, <2>3 DEF IsValidAnchor
<1> QED
  BY <1>3, <1>4 DEF HeadMoves

-----------------------------------------------------------------------------
(* The invariant.                                                          *)

\* No held body is applied.
HeldUnapplied == pending \cap ToSet(applied) = {}

\* No two pooled transactions spend the same (the nullifier index of the pool).
NoConflict ==
    \A t, u \in pool : t # u => Surface[t].nullifiers \cap Surface[u].nullifiers = {}

PInv ==
    /\ NInv
    /\ HeldUnapplied
    /\ pool \subseteq Tx
    /\ NoConflict
    /\ PoolStaysMinable

\* on_block_connected over a drain: whatever is still pooled can be mined next.
LEMMA DrainKeepsMinable ==
    ASSUME PInv, NEW h \in Hash \ {Genesis}, IngestBlock(h), ConnectsBlocks
    PROVE  HeldUnapplied' /\ pool' \subseteq pool /\ PoolStaysMinable'
<1> DEFINE new == applied'
           s == Shared(applied, new)
<1>1. NInv
  BY DEF PInv
<1>2. /\ pending' = {b \in Buffered(h) : WorthHolding(b, new)}
      /\ stateFinal' = FinalAfter(FinalityRecord(latest, new))
  BY <1>1, IngestDrains DEF NInv
<1>3. PICK n \in 1 .. Len(applied) :
        /\ GoesOn(applied, n, new)
        /\ Len(new) = n => new = applied
        /\ \A i \in n + 1 .. Len(new) : new[i] \in Buffered(h)
  BY <1>1, IngestDrains DEF NInv
<1>4. pool' = Connected(pool, new, s)
  BY DEF ConnectsBlocks
<1>5. HeadMoves(new, stateFinal, stateFinal')
  BY <1>2, HeadAfter
<1> HIDE DEF new
<1>6. /\ TreeLine(applied) /\ TreeLine(new) /\ n <= Len(new)
      /\ applied \in Seq(Hash) /\ new \in Seq(Hash)
      /\ Len(applied) \in Nat /\ Len(new) \in Nat /\ n \in Nat
      /\ DOMAIN applied = 1 .. Len(applied) /\ DOMAIN new = 1 .. Len(new)
  <2>1. TreeLine(applied) /\ TreeLine(new) /\ n <= Len(new)
    BY <1>3 DEF GoesOn
  <2>2. applied \in Seq(Hash) /\ new \in Seq(Hash)
    BY <2>1 DEF TreeLine
  <2> QED
    BY <2>1, <2>2
<1>7. /\ s \in 1 .. Len(new) /\ s <= Len(applied) /\ applied[s] = new[s]
  BY <1>6, SharedPosition
<1> HIDE DEF s
<1>8. \A j \in 1 .. s : applied[j] = new[j]
  <2>1. s \in 1 .. Len(applied)
    BY <1>6, <1>7
  <2> QED
    BY <1>6, <1>7, <2>1, LinesAgree
<1>9. Buffered(h) \cap ToSet(applied) = {}
  BY DEF PInv, HeldUnapplied, Buffered, WorthHolding
<1>10. HeldUnapplied'
  BY <1>2 DEF HeldUnapplied, WorthHolding, new
<1>11. pool' = Kept(pool, new, s, Len(new) - s)
  <2>1. s \in Nat /\ s <= Len(new)
    BY <1>6, <1>7
  <2> QED
    BY <1>4, <1>6, <2>1, ConnectedKeeps DEF s
\* A drain that changes the chain ends with a block it applied.
<1>12. CASE new # applied
  <2>1. Len(new) # n
    BY <1>3, <1>12
  <2>2. n + 1 \in n + 1 .. Len(new) /\ n + 1 \in 1 .. Len(new)
    <3> DEFINE m == Len(new)
    <3>1. m \in Nat /\ n \in Nat /\ n <= m /\ m # n
      BY <1>6, <2>1
    <3> HIDE DEF m
    <3>2. n + 1 \in n + 1 .. m /\ n + 1 \in 1 .. m
      BY <3>1
    <3> QED
      BY <3>2 DEF m
  <2>3. new[n + 1] \notin ToSet(applied)
    BY <1>3, <1>9, <2>2
  <2>4. s < n + 1
    <3> SUFFICES ASSUME n + 1 <= s PROVE FALSE
      BY <1>6, <1>7
    <3>1. n + 1 \in 1 .. s /\ n + 1 \in 1 .. Len(applied)
      BY <1>6, <1>7
    <3>2. applied[n + 1] = new[n + 1]
      BY <1>8, <3>1
    <3> QED
      BY <1>6, <2>3, <3>1, <3>2 DEF ToSet
  <2>5. s < Len(new)
    BY <1>6, <1>7, <2>2, <2>4
  <2>6. pool' = {t \in pool : \A i \in 1 .. Len(new) - s : Survives(new, s + i, t)}
    BY <1>11 DEF Kept
  <2>7. ASSUME NEW t \in pool' PROVE Minable(new, stateFinal', t)
    <3>1. t \in pool /\ Minable(applied, stateFinal, t)
      BY <2>6, ValidAlone DEF PInv, PoolStaysMinable
    <3>2. \A j \in s + 1 .. Len(new) : Survives(new, j, t)
      <4> TAKE j \in s + 1 .. Len(new)
      <4>1. j - s \in 1 .. Len(new) - s /\ s + (j - s) = j
        BY <1>6, <1>7
      <4> QED
        BY <2>6, <4>1
    <3>3. Survives(new, Len(new), t) /\ SubSeq(new, 1, Len(new)) = new
      BY <1>6, <1>7, <2>5, <3>2, SubSeqFull
    <3>4. /\ IsValidAnchor(new, stateFinal, Surface[t].anchor)
          /\ CheckOp(Registry(new), Len(new), Surface[t].op, {})
      BY <3>3 DEF Survives, Evicts
    <3>5. IsValidAnchor(new, stateFinal', Surface[t].anchor)
      <4>1. stateFinal \in ToSet(new) \cup {NoHash}
        <5>1. Len(new) \in n .. Len(new)
          BY <1>6
        <5> QED
          BY <1>3, <5>1, HeadKept
      <4> QED
        BY <1>5, <1>6, <3>4, <4>1, AnchorStays
    <3>6. ASSUME NEW b \in ToSet(new)
          PROVE  Surface[t].nullifiers
                    \cap UNION {Surface[u].nullifiers : u \in ToSet(Body[b])} = {}
      <4>1. PICK j \in 1 .. Len(new) : b = new[j]
        BY <1>6 DEF ToSet
      <4>2. CASE j \in 1 .. s
        <5>1. b \in ToSet(applied)
          <6>1. j \in DOMAIN applied /\ b = applied[j]
            BY <1>6, <1>7, <1>8, <4>1, <4>2
          <6> QED
            BY <6>1 DEF ToSet
        <5> QED
          BY <3>1, <5>1 DEF Minable, Spent
      <4>3. CASE j \in s + 1 .. Len(new)
        <5>1. Last(SubSeq(new, 1, j)) = b
          BY <1>6, <4>1, PrefixLine
        <5> QED
          BY <3>2, <4>3, <5>1 DEF Survives, Evicts
      <4> QED
        BY <1>6, <1>7, <4>1, <4>2, <4>3
    <3>7. Surface[t].nullifiers \cap Spent(new) = {}
      BY <3>6 DEF Spent
    <3> QED
      BY <3>4, <3>5, <3>7 DEF Minable
  <2>8. PoolStaysMinable'
    BY <2>7, ValidAlone DEF PoolStaysMinable, new
  <2> QED
    BY <1>10, <2>6, <2>8
<1>13. CASE new = applied
  <2>1. pool' \subseteq pool
    BY <1>11 DEF Kept
  <2>2. ASSUME NEW t \in pool' PROVE Minable(new, stateFinal', t)
    <3>1. Minable(new, stateFinal, t)
      BY <1>13, <2>1, ValidAlone DEF PInv, PoolStaysMinable
    <3>2. stateFinal \in ToSet(new) \cup {NoHash}
      BY <1>1, <1>13 DEF NInv, HInv, HeadFits
    <3> QED
      BY <1>5, <1>6, <3>1, <3>2, AnchorStays DEF Minable
  <2>3. PoolStaysMinable'
    BY <2>2, ValidAlone DEF PoolStaysMinable, new
  <2> QED
    BY <1>10, <2>1, <2>3
<1> QED
  BY <1>12, <1>13

\* The applied chain and the pool stay, and finality at most moves up.
LEMMA PoolKeptMinable ==
    ASSUME PInv, applied' = applied, pool' = pool, HeadMoves(applied, stateFinal, stateFinal')
    PROVE  PoolStaysMinable'
<1>1. TreeLine(applied) /\ stateFinal \in ToSet(applied) \cup {NoHash}
  BY AppliedLine DEF PInv, NInv, HInv, HeadFits
<1>2. ASSUME NEW t \in pool PROVE Minable(applied, stateFinal', t)
  <2>1. Minable(applied, stateFinal, t)
    BY ValidAlone DEF PInv, PoolStaysMinable
  <2> QED
    BY <1>1, <2>1, AnchorStays DEF Minable
<1>3. \A t \in pool' : ValidBody(applied', stateFinal', <<t>>)
  BY <1>2, ValidAlone
<1> QED
  BY <1>3 DEF PoolStaysMinable

LEMMA PoolNextPInv ==
    ASSUME DiskHolds, PInv, [PoolNext]_poolVars
    PROVE  PInv'
<1>1. NInv'
  <2>1. [NodeNext]_nodeVars
    BY PoolStepIsNodeStep
  <2> QED
    BY <2>1, NodeNextNInv, NodeStutterNInv DEF PInv
\* submit_tx_typed: the candidate was judged as block validation judges it.
<1>2. ASSUME NEW t \in Tx, SubmitTx(t) PROVE PInv'
  <2>1. UNCHANGED <<applied, stateFinal, pending>> /\ pool' = pool \cup {t}
    BY <1>2 DEF SubmitTx, nodeVars, stateVars
  <2>2. ValidBody(applied, stateFinal, <<t>>)
    BY <1>2 DEF SubmitTx, Admits
  <2>3. \A u \in pool' : ValidBody(applied', stateFinal', <<u>>)
    BY <2>1, <2>2 DEF PInv, PoolStaysMinable
  <2>4. PoolStaysMinable'
    BY <2>3 DEF PoolStaysMinable
  <2>5. HeldUnapplied' /\ pool' \subseteq Tx
    BY <2>1 DEF PInv, HeldUnapplied
  <2>6. \A u \in pool : Surface[t].nullifiers \cap Surface[u].nullifiers = {}
    BY <1>2 DEF SubmitTx, Admits
  <2>7. NoConflict'
    BY <2>1, <2>6 DEF PInv, NoConflict
  <2> QED
    BY <1>1, <2>4, <2>5, <2>7 DEF PInv
<1>3. ASSUME NEW h \in Hash \ {Genesis}, SubmitHeader(h), UNCHANGED pool PROVE PInv'
  <2>1. UNCHANGED <<applied, stateFinal, pending>>
    BY <1>3 DEF SubmitHeader, stateVars
  <2>2. PoolStaysMinable'
    BY <1>3, <2>1, PoolKeptMinable DEF HeadMoves
  <2>3. HeldUnapplied' /\ pool' \subseteq Tx /\ NoConflict'
    BY <1>3, <2>1 DEF PInv, HeldUnapplied, NoConflict
  <2> QED
    BY <1>1, <2>2, <2>3 DEF PInv
<1>4. ASSUME NEW h \in Hash \ {Genesis}, IngestBlock(h), ConnectsBlocks PROVE PInv'
  <2>1. HeldUnapplied' /\ pool' \subseteq pool /\ PoolStaysMinable'
    BY <1>4, DrainKeepsMinable
  <2>2. NoConflict' /\ pool' \subseteq Tx
    BY <2>1 DEF PInv, NoConflict
  <2> QED
    BY <1>1, <2>1, <2>2 DEF PInv
<1>5. ASSUME NEW cp \in FinalLine, IngestVotes(cp), UNCHANGED pool PROVE PInv'
  <2>1. UNCHANGED <<applied, pending>> /\ stateFinal' = FinalAfter(FinalityRecord(cp, applied))
    BY <1>5 DEF IngestVotes
  <2>2. HeadMoves(applied, stateFinal, FinalAfter(FinalityRecord(cp, applied)))
    BY HeadAfter
  <2>3. PoolStaysMinable'
    BY <1>5, <2>1, <2>2, PoolKeptMinable
  <2>4. HeldUnapplied' /\ pool' \subseteq Tx /\ NoConflict'
    BY <1>5, <2>1 DEF PInv, HeldUnapplied, NoConflict
  <2> QED
    BY <1>1, <2>3, <2>4 DEF PInv
\* The pool is not persisted.
<1>6. ASSUME pending' = {}, pool' = {} PROVE PInv'
  BY <1>1, <1>6 DEF PInv, HeldUnapplied, NoConflict, PoolStaysMinable
<1>7. ASSUME NEW s, NEW records, Adopt(s, records), pool' = {} PROVE PInv'
  BY <1>6, <1>7 DEF Adopt
<1>8. ASSUME UNCHANGED poolVars PROVE PInv'
  <2>1. UNCHANGED <<applied, stateFinal, pending, pool>>
    BY <1>8 DEF poolVars, nodeVars, stateVars
  <2>2. PoolStaysMinable'
    BY <2>1, PoolKeptMinable DEF HeadMoves
  <2>3. HeldUnapplied' /\ pool' \subseteq Tx /\ NoConflict'
    BY <2>1 DEF PInv, HeldUnapplied, NoConflict
  <2> QED
    BY <1>1, <2>2, <2>3 DEF PInv
<1>9. ASSUME Restart, pool' = {} PROVE PInv'
  BY <1>7, <1>9 DEF Restart, Reopen
<1>10. ASSUME NEW h \in Hash \ {Genesis}, CrashInDrain(h), pool' = {} PROVE PInv'
  BY <1>7, <1>10 DEF CrashInDrain, Reopen
<1> QED
  BY <1>2, <1>3, <1>4, <1>5, <1>8, <1>9, <1>10 DEF PoolNext

LEMMA PoolInvariant ==
    ASSUME DiskHolds
    PROVE  PoolSpec => []PInv
<1>1. PoolInit => PInv
  <2> SUFFICES ASSUME PoolInit PROVE PInv
    OBVIOUS
  <2>1. NInv
    BY NodeInitNInv DEF PoolInit
  <2> QED
    BY <2>1 DEF PoolInit, NodeInit, PInv, HeldUnapplied, NoConflict, PoolStaysMinable
<1> QED
  BY <1>1, PoolNextPInv, PTL DEF PoolSpec

-----------------------------------------------------------------------------

\* Whatever is pooled can be mined next (on_block_connected), after any sequence of
\* admissions, reorganizations, finalizations, expiries and restarts.
THEOREM PoolMinable ==
    ASSUME DiskHolds
    PROVE  PoolSpec => []PoolStaysMinable
<1>1. PInv => PoolStaysMinable
  BY DEF PInv
<1> QED
  BY <1>1, PoolInvariant, PTL

\* Whom a drain evicts: one that spends what a connected block spent, or whose anchor
\* it put out of reach, stays invalid to the end of the drain.  A rewind keeps the
\* finalized head, so an anchor that is good on the new tip was good on every
\* connected block.
LEMMA EvictedStaysOut ==
    ASSUME HInv, NEW h \in Hash \ {Genesis}, IngestBlock(h), ConnectsBlocks,
           NEW t \in pool \ pool'
    PROVE  \/ ~ ValidBody(applied', stateFinal, <<t>>)
           \/ \E j \in Shared(applied, applied') + 1 .. Len(applied') :
                 ~ CheckOp(Registry(SubSeq(applied', 1, j)), j, Surface[t].op, {})
<1> DEFINE new == applied'
           s == Shared(applied, new)
<1>1. PICK n \in 1 .. Len(applied) : GoesOn(applied, n, new)
  BY IngestDrains
<1>2. pool' = Connected(pool, new, s)
  BY DEF ConnectsBlocks
<1> HIDE DEF new
<1>3. /\ TreeLine(applied) /\ TreeLine(new) /\ n <= Len(new)
      /\ applied \in Seq(Hash) /\ new \in Seq(Hash)
      /\ Len(applied) \in Nat /\ Len(new) \in Nat /\ n \in Nat /\ n >= 1
      /\ DOMAIN applied = 1 .. Len(applied) /\ DOMAIN new = 1 .. Len(new)
  <2>1. TreeLine(applied) /\ TreeLine(new) /\ n <= Len(new)
    BY <1>1 DEF GoesOn
  <2>2. applied \in Seq(Hash) /\ new \in Seq(Hash)
    BY <2>1 DEF TreeLine
  <2> QED
    BY <2>1, <2>2
<1>4. SubSeq(new, 1, n) = SubSeq(applied, 1, n) /\ MayRewind(applied, stateFinal, n)
  BY <1>1 DEF GoesOn
<1>5. /\ s \in 1 .. Len(new)
      /\ \A j \in 1 .. Len(new) : j <= Len(applied) /\ applied[j] = new[j] => j <= s
  BY <1>3, SharedPosition
<1> HIDE DEF s
<1>6. n <= s
  <2>1. n \in 1 .. n /\ n \in 1 .. Len(new) /\ n <= Len(applied)
    BY <1>3
  <2>2. SubSeq(new, 1, n)[n] = new[n] /\ SubSeq(applied, 1, n)[n] = applied[n]
    BY <1>3, <2>1
  <2> QED
    BY <1>4, <1>5, <2>1, <2>2
<1>7. pool' = Kept(pool, new, s, Len(new) - s)
  <2>1. s \in Nat /\ s <= Len(new)
    BY <1>3, <1>5
  <2> QED
    BY <1>2, <1>3, <2>1, ConnectedKeeps
<1>8. PICK i \in 1 .. Len(new) - s : Evicts(SubSeq(new, 1, s + i), stateFinal, t)
  BY <1>7 DEF Kept, Survives
<1> DEFINE j == s + i
           part == SubSeq(new, 1, j)
<1>9. j \in s + 1 .. Len(new) /\ j \in 1 .. Len(new) /\ j \in Nat /\ n <= j /\ j <= Len(new)
  BY <1>3, <1>5, <1>6
<1>10. Evicts(part, stateFinal, t)
  BY <1>8
<1> HIDE DEF j
<1>11. TreeLine(part) /\ Len(part) = j /\ Last(part) = new[j]
  BY <1>3, <1>9, PrefixLine
<1>12. CASE Surface[t].nullifiers
               \cap UNION {Surface[u].nullifiers : u \in ToSet(Body[Last(part)])} # {}
  <2>1. new[j] \in ToSet(new)
    BY <1>3, <1>9 DEF ToSet
  <2> HIDE DEF part
  <2>2. Surface[t].nullifiers \cap Spent(new) # {}
    BY <1>11, <1>12, <2>1 DEF Spent
  <2>3. ~ ValidBody(new, stateFinal, <<t>>)
    BY <2>2, ValidAlone DEF Minable
  <2> QED
    BY <2>3 DEF new
<1>13. CASE ~ IsValidAnchor(part, stateFinal, Surface[t].anchor)
  <2> DEFINE a == Surface[t].anchor
  <2>1. ASSUME IsValidAnchor(new, stateFinal, a) PROVE IsValidAnchor(part, stateFinal, a)
    <3>1. /\ stateFinal # NoHash /\ a \in ToSet(new) /\ HeightIn(a) <= HeightIn(stateFinal)
          /\ Len(new) - 1 - HeightIn(a) <= MaxAnchorAge
      BY <2>1 DEF IsValidAnchor, HeightOfLine
    <3> HIDE DEF a
    <3>2. PICK k \in 1 .. Len(new) : a = new[k]
      BY <1>3, <3>1 DEF ToSet
    <3>3. stateFinal \in ToSet(SubSeq(applied, 1, n))
      BY <1>4, <3>1 DEF MayRewind
    <3>4. PICK f \in 1 .. n : stateFinal = applied[f]
      BY <1>3, <3>3 DEF ToSet
    <3>5. HeightIn(stateFinal) = f - 1 /\ HeightIn(a) = k - 1
      <4>1. f \in 1 .. Len(applied)
        BY <1>3, <3>4
      <4> QED
        BY <1>3, <3>2, <3>4, <4>1 DEF TreeLine
    <3>6. k <= j /\ k \in 1 .. j
      BY <1>3, <1>9, <3>1, <3>2, <3>4, <3>5
    <3>7. part[k] = a /\ k \in DOMAIN part
      BY <1>3, <1>9, <3>2, <3>6
    <3>8. a \in ToSet(part)
      BY <3>7 DEF ToSet
    <3> DEFINE m == Len(new)
    <3>9. (j - 1) - HeightIn(a) <= MaxAnchorAge
      <4>1. m \in Nat /\ j <= m /\ m - 1 - HeightIn(a) <= MaxAnchorAge /\ HeightIn(a) = k - 1
            /\ k \in Nat /\ MaxAnchorAge \in Nat /\ j \in Nat
        BY <1>3, <1>9, <3>1, <3>2, <3>5, AgeAssumption
      <4> HIDE DEF m
      <4> QED
        BY <4>1
    <3> QED
      BY <1>11, <3>1, <3>8, <3>9 DEF IsValidAnchor, HeightOfLine
  <2>2. ~ ValidBody(new, stateFinal, <<t>>)
    BY <1>13, <2>1, ValidAlone DEF Minable
  <2> QED
    BY <2>2 DEF new
<1>14. CASE ~ CheckOp(Registry(part), Len(part), Surface[t].op, {})
  <2>1. ~ CheckOp(Registry(SubSeq(new, 1, j)), j, Surface[t].op, {})
    BY <1>11, <1>14
  <2> QED
    BY <1>9, <2>1 DEF new, s
<1> QED
  BY <1>10, <1>12, <1>13, <1>14 DEF Evicts

Counted == restarts \in Nat

LEMMA RestartsAreCounted == PoolSpec => []Counted
<1>1. PoolInit => Counted
  BY DEF PoolInit, NodeInit, Counted
<1>2. Counted /\ [PoolNext]_poolVars => Counted'
  <2> SUFFICES ASSUME restarts \in Nat, [PoolNext]_poolVars PROVE restarts' \in Nat
    BY DEF Counted
  <2>1. ASSUME NEW s, NEW records, Adopt(s, records) PROVE restarts' \in Nat
    BY <2>1 DEF Adopt
  <2>2. ASSUME Restart \/ \E h \in Hash \ {Genesis} : CrashInDrain(h) PROVE restarts' \in Nat
    BY <2>1, <2>2 DEF Restart, CrashInDrain, Reopen
  <2>3. ASSUME UNCHANGED nodeVars PROVE restarts' \in Nat
    BY <2>3 DEF nodeVars
  <2>4. ASSUME NEW h, SubmitHeader(h) \/ IngestBlock(h) PROVE restarts' \in Nat
    BY <2>4 DEF SubmitHeader, IngestBlock
  <2>5. ASSUME NEW cp, IngestVotes(cp) PROVE restarts' \in Nat
    BY <2>5 DEF IngestVotes
  <2>6. CASE UNCHANGED poolVars
    BY <2>3, <2>6 DEF poolVars
  <2>7. CASE PoolNext
    BY <2>2, <2>3, <2>4, <2>5, <2>7 DEF PoolNext, SubmitTx
  <2> QED
    BY <2>6, <2>7
<1> QED
  BY <1>1, <1>2, PTL DEF PoolSpec

\* A drain drops a transaction only when it cannot be mined on the chain the drain ends
\* with, or because of its name operation (on_block_connected, once per block).
THEOREM OnlyDoomedEvicted ==
    ASSUME DiskHolds
    PROVE  PoolSpec => EvictsOnlyDoomed
<1> DEFINE A == restarts' = restarts =>
                  \A t \in pool \ pool' :
                     \/ ~ ValidBody(applied', stateFinal, <<t>>)
                     \/ \E n \in Shared(applied, applied') + 1 .. Len(applied') :
                           ~ CheckOp(Registry(SubSeq(applied', 1, n)), n, Surface[t].op, {})
<1>1. PInv /\ Counted /\ [PoolNext]_poolVars => [A]_poolVars
  <2> SUFFICES ASSUME PInv, restarts \in Nat, PoolNext, restarts' = restarts, NEW t \in pool \ pool'
               PROVE  \/ ~ ValidBody(applied', stateFinal, <<t>>)
                      \/ \E n \in Shared(applied, applied') + 1 .. Len(applied') :
                            ~ CheckOp(Registry(SubSeq(applied', 1, n)), n, Surface[t].op, {})
    BY DEF Counted
  <2>1. ASSUME NEW s, NEW records, Adopt(s, records) PROVE FALSE
    BY <2>1 DEF Adopt
  <2>2. ~ Restart /\ \A h \in Hash \ {Genesis} : ~ CrashInDrain(h)
    BY <2>1 DEF Restart, CrashInDrain, Reopen
  <2>3. PICK h \in Hash \ {Genesis} : IngestBlock(h) /\ ConnectsBlocks
    BY <2>2 DEF PoolNext, SubmitTx
  <2> QED
    BY <2>3, EvictedStaysOut DEF PInv, NInv
<1> QED
  BY <1>1, PoolInvariant, RestartsAreCounted, PTL DEF PoolSpec, EvictsOnlyDoomed

-----------------------------------------------------------------------------
(* What assemble fills.                                                    *)

\* One turn of the fill loop.
Fill(txs, chosen, t) == IF t \in txs /\ Takes(chosen, t) THEN Append(chosen, t) ELSE chosen

\* g tabulates the loop for the sets of positions of FeeOrder up to n.
Fills(g, txs, n) ==
    g = [s \in SUBSET (1 .. n) |->
            IF s = {} THEN << >> ELSE Fill(txs, g[s \ {Max(s)}], FeeOrder[Max(s)])]

LEMMA FillGrows ==
    ASSUME NEW n \in Nat, NEW txs, NEW g, Fills(g, txs, n)
    PROVE  \E h : Fills(h, txs, n + 1)
<1> DEFINE h == [s \in SUBSET (1 .. n + 1) |->
                    IF n + 1 \in s THEN Fill(txs, g[s \ {n + 1}], FeeOrder[n + 1]) ELSE g[s]]
<1>1. ASSUME NEW s \in SUBSET (1 .. n + 1)
      PROVE  h[s] = IF s = {} THEN << >> ELSE Fill(txs, h[s \ {Max(s)}], FeeOrder[Max(s)])
  <2>1. CASE n + 1 \in s
    <3>1. Max(s) = n + 1
      <4> HIDE DEF h
      <4>1. n + 1 \in Nat /\ s \subseteq 1 .. n + 1 /\ s # {}
        BY <2>1
      <4>2. Max(s) \in s /\ \A j \in s : j <= Max(s)
        BY <4>1, MaxPosition
      <4>3. Max(s) \in 1 .. n + 1 /\ n + 1 <= Max(s)
        BY <4>1, <4>2, <2>1
      <4> HIDE DEF Max
      <4> QED
        BY <4>3
    <3>2. h[s \ {n + 1}] = g[s \ {n + 1}]
      OBVIOUS
    <3> HIDE DEF h
    <3>3. h[s] = Fill(txs, g[s \ {n + 1}], FeeOrder[n + 1])
      BY <2>1 DEF h
    <3> QED
      BY <2>1, <3>1, <3>2, <3>3
  <2>2. CASE n + 1 \notin s
    <3>1. s \in SUBSET (1 .. n) /\ h[s] = g[s]
      BY <2>2
    <3>2. s \ {Max(s)} \in SUBSET (1 .. n + 1) /\ n + 1 \notin s \ {Max(s)}
      BY <2>2
    <3>3. h[s \ {Max(s)}] = g[s \ {Max(s)}]
      BY <3>2
    <3> HIDE DEF h
    <3>4. g[s] = IF s = {} THEN << >> ELSE Fill(txs, g[s \ {Max(s)}], FeeOrder[Max(s)])
      BY <3>1 DEF Fills
    <3> QED
      BY <3>1, <3>3, <3>4
  <2> QED
    BY <2>1, <2>2
<1>2. Fills(h, txs, n + 1)
  BY <1>1 DEF Fills
<1> QED
  BY <1>2

LEMMA FillExists ==
    ASSUME NEW txs
    PROVE  \A n \in Nat : \E g : Fills(g, txs, n)
<1> DEFINE S == {n \in Nat : \E g : Fills(g, txs, n)}
<1>1. 0 \in S
  <2>1. SUBSET (1 .. 0) = {{}}
    OBVIOUS
  <2> DEFINE g == [s \in {{}} |-> << >>]
  <2>2. Fills(g, txs, 0)
    BY <2>1 DEF Fills
  <2> QED
    BY <2>2
<1>2. \A n \in Nat : n \in S => n + 1 \in S
  BY FillGrows
<1> HIDE DEF S
<1>3. Nat \subseteq S
  BY <1>1, <1>2, SetInduction
<1> QED
  BY <1>3 DEF S

Reveals(t) == Surface[t].op.kind = "reveal"

\* A fill of transactions among the first n of FeeOrder: pooled, each once, and each
\* name revealed once.
Fitting(chosen, txs, n) ==
    /\ chosen \in Seq(Tx)
    /\ \A i \in 1 .. Len(chosen) :
          chosen[i] \in txs /\ \E k \in 1 .. n : chosen[i] = FeeOrder[k]
    /\ \A i \in 1 .. Len(chosen) : \A j \in 1 .. i - 1 :
          /\ chosen[j] # chosen[i]
          /\ Reveals(chosen[j]) /\ Reveals(chosen[i]) =>
                Surface[chosen[j]].op.name # Surface[chosen[i]].op.name

\* A turn of the loop of assemble keeps the fill fitting.
LEMMA FillFits ==
    ASSUME NEW txs, NEW n \in Nat, n + 1 \in DOMAIN FeeOrder, NEW chosen, Fitting(chosen, txs, n)
    PROVE  Fitting(Fill(txs, chosen, FeeOrder[n + 1]), txs, n + 1)
<1> DEFINE t == FeeOrder[n + 1]
           m == Len(chosen)
           longer == Append(chosen, t)
<1>1. t \in Tx /\ FeeOrder \in Seq(Tx) /\ IsInjective(FeeOrder)
  BY OrderAssumption
<1>2. chosen \in Seq(Tx) /\ m \in Nat
  BY DEF Fitting
<1>3. CASE ~ (t \in txs /\ Takes(chosen, t))
  <2>1. Fill(txs, chosen, t) = chosen
    BY <1>3 DEF Fill
  <2>2. 1 .. n \subseteq 1 .. n + 1
    OBVIOUS
  <2>3. Fitting(chosen, txs, n + 1)
    BY <2>2 DEF Fitting
  <2> QED
    BY <2>1, <2>3
<1>4. CASE t \in txs /\ Takes(chosen, t)
  <2>1. Fill(txs, chosen, t) = longer
    BY <1>4 DEF Fill
  <2>2. /\ longer \in Seq(Tx) /\ Len(longer) = m + 1
        /\ longer[m + 1] = t /\ \A i \in 1 .. m : longer[i] = chosen[i]
    BY <1>1, <1>2, AppendProperties
  <2>3. ASSUME NEW j \in 1 .. m
        PROVE  chosen[j] # t /\ (Reveals(chosen[j]) /\ Reveals(t) =>
                                   Surface[chosen[j]].op.name # Surface[t].op.name)
    <3>1. PICK k \in 1 .. n : chosen[j] = FeeOrder[k]
      BY DEF Fitting
    <3>2. k \in DOMAIN FeeOrder /\ k # n + 1
      BY <1>1
    <3>3. chosen[j] # t
      BY <1>1, <3>1, <3>2 DEF IsInjective
    <3>4. chosen[j] \in ToSet(chosen)
      BY <1>2 DEF ToSet
    <3> QED
      BY <1>4, <3>3, <3>4 DEF Takes, Reveals
  <2> HIDE DEF t, m, longer
  <2>4. \A i \in 1 .. m + 1 : longer[i] \in txs /\ \E k \in 1 .. n + 1 : longer[i] = FeeOrder[k]
    <3> TAKE i \in 1 .. m + 1
    <3>1. CASE i \in 1 .. m
      <4>1. chosen[i] \in txs /\ \E k \in 1 .. n : chosen[i] = FeeOrder[k]
        BY <3>1 DEF Fitting, m
      <4>2. 1 .. n \subseteq 1 .. n + 1
        OBVIOUS
      <4> QED
        BY <2>2, <3>1, <4>1, <4>2
    <3>2. CASE i = m + 1
      <4>1. n + 1 \in 1 .. n + 1
        OBVIOUS
      <4> QED
        BY <1>4, <2>2, <3>2, <4>1 DEF t
    <3> QED
      BY <1>2, <3>1, <3>2
  <2>5. \A i \in 1 .. m + 1 : \A j \in 1 .. i - 1 :
          /\ longer[j] # longer[i]
          /\ Reveals(longer[j]) /\ Reveals(longer[i]) =>
                Surface[longer[j]].op.name # Surface[longer[i]].op.name
    <3> TAKE i \in 1 .. m + 1
    <3> TAKE j \in 1 .. i - 1
    <3>1. j \in 1 .. m
      BY <1>2
    <3>2. CASE i \in 1 .. m
      <4>1. /\ chosen[j] # chosen[i]
            /\ Reveals(chosen[j]) /\ Reveals(chosen[i]) =>
                  Surface[chosen[j]].op.name # Surface[chosen[i]].op.name
        BY <3>2 DEF Fitting, m
      <4> QED
        BY <2>2, <3>1, <3>2, <4>1
    <3>3. CASE i = m + 1
      BY <2>2, <2>3, <3>1, <3>3
    <3> QED
      BY <1>2, <3>2, <3>3
  <2>6. Fitting(longer, txs, n + 1)
    BY <2>2, <2>4, <2>5 DEF Fitting
  <2> QED
    BY <2>1, <2>6 DEF t
<1> QED
  BY <1>3, <1>4

LEMMA TemplateFits ==
    ASSUME NEW txs
    PROVE  Fitting(Template(txs), txs, Len(FeeOrder))
<1> DEFINE n == Len(FeeOrder)
           g == CHOOSE f : Fills(f, txs, n)
<1>1. FeeOrder \in Seq(Tx) /\ DOMAIN FeeOrder = 1 .. n /\ n \in Nat
  BY OrderAssumption
<1>2. Fills(g, txs, n)
  BY <1>1, FillExists
<1>3. Template(txs) =
        (CHOOSE f : f = [s \in SUBSET DOMAIN FeeOrder |->
            IF s = {} THEN << >>
            ELSE IF FeeOrder[Max(s)] \in txs /\ Takes(f[s \ {Max(s)}], FeeOrder[Max(s)])
                 THEN Append(f[s \ {Max(s)}], FeeOrder[Max(s)])
                 ELSE f[s \ {Max(s)}]])[DOMAIN FeeOrder]
  BY DEF Template, FoldLeft, MapThenFoldSet
<1>4. Template(txs) = g[1 .. n]
  BY <1>1, <1>3 DEF Fills, Fill
<1> HIDE DEF g, n
<1> DEFINE S == {k \in Nat : k <= n => Fitting(g[1 .. k], txs, k)}
<1>5. 0 \in S
  <2>1. 1 .. 0 = {} /\ {} \in SUBSET (1 .. n)
    OBVIOUS
  <2>2. g[{}] = << >>
    BY <1>2, <2>1 DEF Fills
  <2>3. Fitting(<< >>, txs, 0)
    BY DEF Fitting
  <2> QED
    BY <2>1, <2>2, <2>3
<1>6. ASSUME NEW k \in Nat, k \in S PROVE k + 1 \in S
  <2> SUFFICES ASSUME k + 1 <= n PROVE Fitting(g[1 .. k + 1], txs, k + 1)
    OBVIOUS
  <2>1. Fitting(g[1 .. k], txs, k)
    BY <1>1, <1>6
  <2> HIDE DEF S
  <2>2. Max(1 .. k + 1) = k + 1 /\ 1 .. k + 1 # {} /\ (1 .. k + 1) \ {k + 1} = 1 .. k
    BY TopOfRange
  <2>3. 1 .. k + 1 \in SUBSET (1 .. n) /\ k + 1 \in DOMAIN FeeOrder
    BY <1>1
  <2>4. g[1 .. k + 1] = Fill(txs, g[1 .. k], FeeOrder[k + 1])
    BY <1>2, <2>2, <2>3 DEF Fills
  <2> QED
    BY <2>1, <2>3, <2>4, FillFits
<1> HIDE DEF S
<1>7. Nat \subseteq S
  BY <1>5, <1>6, SetInduction
<1>8. Fitting(g[1 .. n], txs, n)
  BY <1>1, <1>7 DEF S
<1> QED
  BY <1>4, <1>8 DEF n

\* A transaction that is valid alone is valid after others that reveal other names
\* and spend other notes.
LEMMA ValidTogether ==
    ASSUME NEW line, NEW f, NEW txs, NEW n \in Nat, NEW chosen, Fitting(chosen, txs, n),
           \A t \in txs : Minable(line, f, t),
           \A t, u \in txs : t # u => Surface[t].nullifiers \cap Surface[u].nullifiers = {}
    PROVE  ValidBody(line, f, chosen)
<1> DEFINE earlier(i) == {chosen[j] : j \in 1 .. i - 1}
           revealed(i) == {Surface[v].op.name :
                             v \in {u \in earlier(i) : Surface[u].op.kind = "reveal"}}
           P(i) == /\ IsValidAnchor(line, f, Surface[chosen[i]].anchor)
                   /\ CheckOp(Registry(line), Len(line), Surface[chosen[i]].op, revealed(i))
                   /\ Surface[chosen[i]].nullifiers \cap Spent(line) = {}
                   /\ \A v \in earlier(i) :
                         Surface[chosen[i]].nullifiers \cap Surface[v].nullifiers = {}
<1>1. ValidBody(line, f, chosen) <=> \A i \in DOMAIN chosen : P(i)
  BY DEF ValidBody
<1>2. chosen \in Seq(Tx) /\ DOMAIN chosen = 1 .. Len(chosen) /\ Len(chosen) \in Nat
  BY DEF Fitting
<1>3. ASSUME NEW i \in 1 .. Len(chosen) PROVE P(i)
  <2> DEFINE t == chosen[i]
             op == Surface[t].op
  <2>1. t \in txs /\ Minable(line, f, t)
    BY DEF Fitting
  <2>2. ASSUME NEW v \in earlier(i)
        PROVE  v \in txs /\ v # t
               /\ (Reveals(v) /\ Reveals(t) => Surface[v].op.name # op.name)
    <3>1. PICK j \in 1 .. i - 1 : v = chosen[j]
      BY <2>2
    <3>2. j \in 1 .. Len(chosen)
      BY <1>2
    <3> QED
      BY <3>1, <3>2 DEF Fitting
  <2> HIDE DEF earlier
  <2>3. op.kind = "reveal" => op.name \notin revealed(i)
    BY <2>2 DEF Reveals
  <2>4. \A v \in earlier(i) : Surface[t].nullifiers \cap Surface[v].nullifiers = {}
    BY <2>1, <2>2
  <2> HIDE DEF revealed
  <2>5. CheckOp(Registry(line), Len(line), op, {})
    BY <2>1 DEF Minable
  <2> HIDE DEF op
  <2>6. op.kind \in {"none", "commit", "reveal", "renew"}
    BY <1>2, SurfaceAssumption DEF op, NameOps
  <2>7. CheckOp(Registry(line), Len(line), op, revealed(i))
    BY <2>3, <2>5, <2>6 DEF CheckOp
  <2> QED
    BY <2>1, <2>4, <2>7 DEF Minable, op
<1> HIDE DEF P
<1> QED
  BY <1>1, <1>2, <1>3

\* The block assemble builds on the applied tip passes the node's own validation,
\* whatever was pooled, mined, reorganized or finalized before.
THEOREM TemplateIsValid ==
    ASSUME DiskHolds
    PROVE  PoolSpec => []TemplateValidates
<1>1. ASSUME PInv PROVE TemplateValidates
  <2>1. \A t \in pool : Minable(applied, stateFinal, t)
    BY <1>1, ValidAlone DEF PInv, PoolStaysMinable
  <2>2. \A t, u \in pool : t # u => Surface[t].nullifiers \cap Surface[u].nullifiers = {}
    BY <1>1 DEF PInv, NoConflict
  <2>3. Len(FeeOrder) \in Nat /\ Fitting(Template(pool), pool, Len(FeeOrder))
    BY OrderAssumption, TemplateFits
  <2> QED
    BY <2>1, <2>2, <2>3, ValidTogether DEF TemplateValidates
<1> QED
  BY <1>1, PoolInvariant, PTL
=============================================================================
