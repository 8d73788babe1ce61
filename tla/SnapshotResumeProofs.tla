------------------------- MODULE SnapshotResumeProofs -------------------------
(***************************************************************************)
(* Proofs about SnapshotResume, for every tree of blocks, every limit and  *)
(* any order of headers, bodies and votes.                                 *)
(*                                                                         *)
(* The three loops of open_inner are folds of the log; FoldOf tabulates    *)
(* them, so that what one record does can be carried along a log.          *)
(*                                                                         *)
(* The derived state.  RInv is inductive, whatever reaches the disk: the   *)
(* heads are those of HInv (NodeProofs), and the state in memory and the   *)
(* snapshot's are each the fold of a line of the tree (Coherent, SnapOK).  *)
(* The blocks a resume takes from the log have to be the ones that the     *)
(* snapshot's state folds: they are, as the line to a block is unique, the *)
(* prefix has to end on the snapshot's tip, and near the tip the line is   *)
(* that of a finalized block.  From there each record appends to both or   *)
(* folds both again.                                                       *)
(*                                                                         *)
(* The resume beside the replay.  TailReaches compares the tail's loop     *)
(* with a replay of the same log, record by record.  The tail never leaves *)
(* the snapshot's line; from the last time the replay comes onto it, the   *)
(* tail's line is ahead of the replay's or equal to it, and the blocks and *)
(* finalizations that the replay takes, the tail takes or has already.     *)
(* That needs a log whose replay refuses nothing (OwnLog), which FirstLife *)
(* says of the log up to the first restart.  A resume may end ahead of the *)
(* log's replay, and the log it goes on with is no such log any more: this *)
(* is what OneRestart is for, and a second restart can undo finality.      *)
(* DiskHolds excludes a failed append.                                     *)
(***************************************************************************)
EXTENDS SnapshotResume, NodeProofs

-----------------------------------------------------------------------------
(* Folds of a log.                                                         *)

\* What the loops over the records of a log do with one of them.
Turn(mode, n, s, r) ==
    IF mode = "replay" THEN ResumedRecord(s, r)
    ELSE IF mode = "prefix" THEN IF InPrefix(r, n) THEN LoggedRecord(s, r) ELSE s
    ELSE IF mode = "tail" THEN IF InTail(r, n) THEN ResumedRecord(s, r) ELSE s
    ELSE IF mode = "skip" THEN IF InTail(r, n) THEN TailRecord(s, r) ELSE s
    ELSE IF mode = "final" THEN IF ~ IsBlock(r) /\ r.hash \in n THEN r.hash ELSE s
    ELSE IF r \in n THEN s ELSE Append(s, r)

\* g tabulates a loop for the sets of positions up to n (the community module's
\* FoldLeft).
Table(g, mode, m0, base, seq, n) ==
    g = [s \in SUBSET (1 .. n) |->
            IF s = {} THEN base ELSE Turn(mode, m0, g[s \ {Max(s)}], seq[Max(s)])]

LEMMA TableGrows ==
    ASSUME NEW n \in Nat, NEW mode, NEW m0, NEW base, NEW seq, NEW g, Table(g, mode, m0, base, seq, n)
    PROVE  \E h : Table(h, mode, m0, base, seq, n + 1)
<1> DEFINE h == [s \in SUBSET (1 .. n + 1) |->
                    IF n + 1 \in s THEN Turn(mode, m0, g[s \ {n + 1}], seq[n + 1]) ELSE g[s]]
<1>1. ASSUME NEW s \in SUBSET (1 .. n + 1)
      PROVE  h[s] = IF s = {} THEN base ELSE Turn(mode, m0, h[s \ {Max(s)}], seq[Max(s)])
  <2>1. CASE n + 1 \in s
    <3>1. Max(s) = n + 1
      <4> HIDE DEF h
      <4>1. n + 1 \in Nat /\ s \subseteq 1 .. n + 1 /\ s # {}
        BY <2>1
      <4>2. Max(s) \in s /\ \A j \in s : j <= Max(s)
        BY <4>1, MaxPosition
      <4>3. Max(s) \in 1 .. n + 1 /\ n + 1 <= Max(s)
        BY <4>1, <4>2, <2>1
      <4> HIDE DEF Max
      <4> QED
        BY <4>3
    <3>2. h[s \ {n + 1}] = g[s \ {n + 1}]
      OBVIOUS
    <3> HIDE DEF h
    <3>3. h[s] = Turn(mode, m0, g[s \ {n + 1}], seq[n + 1])
      BY <2>1 DEF h
    <3> QED
      BY <2>1, <3>1, <3>2, <3>3
  <2>2. CASE n + 1 \notin s
    <3>1. s \in SUBSET (1 .. n) /\ h[s] = g[s]
      BY <2>2
    <3>2. s \ {Max(s)} \in SUBSET (1 .. n + 1) /\ n + 1 \notin s \ {Max(s)}
      BY <2>2
    <3>3. h[s \ {Max(s)}] = g[s \ {Max(s)}]
      BY <3>2
    <3> HIDE DEF h
    <3>4. g[s] = IF s = {} THEN base ELSE Turn(mode, m0, g[s \ {Max(s)}], seq[Max(s)])
      BY <3>1 DEF Table
    <3> QED
      BY <3>1, <3>3, <3>4
  <2> QED
    BY <2>1, <2>2
<1>2. Table(h, mode, m0, base, seq, n + 1)
  BY <1>1 DEF Table
<1> QED
  BY <1>2

LEMMA TableExists ==
    ASSUME NEW mode, NEW m0, NEW base, NEW seq
    PROVE  \A n \in Nat : \E g : Table(g, mode, m0, base, seq, n)
<1> DEFINE S == {n \in Nat : \E g : Table(g, mode, m0, base, seq, n)}
<1>1. 0 \in S
  <2>1. SUBSET (1 .. 0) = {{}}
    OBVIOUS
  <2> DEFINE g == [s \in {{}} |-> base]
  <2>2. Table(g, mode, m0, base, seq, 0)
    BY <2>1 DEF Table
  <2> QED
    BY <2>2
<1>2. \A n \in Nat : n \in S => n + 1 \in S
  BY TableGrows
<1> HIDE DEF S
<1>3. Nat \subseteq S
  BY <1>1, <1>2, SetInduction
<1> QED
  BY <1>3 DEF S

\* Two tabulations agree as far as their records do.
Agree(g, h, seq, seq2, n, m) ==
    \A k \in Nat : (k <= n /\ k <= m /\ \A i \in 1 .. k : seq[i] = seq2[i]) => g[1 .. k] = h[1 .. k]

LEMMA TablesAgree ==
    ASSUME NEW mode, NEW m0, NEW base, NEW n \in Nat, NEW m \in Nat, NEW seq, NEW seq2, NEW g, NEW h,
           Table(g, mode, m0, base, seq, n), Table(h, mode, m0, base, seq2, m)
    PROVE  Agree(g, h, seq, seq2, n, m)
<1> DEFINE P(k) == (k <= n /\ k <= m /\ \A i \in 1 .. k : seq[i] = seq2[i])
                     => g[1 .. k] = h[1 .. k]
           S == {k \in Nat : P(k)}
<1>1. 0 \in S
  <2>1. 1 .. 0 = {}
    OBVIOUS
  <2>2. g[{}] = base /\ h[{}] = base
    BY DEF Table
  <2> QED
    BY <2>1, <2>2
<1>2. ASSUME NEW k \in Nat, k \in S PROVE k + 1 \in S
  <2> SUFFICES ASSUME k + 1 <= n, k + 1 <= m, \A i \in 1 .. k + 1 : seq[i] = seq2[i]
               PROVE  g[1 .. k + 1] = h[1 .. k + 1]
    OBVIOUS
  <2>1. g[1 .. k] = h[1 .. k]
    BY <1>2
  <2> HIDE DEF S
  <2>2. 1 .. k + 1 \in SUBSET (1 .. n) /\ 1 .. k + 1 \in SUBSET (1 .. m)
    OBVIOUS
  <2>3. Max(1 .. k + 1) = k + 1 /\ 1 .. k + 1 # {} /\ (1 .. k + 1) \ {k + 1} = 1 .. k
    BY TopOfRange
  <2>4. /\ g[1 .. k + 1] = Turn(mode, m0, g[1 .. k], seq[k + 1])
        /\ h[1 .. k + 1] = Turn(mode, m0, h[1 .. k], seq2[k + 1])
    BY <2>2, <2>3 DEF Table
  <2>5. seq[k + 1] = seq2[k + 1]
    OBVIOUS
  <2> QED
    BY <2>1, <2>4, <2>5
<1> HIDE DEF S
<1>3. Nat \subseteq S
  BY <1>1, <1>2, SetInduction
<1> QED
  BY <1>3 DEF S, Agree

\* The end of the loop.
FoldOf(mode, m0, base, seq) ==
    (CHOOSE g : Table(g, mode, m0, base, seq, Len(seq)))[1 .. Len(seq)]

LEMMA FoldTables ==
    ASSUME NEW X, NEW seq \in Seq(X), NEW mode, NEW m0, NEW base
    PROVE  \E g : Table(g, mode, m0, base, seq, Len(seq)) /\ FoldOf(mode, m0, base, seq) = g[1 .. Len(seq)]
<1>1. Len(seq) \in Nat
  OBVIOUS
<1>2. \E g : Table(g, mode, m0, base, seq, Len(seq))
  BY <1>1, TableExists
<1> QED
  BY <1>2 DEF FoldOf

LEMMA FoldEmpty ==
    ASSUME NEW mode, NEW m0, NEW base
    PROVE  FoldOf(mode, m0, base, << >>) = base
<1>1. << >> \in Seq({}) /\ Len(<< >>) = 0 /\ 1 .. 0 = {}
  OBVIOUS
<1>2. PICK g : Table(g, mode, m0, base, << >>, 0) /\ FoldOf(mode, m0, base, << >>) = g[{}]
  BY <1>1, FoldTables
<1> QED
  BY <1>2 DEF Table

\* A loop takes the records one after the other.
LEMMA FoldAppend ==
    ASSUME NEW X, NEW seq \in Seq(X), NEW l \in X, NEW mode, NEW m0, NEW base
    PROVE  FoldOf(mode, m0, base, Append(seq, l)) = Turn(mode, m0, FoldOf(mode, m0, base, seq), l)
<1> DEFINE n == Len(seq)
           longer == Append(seq, l)
<1>1. /\ n \in Nat /\ longer \in Seq(X) /\ Len(longer) = n + 1
      /\ longer[n + 1] = l /\ \A i \in 1 .. n : seq[i] = longer[i]
  BY AppendProperties
<1> HIDE DEF n, longer
<1>2. PICK g : Table(g, mode, m0, base, seq, n) /\ FoldOf(mode, m0, base, seq) = g[1 .. n]
  BY FoldTables DEF n
<1>3. PICK h : Table(h, mode, m0, base, longer, n + 1) /\ FoldOf(mode, m0, base, longer) = h[1 .. n + 1]
  BY <1>1, FoldTables
<1>4. g[1 .. n] = h[1 .. n]
  <2>1. n \in Nat /\ n + 1 \in Nat /\ n <= n /\ n <= n + 1 /\ \A i \in 1 .. n : seq[i] = longer[i]
    BY <1>1
  <2>2. Agree(g, h, seq, longer, n, n + 1)
    BY <1>2, <1>3, <2>1, TablesAgree
  <2> QED
    BY <2>1, <2>2 DEF Agree
<1>5. Max(1 .. n + 1) = n + 1 /\ 1 .. n + 1 # {} /\ (1 .. n + 1) \ {n + 1} = 1 .. n
  BY <1>1, TopOfRange
<1>6. h[1 .. n + 1] = Turn(mode, m0, h[1 .. n], longer[n + 1])
  BY <1>3, <1>5 DEF Table
<1> QED
  BY <1>1, <1>2, <1>3, <1>4, <1>6 DEF longer

\* A loop stays in a set none of its turns leaves.
Closed(mode, m0, P, X) == \A s \in P : \A r \in X : Turn(mode, m0, s, r) \in P

LEMMA FoldStays ==
    ASSUME NEW X, NEW seq \in Seq(X), NEW mode, NEW m0, NEW P, NEW base \in P, Closed(mode, m0, P, X)
    PROVE  FoldOf(mode, m0, base, seq) \in P
<1> DEFINE n == Len(seq)
<1>1. PICK g : Table(g, mode, m0, base, seq, n) /\ FoldOf(mode, m0, base, seq) = g[1 .. n]
  BY FoldTables
<1>2. n \in Nat /\ \A i \in 1 .. n : seq[i] \in X
  OBVIOUS
<1> HIDE DEF n
<1> DEFINE S == {k \in Nat : k <= n => g[1 .. k] \in P}
<1>3. 0 \in S
  <2>1. 1 .. 0 = {}
    OBVIOUS
  <2>2. g[{}] = base
    BY <1>1 DEF Table
  <2> QED
    BY <2>1, <2>2
<1>4. ASSUME NEW k \in Nat, k \in S PROVE k + 1 \in S
  <2> SUFFICES ASSUME k + 1 <= n PROVE g[1 .. k + 1] \in P
    OBVIOUS
  <2>1. g[1 .. k] \in P
    BY <1>2, <1>4
  <2> HIDE DEF S
  <2>2. 1 .. k + 1 \in SUBSET (1 .. n) /\ k + 1 \in 1 .. n
    BY <1>2
  <2>3. Max(1 .. k + 1) = k + 1 /\ 1 .. k + 1 # {} /\ (1 .. k + 1) \ {k + 1} = 1 .. k
    BY TopOfRange
  <2>4. g[1 .. k + 1] = Turn(mode, m0, g[1 .. k], seq[k + 1])
    BY <1>1, <2>2, <2>3 DEF Table
  <2>5. seq[k + 1] \in X
    BY <1>2, <2>2
  <2> QED
    BY <2>1, <2>4, <2>5 DEF Closed
<1> HIDE DEF S
<1>5. n \in S
  BY <1>2, <1>3, <1>4, SetInduction
<1> QED
  BY <1>1, <1>2, <1>5 DEF S

-----------------------------------------------------------------------------
(* The loops of the code are such folds.                                   *)

ReplayStart == [line |-> <<Genesis>>, final |-> NoHash, tree |-> <<Genesis>>,
                names |-> <<Genesis>>, ok |-> TRUE]

LEMMA ByReplayFolds ==
    ASSUME NEW X, NEW records \in Seq(X)
    PROVE  ByReplay(records) = FoldOf("replay", 0, ReplayStart, records)
<1>1. DOMAIN records = 1 .. Len(records) /\ Len(records) \in Nat
  OBVIOUS
<1>2. ByReplay(records) =
        (CHOOSE f : f = [s \in SUBSET DOMAIN records |->
            IF s = {} THEN ReplayStart
            ELSE ResumedRecord(f[s \ {Max(s)}], records[Max(s)])])[DOMAIN records]
  BY DEF ByReplay, ReplayStart, FoldLeft, MapThenFoldSet
<1> QED
  BY <1>1, <1>2 DEF FoldOf, Table, Turn

LEMMA PrefixStoreFolds ==
    ASSUME NEW X, NEW records \in Seq(X), NEW n
    PROVE  PrefixStore(records, n) = FoldOf("prefix", n, Opening, records)
<1>1. DOMAIN records = 1 .. Len(records) /\ Len(records) \in Nat
  OBVIOUS
<1>2. PrefixStore(records, n) =
        (CHOOSE f : f = [s \in SUBSET DOMAIN records |->
            IF s = {} THEN Opening
            ELSE IF InPrefix(records[Max(s)], n)
                 THEN LoggedRecord(f[s \ {Max(s)}], records[Max(s)]) ELSE f[s \ {Max(s)}]])[DOMAIN records]
  BY DEF PrefixStore, Opening, FoldLeft, MapThenFoldSet
<1> QED
  BY <1>1, <1>2 DEF FoldOf, Table, Turn

LEMMA TailReplayedFolds ==
    ASSUME NEW X, NEW records \in Seq(X), NEW n, NEW start
    PROVE  TailReplayed(start, records, n) = FoldOf("tail", n, start, records)
<1>1. DOMAIN records = 1 .. Len(records) /\ Len(records) \in Nat
  OBVIOUS
<1>2. TailReplayed(start, records, n) =
        (CHOOSE f : f = [s \in SUBSET DOMAIN records |->
            IF s = {} THEN start
            ELSE IF InTail(records[Max(s)], n)
                 THEN ResumedRecord(f[s \ {Max(s)}], records[Max(s)]) ELSE f[s \ {Max(s)}]])[DOMAIN records]
  BY DEF TailReplayed, FoldLeft, MapThenFoldSet
<1> QED
  BY <1>1, <1>2 DEF FoldOf, Table, Turn

LEMMA TailSkippedFolds ==
    ASSUME NEW X, NEW records \in Seq(X), NEW n, NEW start
    PROVE  TailSkipped(start, records, n) = FoldOf("skip", n, start, records)
<1>1. DOMAIN records = 1 .. Len(records) /\ Len(records) \in Nat
  OBVIOUS
<1>2. TailSkipped(start, records, n) =
        (CHOOSE f : f = [s \in SUBSET DOMAIN records |->
            IF s = {} THEN start
            ELSE IF InTail(records[Max(s)], n)
                 THEN TailRecord(f[s \ {Max(s)}], records[Max(s)]) ELSE f[s \ {Max(s)}]])[DOMAIN records]
  BY DEF TailSkipped, FoldLeft, MapThenFoldSet
<1> QED
  BY <1>1, <1>2 DEF FoldOf, Table, Turn

LEMMA SurvivingFolds ==
    ASSUME NEW X, NEW records \in Seq(X), NEW lost, lost # {}
    PROVE  Surviving(records, lost) = FoldOf("append", lost, << >>, records)
<1>1. DOMAIN records = 1 .. Len(records) /\ Len(records) \in Nat
  OBVIOUS
<1>2. Surviving(records, lost) =
        (CHOOSE f : f = [s \in SUBSET DOMAIN records |->
            IF s = {} THEN << >>
            ELSE IF records[Max(s)] \in lost THEN f[s \ {Max(s)}]
                 ELSE Append(f[s \ {Max(s)}], records[Max(s)])])[DOMAIN records]
  BY DEF Surviving, FoldLeft, MapThenFoldSet
<1> QED
  BY <1>1, <1>2 DEF FoldOf, Table, Turn

LEMMA LastFinalFolds ==
    ASSUME NEW X, NEW records \in Seq(X)
    PROVE  LastFinal(records) = FoldOf("final", LoggedBlocks(records), NoHash, records)
<1> DEFINE logged == LoggedBlocks(records)
<1>1. DOMAIN records = 1 .. Len(records) /\ Len(records) \in Nat
  OBVIOUS
<1>2. LastFinal(records) =
        (CHOOSE f : f = [s \in SUBSET DOMAIN records |->
            IF s = {} THEN NoHash
            ELSE IF ~ IsBlock(records[Max(s)]) /\ records[Max(s)].hash \in logged
                 THEN records[Max(s)].hash ELSE f[s \ {Max(s)}]])[DOMAIN records]
  BY DEF LastFinal, FoldLeft, MapThenFoldSet
<1> QED
  BY <1>1, <1>2 DEF FoldOf, Table, Turn

-----------------------------------------------------------------------------
(* Lines of the tree.                                                      *)

\* A block below which there is a line extends it, wherever it is cut.
LEMMA LineExtends ==
    ASSUME NEW line, TreeLine(line), NEW n \in 1 .. Len(line), NEW h \in Hash, PrevIn(h) = line[n]
    PROVE  LET new == Append(SubSeq(line, 1, n), h) IN
           /\ TreeLine(new) /\ Len(new) = n + 1 /\ Last(new) = h /\ SubSeq(new, 1, n) = SubSeq(line, 1, n)
           /\ ToSet(new) = ToSet(SubSeq(line, 1, n)) \cup {h}
<1> DEFINE cut == SubSeq(line, 1, n)
           new == Append(cut, h)
<1>1. TreeLine(cut) /\ Len(cut) = n /\ Last(cut) = line[n]
  BY PrefixLine
<1>2. cut \in Seq(Hash) /\ cut[1] = Genesis /\ n \in Nat /\ n >= 1 /\ cut[n] = line[n]
  BY <1>1 DEF TreeLine, Last
<1>3. h # Genesis /\ HeightIn(h) = n
  <2>1. line[n] \in Hash /\ HeightIn(line[n]) = n - 1
    BY DEF TreeLine
  <2>2. h # Genesis
    BY <2>1, HeightIsNatural, NoHashAssumption
  <2>3. Tree[h].height = HeightIn(Tree[h].prev) + 1 /\ Tree[h].prev = line[n] /\ HeightIn(h) = Tree[h].height
    BY <2>2, HeightsAssumption DEF PrevIn, HeightIn
  <2>4. HeightIn(h) = (n - 1) + 1
    BY <2>1, <2>3
  <2> QED
    BY <1>2, <2>2, <2>4
<1> HIDE DEF cut
<1>4. /\ new \in Seq(Hash) /\ Len(new) = n + 1 /\ new[n + 1] = h
      /\ \A i \in 1 .. n : new[i] = cut[i]
  BY <1>1, <1>2, AppendProperties
<1> HIDE DEF new
<1>5. ASSUME NEW i \in 1 .. Len(new) PROVE HeightIn(new[i]) = i - 1
  <2>1. CASE i = n + 1
    BY <1>2, <1>3, <1>4, <2>1
  <2>2. CASE i # n + 1
    <3>1. i \in 1 .. n
      BY <1>2, <1>4, <2>2
    <3> QED
      BY <1>1, <1>4, <3>1 DEF TreeLine
  <2> QED
    BY <2>1, <2>2
<1>6. ASSUME NEW i \in 2 .. Len(new) PROVE PrevIn(new[i]) = new[i - 1]
  <2>1. CASE i = n + 1
    <3>1. i - 1 = n /\ n \in 1 .. n
      BY <1>2, <2>1
    <3> QED
      BY <1>2, <1>4, <2>1, <3>1
  <2>2. CASE i # n + 1
    <3>1. i \in 2 .. n /\ i \in 1 .. n /\ i - 1 \in 1 .. n
      BY <1>2, <1>4, <2>2
    <3> QED
      BY <1>1, <1>4, <3>1 DEF TreeLine
  <2> QED
    BY <2>1, <2>2
<1>7. new[1] = Genesis /\ Len(new) >= 1
  <2>1. 1 \in 1 .. n
    BY <1>2
  <2> QED
    BY <1>2, <1>4, <2>1
<1>8. TreeLine(new)
  BY <1>4, <1>5, <1>6, <1>7 DEF TreeLine
<1>9. SubSeq(new, 1, n) = cut
  <2>1. n \in 0 .. Len(cut) /\ SubSeq(cut, 1, Len(cut)) = cut
    BY <1>1, <1>2, SubSeqFull
  <2>2. SubSeq(Append(cut, h), 1, n) = SubSeq(cut, 1, n)
    BY <1>2, <2>1, PrefixOfAppend
  <2> QED
    BY <1>1, <2>1, <2>2 DEF new
<1>10. ToSet(new) = ToSet(cut) \cup {h}
  <2>1. DOMAIN new = 1 .. n + 1 /\ DOMAIN cut = 1 .. n
    BY <1>1, <1>2, <1>4
  <2>2. \A i \in 1 .. n + 1 : i \in 1 .. n \/ i = n + 1
    BY <1>2
  <2>3. n + 1 \in 1 .. n + 1 /\ 1 .. n \subseteq 1 .. n + 1
    BY <1>2
  <2> QED
    BY <1>4, <2>1, <2>2, <2>3 DEF ToSet
<1> QED
  BY <1>4, <1>8, <1>9, <1>10 DEF new, cut, Last

\* A block is the last of one line at most.
LEMMA OneLine ==
    ASSUME NEW a, NEW b, TreeLine(a), TreeLine(b), Last(a) = Last(b)
    PROVE  a = b
<1>1. a \in Seq(Hash) /\ b \in Seq(Hash) /\ Len(a) \in Nat /\ Len(b) \in Nat /\ Len(a) >= 1 /\ Len(b) >= 1
  BY DEF TreeLine
<1>2. HeightIn(a[Len(a)]) = Len(a) - 1 /\ HeightIn(b[Len(b)]) = Len(b) - 1 /\ a[Len(a)] = b[Len(b)]
  BY <1>1 DEF TreeLine, Last
<1>3. Len(a) = Len(b) /\ Len(a) \in 1 .. Len(a) /\ Len(a) <= Len(b)
  BY <1>1, <1>2
<1>4. \A j \in 1 .. Len(a) : a[j] = b[j]
  BY <1>2, <1>3, LinesAgree
<1> QED
  BY <1>1, <1>3, <1>4, SeqEqual

LEMMA GenesisLine == TreeLine(<<Genesis>>) /\ Last(<<Genesis>>) = Genesis /\ <<Genesis>> \in Seq(Hash)
<1>1. <<Genesis>> \in Seq(Hash) /\ Len(<<Genesis>>) = 1 /\ <<Genesis>>[1] = Genesis
  BY GenesisAssumption
<1>2. \A i \in 1 .. 1 : i = 1
  OBVIOUS
<1>3. \A i \in 2 .. 1 : FALSE
  OBVIOUS
<1> DEFINE l == <<Genesis>>
<1> HIDE DEF l
<1>4. l \in Seq(Hash) /\ Len(l) = 1 /\ l[1] = Genesis
  BY <1>1 DEF l
<1>5. TreeLine(l)
  BY <1>2, <1>3, <1>4, HeightIsNatural DEF TreeLine
<1> QED
  BY <1>4, <1>5 DEF l, Last

\* Every block of the tree has its line.
LEMMA LineExists == \A h \in Hash : \E l : TreeLine(l) /\ Last(l) = h
<1> DEFINE S == {n \in Nat : \A h \in Hash : HeightIn(h) = n => \E l : TreeLine(l) /\ Last(l) = h}
<1>1. 0 \in S
  <2> SUFFICES ASSUME NEW h \in Hash, HeightIn(h) = 0 PROVE \E l : TreeLine(l) /\ Last(l) = h
    OBVIOUS
  <2>1. h = Genesis
    BY HeightIsNatural
  <2> QED
    BY <2>1, GenesisLine
<1>2. ASSUME NEW n \in Nat, n \in S PROVE n + 1 \in S
  <2> SUFFICES ASSUME NEW h \in Hash, HeightIn(h) = n + 1 PROVE \E l : TreeLine(l) /\ Last(l) = h
    OBVIOUS
  <2>1. h # Genesis /\ PrevIn(h) \in Hash /\ HeightIn(PrevIn(h)) \in Nat
    BY HeightIsNatural, MaxHeightAssumption
  <2>2. Tree[h].height = HeightIn(Tree[h].prev) + 1 /\ Tree[h].prev = PrevIn(h) /\ HeightIn(h) = Tree[h].height
    BY <2>1, HeightsAssumption DEF PrevIn, HeightIn
  <2>3. HeightIn(PrevIn(h)) = n
    BY <2>1, <2>2
  <2>4. PICK l : TreeLine(l) /\ Last(l) = PrevIn(h)
    BY <1>2, <2>1, <2>3
  <2>5. Len(l) \in 1 .. Len(l) /\ PrevIn(h) = l[Len(l)]
    BY <2>4 DEF TreeLine, Last
  <2> HIDE DEF S
  <2> QED
    BY <2>4, <2>5, LineExtends
<1> HIDE DEF S
<1>3. Nat \subseteq S
  BY <1>1, <1>2, SetInduction
<1> SUFFICES ASSUME NEW h \in Hash PROVE \E l : TreeLine(l) /\ Last(l) = h
  OBVIOUS
<1>4. HeightIn(h) \in S
  BY <1>3, HeightIsNatural, MaxHeightAssumption
<1> QED
  BY <1>4 DEF S

\* The line of a block, as the one there is.
TheLine(h) == CHOOSE l : TreeLine(l) /\ Last(l) = h

LEMMA TheLineOK ==
    ASSUME NEW h \in Hash
    PROVE  /\ TreeLine(TheLine(h)) /\ Last(TheLine(h)) = h
           /\ \A l : TreeLine(l) /\ Last(l) = h => l = TheLine(h)
<1>1. TreeLine(TheLine(h)) /\ Last(TheLine(h)) = h
  BY LineExists DEF TheLine
<1> QED
  BY <1>1, OneLine

\* The equation of LineOf.
Lines(f) == f = [h \in Hash |-> IF h = Genesis THEN <<Genesis>> ELSE Append(f[Tree[h].prev], h)]

LEMMA TheLines == Lines([h \in Hash |-> TheLine(h)])
<1> DEFINE f == [h \in Hash |-> TheLine(h)]
<1>1. ASSUME NEW h \in Hash
      PROVE  f[h] = IF h = Genesis THEN <<Genesis>> ELSE Append(f[Tree[h].prev], h)
  <2>1. CASE h = Genesis
    BY <2>1, GenesisLine, TheLineOK
  <2>2. CASE h # Genesis
    <3> DEFINE p == Tree[h].prev
               l == TheLine(p)
    <3>1. p \in Hash /\ PrevIn(h) = p
      BY <2>2, TreeAssumption DEF PrevIn
    <3>2. TreeLine(l) /\ Last(l) = p /\ f[p] = l /\ f[h] = TheLine(h)
      BY <3>1, TheLineOK
    <3> HIDE DEF l, p, f
    <3>3. l \in Seq(Hash) /\ Len(l) \in 1 .. Len(l) /\ p = l[Len(l)] /\ SubSeq(l, 1, Len(l)) = l
      <4>1. l \in Seq(Hash) /\ Len(l) >= 1 /\ p = l[Len(l)]
        BY <3>2 DEF TreeLine, Last
      <4> QED
        BY <4>1, SubSeqFull
    <3>4. TreeLine(Append(l, h)) /\ Last(Append(l, h)) = h
      <4>1. PrevIn(h) = l[Len(l)]
        BY <3>1, <3>3
      <4>2. /\ TreeLine(Append(SubSeq(l, 1, Len(l)), h))
            /\ Last(Append(SubSeq(l, 1, Len(l)), h)) = h
        BY <3>2, <3>3, <4>1, LineExtends
      <4> QED
        BY <3>3, <4>2
    <3>5. f[h] = Append(f[p], h)
      BY <3>2, <3>4, TheLineOK
    <3> QED
      BY <2>2, <3>5 DEF p
  <2> QED
    BY <2>1, <2>2
<1> HIDE DEF f
<1>2. f = [h \in Hash |-> f[h]]
  BY DEF f
<1>3. f = [h \in Hash |-> IF h = Genesis THEN <<Genesis>> ELSE Append(f[Tree[h].prev], h)]
  BY <1>1, <1>2
<1> QED
  BY <1>3 DEF Lines, f

\* LineOf, defined along the parent links, gives every block its line.
LEMMA LineOfIsLine == \A h \in Hash : LineOf[h] = TheLine(h)
<1> DEFINE f == LineOf
<1>1. Lines(f)
  <2>1. \E x : Lines(x)
    BY TheLines
  <2> QED
    BY <2>1 DEF Lines, LineOf
<1> HIDE DEF f
<1>2. \A h \in Hash : f[h] = IF h = Genesis THEN <<Genesis>> ELSE Append(f[Tree[h].prev], h)
  BY <1>1 DEF Lines
<1> DEFINE t == [h \in Hash |-> TheLine(h)]
<1>3. \A h \in Hash : t[h] = IF h = Genesis THEN <<Genesis>> ELSE Append(t[Tree[h].prev], h)
  BY TheLines DEF Lines
<1>4. \A h \in Hash : t[h] = TheLine(h)
  OBVIOUS
<1> HIDE DEF t
<1> DEFINE S == {n \in Nat : \A h \in Hash : HeightIn(h) = n => f[h] = t[h]}
<1>5. 0 \in S
  <2> SUFFICES ASSUME NEW h \in Hash, HeightIn(h) = 0 PROVE f[h] = t[h]
    OBVIOUS
  <2>1. h = Genesis
    BY HeightIsNatural
  <2> QED
    BY <2>1, <1>2, <1>3
<1>6. ASSUME NEW n \in Nat, n \in S PROVE n + 1 \in S
  <2> SUFFICES ASSUME NEW h \in Hash, HeightIn(h) = n + 1 PROVE f[h] = t[h]
    OBVIOUS
  <2>1. h # Genesis
    BY HeightIsNatural
  <2>2. /\ Tree[h].height = HeightIn(Tree[h].prev) + 1 /\ HeightIn(h) = Tree[h].height
        /\ Tree[h].prev \in Hash /\ HeightIn(Tree[h].prev) \in Nat
    BY <2>1, HeightsAssumption, TreeAssumption, HeightIsNatural, MaxHeightAssumption DEF HeightIn
  <2>3. HeightIn(Tree[h].prev) = n
    BY <2>2
  <2>4. f[Tree[h].prev] = t[Tree[h].prev]
    BY <1>6, <2>2, <2>3
  <2> HIDE DEF S
  <2> QED
    BY <1>2, <1>3, <2>1, <2>4
<1> HIDE DEF S
<1>7. Nat \subseteq S
  BY <1>5, <1>6, SetInduction
<1> SUFFICES ASSUME NEW h \in Hash PROVE f[h] = TheLine(h)
  BY DEF f
<1>8. HeightIn(h) \in S
  BY <1>7, HeightIsNatural, MaxHeightAssumption
<1>9. f[h] = t[h]
  BY <1>8 DEF S
<1> QED
  BY <1>4, <1>9

-----------------------------------------------------------------------------
(* States of a resume.                                                     *)

\* The line is one of the tree, with the finalized head on it.
OnLine(s) == TreeLine(s.line) /\ (s.final # NoHash => s.final \in ToSet(s.line))

\* What replaying a record does: nothing, a refusal, another line that still holds
\* the finalized head, or another head on the line.
RecordTaken(s, t) ==
    \/ t = s
    \/ t = [s EXCEPT !.ok = FALSE]
    \/ \E l : TreeLine(l) /\ (s.final # NoHash => s.final \in ToSet(l)) /\ t = [s EXCEPT !.line = l]
    \/ \E h \in ToSet(s.line) : t = [s EXCEPT !.final = h]

LEMMA RecordIsTaken ==
    ASSUME NEW s, OnLine(s), NEW r \in Record
    PROVE  RecordTaken(s, LoggedRecord(s, r))
<1>1. r.hash \in Hash /\ r.kind \in {"block", "finalize"}
  BY DEF Record
<1>2. CASE ~ s.ok
  BY <1>2 DEF LoggedRecord, RecordTaken
<1>3. CASE s.ok /\ r.kind = "block"
  <2> DEFINE h == r.hash
             parents == {i \in DOMAIN s.line : s.line[i] = PrevIn(h)}
             n == IF parents = {} THEN 0 ELSE Max(parents)
             new == Append(SubSeq(s.line, 1, n), h)
  <2>1. LoggedRecord(s, r) = IF parents = {} \/ ~ MayRewind(s.line, s.final, n)
                             THEN [s EXCEPT !.ok = FALSE] ELSE [s EXCEPT !.line = new]
    BY <1>3 DEF LoggedRecord, LoggedBlock
  <2>2. CASE parents = {} \/ ~ MayRewind(s.line, s.final, n)
    BY <2>1, <2>2 DEF RecordTaken
  <2>3. CASE parents # {} /\ MayRewind(s.line, s.final, n)
    <3>1. s.line \in Seq(Hash) /\ DOMAIN s.line = 1 .. Len(s.line) /\ Len(s.line) \in Nat
      BY DEF OnLine, TreeLine
    <3>2. n \in parents
      <4>1. parents \subseteq 1 .. Len(s.line)
        BY <3>1
      <4> HIDE DEF parents
      <4> QED
        BY <2>3, <3>1, <4>1, MaxPosition
    <3>3. n \in 1 .. Len(s.line) /\ PrevIn(h) = s.line[n]
      BY <3>1, <3>2
    <3> HIDE DEF n, parents
    <3>4. TreeLine(new) /\ ToSet(new) = ToSet(SubSeq(s.line, 1, n)) \cup {h}
      BY <1>1, <3>3, LineExtends DEF OnLine
    <3>5. s.final # NoHash => s.final \in ToSet(new)
      BY <2>3, <3>4 DEF MayRewind
    <3>6. LoggedRecord(s, r) = [s EXCEPT !.line = new]
      BY <2>1, <2>3
    <3> HIDE DEF new
    <3> QED
      BY <3>4, <3>5, <3>6 DEF RecordTaken
  <2> QED
    BY <2>2, <2>3
<1>4. CASE s.ok /\ r.kind # "block"
  BY <1>4 DEF LoggedRecord, LoggedFinalize, Finalizes, RecordTaken
<1> QED
  BY <1>2, <1>3, <1>4

\* The states of the loops, without and with the derived state.
StoreState == [line : Seq(Hash), final : Hash \cup {NoHash}, ok : BOOLEAN]
ResumeState == [line : Seq(Hash), final : Hash \cup {NoHash}, tree : Seq(Hash), names : Seq(Hash), ok : BOOLEAN]
Rebuilding == {s \in StoreState : OnLine(s)}
\* The commitment tree is the one of the line.
Coherent == {s \in ResumeState : OnLine(s) /\ s.tree = s.line}

LEMMA HeadIsBlock ==
    ASSUME NEW s, OnLine(s)
    PROVE  s.line \in Seq(Hash) /\ ToSet(s.line) \subseteq Hash
BY DEF OnLine, TreeLine, ToSet

LEMMA RebuildingStays ==
    ASSUME NEW s \in Rebuilding, NEW r \in Record
    PROVE  LoggedRecord(s, r) \in Rebuilding
<1>1. OnLine(s) /\ s \in StoreState
  BY DEF Rebuilding
<1>2. RecordTaken(s, LoggedRecord(s, r))
  BY <1>1, RecordIsTaken
<1> DEFINE t == LoggedRecord(s, r)
<1> SUFFICES t \in Rebuilding
  OBVIOUS
<1> HIDE DEF t
<1>3. CASE t = s
  BY <1>3
<1>4. CASE t = [s EXCEPT !.ok = FALSE]
  <2>1. t \in StoreState /\ t.line = s.line /\ t.final = s.final
    BY <1>1, <1>4 DEF StoreState
  <2> QED
    BY <1>1, <2>1 DEF OnLine, Rebuilding
<1>5. ASSUME NEW l, TreeLine(l), s.final # NoHash => s.final \in ToSet(l), t = [s EXCEPT !.line = l]
      PROVE  t \in Rebuilding
  <2>1. t \in StoreState /\ t.line = l /\ t.final = s.final
    BY <1>1, <1>5 DEF StoreState, TreeLine
  <2> QED
    BY <1>5, <2>1 DEF OnLine, Rebuilding
<1>6. ASSUME NEW h \in ToSet(s.line), t = [s EXCEPT !.final = h]
      PROVE  t \in Rebuilding
  <2>1. h \in Hash
    BY <1>1, HeadIsBlock
  <2>2. t \in StoreState /\ t.line = s.line /\ t.final = h
    BY <1>1, <1>6, <2>1 DEF StoreState
  <2> QED
    BY <1>1, <2>2 DEF OnLine, Rebuilding
<1> QED
  BY <1>2, <1>3, <1>4, <1>5, <1>6 DEF RecordTaken, t

LEMMA PrefixClosed == \A n : Closed("prefix", n, Rebuilding, Record)
BY RebuildingStays DEF Closed, Turn

\* apply_state and rewind_to keep what is folded from the line with the line.
LEMMA RefoldedLine ==
    ASSUME NEW old \in Seq(Hash), NEW new \in Seq(Hash), NEW derived \in Seq(Hash)
    PROVE  Refolded(old, old, new) = new /\ Refolded(derived, old, new) \in Seq(Hash)
<1>1. CASE IsPrefix(old, new)
  <2>1. Len(old) \in Nat /\ Len(new) \in Nat /\ Len(old) <= Len(new) /\ SubSeq(old, 1, Len(old)) = SubSeq(new, 1, Len(old))
    BY <1>1 DEF IsPrefix
  <2>2. SubSeq(old, 1, Len(old)) = old /\ SubSeq(new, 1, Len(new)) = new
    BY SubSeqFull
  <2>3. SubSeq(new, Len(old) + 1, Len(new)) \in Seq(Hash)
    BY <2>1
  <2>4. SubSeq(new, 1, Len(old)) \o SubSeq(new, Len(old) + 1, Len(new)) = SubSeq(new, 1, Len(new))
    <3>1. 1 \in 1 .. Len(new) + 1 /\ Len(old) \in 1 - 1 .. Len(new) /\ Len(new) \in Len(old) .. Len(new)
      BY <2>1
    <3> QED
      BY <2>1, <3>1, ConcatAdjacentSubSeq
  <2> QED
    BY <1>1, <2>1, <2>2, <2>3, <2>4, ConcatProperties DEF Refolded
<1>2. CASE ~ IsPrefix(old, new)
  BY <1>2 DEF Refolded
<1> QED
  BY <1>1, <1>2

LEMMA ResumedCoherent ==
    ASSUME NEW s \in Coherent, NEW r \in Record
    PROVE  ResumedRecord(s, r) \in Coherent
<1>1. OnLine(s) /\ s \in ResumeState /\ s.tree = s.line
  BY DEF Coherent
<1>2. RecordTaken(s, LoggedRecord(s, r))
  BY <1>1, RecordIsTaken
<1> DEFINE t == LoggedRecord(s, r)
           u == ResumedRecord(s, r)
<1>3. /\ t \in ResumeState /\ OnLine(t)
  <2> HIDE DEF t
  <2>1. CASE t = s
    BY <1>1, <2>1
  <2>2. CASE t = [s EXCEPT !.ok = FALSE]
    <3>1. t \in ResumeState /\ t.line = s.line /\ t.final = s.final
      BY <1>1, <2>2 DEF ResumeState
    <3> QED
      BY <1>1, <3>1 DEF OnLine
  <2>3. ASSUME NEW l, TreeLine(l), s.final # NoHash => s.final \in ToSet(l), t = [s EXCEPT !.line = l]
        PROVE  t \in ResumeState /\ OnLine(t)
    <3>1. t \in ResumeState /\ t.line = l /\ t.final = s.final
      BY <1>1, <2>3 DEF ResumeState, TreeLine
    <3> QED
      BY <2>3, <3>1 DEF OnLine
  <2>4. ASSUME NEW h \in ToSet(s.line), t = [s EXCEPT !.final = h]
        PROVE  t \in ResumeState /\ OnLine(t)
    <3>1. h \in Hash
      BY <1>1, HeadIsBlock
    <3>2. t \in ResumeState /\ t.line = s.line /\ t.final = h
      BY <1>1, <2>4, <3>1 DEF ResumeState
    <3> QED
      BY <1>1, <3>2 DEF OnLine
  <2> QED
    BY <1>2, <2>1, <2>2, <2>3, <2>4 DEF RecordTaken, t
<1>4. u = [t EXCEPT !.tree = Refolded(s.tree, s.line, t.line), !.names = Refolded(s.names, s.line, t.line)]
  BY DEF ResumedRecord
<1> HIDE DEF t, u
<1>5. s.line \in Seq(Hash) /\ t.line \in Seq(Hash) /\ s.names \in Seq(Hash)
  BY <1>1, <1>3 DEF ResumeState
<1>6. Refolded(s.tree, s.line, t.line) = t.line /\ Refolded(s.names, s.line, t.line) \in Seq(Hash)
  BY <1>1, <1>5, RefoldedLine
<1>7. u \in ResumeState /\ u.line = t.line /\ u.final = t.final /\ u.tree = t.line
  BY <1>3, <1>4, <1>5, <1>6 DEF ResumeState
<1> QED
  BY <1>3, <1>7 DEF Coherent, OnLine, u

LEMMA ResumeClosed ==
    /\ \A n : Closed("replay", n, Coherent, Record)
    /\ \A n : Closed("tail", n, Coherent, Record)
    /\ \A n : Closed("skip", n, Coherent, Record)
<1>1. \A n : Closed("replay", n, Coherent, Record)
  BY ResumedCoherent DEF Closed, Turn
<1>2. \A n : Closed("tail", n, Coherent, Record)
  BY ResumedCoherent DEF Closed, Turn
<1>3. \A n : Closed("skip", n, Coherent, Record)
  BY ResumedCoherent DEF Closed, Turn, TailRecord
<1> QED
  BY <1>1, <1>2, <1>3

-----------------------------------------------------------------------------
(* Opening.                                                                *)

\* A snapshot on disk is the state of the line of its tip.
SnapOK(s) ==
    /\ s \in Snapshot
    /\ s.tip # NoHash => TreeLine(s.tree) /\ Last(s.tree) = s.tip

\* A resume that starts on the snapshot's line, with its head on the line.
LEMMA StartCoherent ==
    ASSUME NEW s, SnapOK(s), s.tip # NoHash, NEW side, side.names \in Seq(Hash),
           NEW line, TreeLine(line), Last(line) = s.tip, NEW records, FinalRestores(records, s, line)
    PROVE  Start(line, s, side) \in Coherent
<1>1. line = s.tree
  BY OneLine DEF SnapOK
<1>2. line \in Seq(Hash)
  BY DEF TreeLine
<1>3. s.final \in Hash \cup {NoHash}
  BY DEF SnapOK, Snapshot
<1>4. s.final # NoHash => s.final \in ToSet(line)
  BY DEF FinalRestores
<1> DEFINE t == Start(line, s, side)
<1>5. t.line = line /\ t.final = s.final /\ t.tree = line /\ t \in ResumeState
  BY <1>1, <1>2, <1>3 DEF Start, ResumeState
<1> HIDE DEF t
<1> QED
  BY <1>4, <1>5 DEF Coherent, OnLine, t

LEMMA ByReplayCoherent ==
    ASSUME NEW records \in Seq(Record)
    PROVE  ByReplay(records) \in Coherent
<1>1. ReplayStart \in Coherent
  BY GenesisLine DEF Coherent, OnLine, ResumeState, ReplayStart
<1>2. FoldOf("replay", 0, ReplayStart, records) \in Coherent
  BY <1>1, ResumeClosed, FoldStays
<1> QED
  BY <1>2, ByReplayFolds

LEMMA PrefixRebuilds ==
    ASSUME NEW records \in Seq(Record), NEW n
    PROVE  PrefixStore(records, n) \in Rebuilding
<1>1. Opening \in Rebuilding
  BY GenesisLine DEF Rebuilding, OnLine, StoreState, Opening
<1>2. FoldOf("prefix", n, Opening, records) \in Rebuilding
  BY <1>1, PrefixClosed, FoldStays
<1> QED
  BY <1>2, PrefixStoreFolds

LEMMA TailCoherent ==
    ASSUME NEW records \in Seq(Record), NEW n, NEW start \in Coherent
    PROVE  TailReplayed(start, records, n) \in Coherent /\ TailSkipped(start, records, n) \in Coherent
<1>1. FoldOf("tail", n, start, records) \in Coherent
  BY ResumeClosed, FoldStays
<1>2. FoldOf("skip", n, start, records) \in Coherent
  BY ResumeClosed, FoldStays
<1> QED
  BY <1>1, <1>2, TailReplayedFolds, TailSkippedFolds

\* Whatever the start, a tail loop leaves a state of a resume.
LEMMA LoggedTyped ==
    ASSUME NEW s \in ResumeState, NEW r \in Record
    PROVE  LoggedRecord(s, r) \in ResumeState
<1> DEFINE t == LoggedRecord(s, r)
<1> SUFFICES t \in ResumeState
  OBVIOUS
<1>9. r.hash \in Hash /\ s.line \in Seq(Hash)
  BY DEF Record, ResumeState
<1>1. CASE ~ s.ok
  BY <1>1 DEF LoggedRecord
<1>2. CASE s.ok /\ r.kind = "block"
  <2> DEFINE parents == {i \in DOMAIN s.line : s.line[i] = PrevIn(r.hash)}
             n == IF parents = {} THEN 0 ELSE Max(parents)
             new == Append(SubSeq(s.line, 1, n), r.hash)
  <2>1. t = IF parents = {} \/ ~ MayRewind(s.line, s.final, n)
            THEN [s EXCEPT !.ok = FALSE] ELSE [s EXCEPT !.line = new]
    BY <1>2 DEF LoggedRecord, LoggedBlock
  <2>2. n \in 0 .. Len(s.line)
    <3>1. Len(s.line) \in Nat /\ parents \subseteq 1 .. Len(s.line)
      BY <1>9
    <3> HIDE DEF parents
    <3>2. CASE parents = {}
      BY <3>1, <3>2
    <3>3. CASE parents # {}
      <4>1. Max(parents) \in parents
        BY <3>1, <3>3, MaxPosition
      <4>2. n = Max(parents)
        BY <3>3
      <4>3. n \in 1 .. Len(s.line)
        BY <3>1, <4>1, <4>2
      <4> HIDE DEF n
      <4> QED
        BY <3>1, <4>3
    <3> QED
      BY <3>2, <3>3
  <2> HIDE DEF n
  <2>3. new \in Seq(Hash)
    BY <1>9, <2>2
  <2> HIDE DEF new, t, parents
  <2>4. CASE t = [s EXCEPT !.ok = FALSE]
    BY <2>4 DEF ResumeState
  <2>5. CASE t = [s EXCEPT !.line = new]
    BY <2>3, <2>5 DEF ResumeState
  <2> QED
    BY <2>1, <2>4, <2>5
<1>3. CASE s.ok /\ r.kind # "block"
  <2>1. t = s \/ t = [s EXCEPT !.final = r.hash]
    BY <1>3 DEF LoggedRecord, LoggedFinalize
  <2> HIDE DEF t
  <2> QED
    BY <1>9, <2>1 DEF ResumeState
<1> QED
  BY <1>1, <1>2, <1>3

LEMMA ResumedTyped ==
    ASSUME NEW s \in ResumeState, NEW r \in Record
    PROVE  ResumedRecord(s, r) \in ResumeState
<1> DEFINE t == LoggedRecord(s, r)
           u == ResumedRecord(s, r)
<1>1. s.line \in Seq(Hash)
  BY DEF ResumeState
<1>2. t \in ResumeState
  BY LoggedTyped
<1>3. u = [t EXCEPT !.tree = Refolded(s.tree, s.line, t.line), !.names = Refolded(s.names, s.line, t.line)]
  BY DEF ResumedRecord
<1> HIDE DEF t, u
<1>4. Refolded(s.tree, s.line, t.line) \in Seq(Hash) /\ Refolded(s.names, s.line, t.line) \in Seq(Hash)
  <2>1. t.line \in Seq(Hash) /\ s.tree \in Seq(Hash) /\ s.names \in Seq(Hash)
    BY <1>2 DEF ResumeState
  <2> QED
    BY <1>1, <2>1, RefoldedLine
<1>5. u \in ResumeState
  BY <1>2, <1>3, <1>4 DEF ResumeState
<1> QED
  BY <1>5 DEF u

LEMMA TailTyped ==
    ASSUME NEW records \in Seq(Record), NEW n, NEW start \in ResumeState
    PROVE  TailReplayed(start, records, n) \in ResumeState
<1>1. Closed("tail", n, ResumeState, Record)
  BY ResumedTyped DEF Closed, Turn
<1>2. FoldOf("tail", n, start, records) \in ResumeState
  BY <1>1, FoldStays
<1> QED
  BY <1>2, TailReplayedFolds

LEMMA StartTyped ==
    ASSUME NEW s, SnapOK(s), NEW side, side.names \in Seq(Hash), NEW line \in Seq(Hash)
    PROVE  Start(line, s, side) \in ResumeState
<1>1. s.final \in Hash \cup {NoHash} /\ s.tree \in Seq(Hash)
  BY DEF SnapOK, Snapshot
<1> QED
  BY <1>1 DEF Start, ResumeState

LEMMA NearTipCoherent ==
    ASSUME NEW records \in Seq(Record), NEW s, SnapOK(s), s.tip # NoHash,
           NEW side, side.names \in Seq(Hash), NEW n
    PROVE  NearTip(records, s, side, n) \in Coherent
<1>1. CASE NearTipProven(records, s, n)
  <2> DEFINE line == LineOf[s.tip]
  <2>1. s.tip \in Hash
    BY DEF SnapOK, Snapshot
  <2>2. TreeLine(line) /\ Last(line) = s.tip
    BY <2>1, LineOfIsLine, TheLineOK
  <2>3. FinalRestores(records, s, line)
    BY <1>1 DEF NearTipProven
  <2>4. NearTip(records, s, side, n) = TailSkipped(Start(line, s, side), records, n)
    BY <1>1 DEF NearTip
  <2> HIDE DEF line
  <2>5. Start(line, s, side) \in Coherent
    BY <2>2, <2>3, StartCoherent
  <2> QED
    BY <2>4, <2>5, TailCoherent
<1>2. CASE ~ NearTipProven(records, s, n)
  BY <1>2, ByReplayCoherent DEF NearTip
<1> QED
  BY <1>1, <1>2

\* Whichever way a restart resumes, it opens on a line of the tree, with the finalized
\* head on it and the commitment tree of that line.
LEMMA OpenedCoherent ==
    ASSUME NEW records \in Seq(Record), NEW s, SnapOK(s), NEW side, side.names \in Seq(Hash),
           Opened(records, s, side).ok
    PROVE  Opened(records, s, side) \in Coherent
<1> DEFINE n == SnapHeight(s)
           p == PrefixStore(records, n)
           resumed == TailReplayed(Start(p.line, s, side), records, n)
           o == Opened(records, s, side)
<1>1. p \in Rebuilding
  BY PrefixRebuilds
<1>2. CASE s.tip = NoHash \/ ~ SidecarFits(side, n)
  <2>1. o = ByReplay(records)
    BY <1>2 DEF Opened
  <2> QED
    BY <2>1, ByReplayCoherent
<1>3. CASE s.tip # NoHash /\ SidecarFits(side, n) /\ ~ PrefixAgrees(records, s, n)
  <2>1. o = NearTip(records, s, side, n)
    BY <1>3 DEF Opened
  <2> QED
    BY <1>3, <2>1, NearTipCoherent
<1>4. CASE s.tip # NoHash /\ SidecarFits(side, n) /\ PrefixAgrees(records, s, n)
  <2>1. o = IF ~ FinalRestores(records, s, p.line) THEN [resumed EXCEPT !.ok = FALSE]
            ELSE IF resumed.ok THEN resumed ELSE NearTip(records, s, side, n)
    BY <1>4 DEF Opened
  <2>2. TreeLine(p.line) /\ Last(p.line) = s.tip
    BY <1>1, <1>4 DEF Rebuilding, OnLine, PrefixAgrees
  <2>3. CASE ~ FinalRestores(records, s, p.line)
    <3>1. o.ok
      OBVIOUS
    <3>2. o = [resumed EXCEPT !.ok = FALSE]
      BY <2>1, <2>3
    <3>3. resumed \in ResumeState
      BY <1>1, <1>4, StartTyped, TailTyped DEF Rebuilding, StoreState
    <3> HIDE DEF resumed, o
    <3>4. ~ o.ok
      BY <3>2, <3>3 DEF ResumeState
    <3> QED
      BY <3>1, <3>4
  <2>4. CASE FinalRestores(records, s, p.line)
    <3> HIDE DEF p
    <3>1. Start(p.line, s, side) \in Coherent
      BY <1>4, <2>2, <2>4, StartCoherent
    <3>2. resumed \in Coherent
      BY <3>1, TailCoherent
    <3>3. NearTip(records, s, side, n) \in Coherent
      BY <1>4, NearTipCoherent
    <3> HIDE DEF resumed, o, n
    <3> QED
      BY <2>1, <2>4, <3>2, <3>3 DEF o
  <2> QED
    BY <2>3, <2>4
<1> QED
  BY <1>2, <1>3, <1>4

-----------------------------------------------------------------------------
(* The derived state.                                                      *)

\* Whatever the log holds, it is a log; what is on disk is the state of some line.
RInv ==
    /\ HInv
    /\ log \in Seq(Record)
    /\ StateOfItsChain
    /\ names \in Seq(Hash) /\ sidecar.names \in Seq(Hash)
    /\ SnapOK(snap)

\* append_log writes some of its records, in their order.
LEMMA LogStaysLog ==
    ASSUME log \in Seq(Record), NEW records \in Seq(Record), WriteLog(records)
    PROVE  log' \in Seq(Record)
<1>1. PICK kept \in Appended(records) : log' = log \o kept
  BY DEF WriteLog
<1>2. PICK lost : kept = Surviving(records, lost)
  BY <1>1 DEF Appended
<1>3. kept \in Seq(Record)
  <2>1. CASE lost = {}
    BY <1>2, <2>1 DEF Surviving
  <2>2. CASE lost # {}
    <3>1. Closed("append", lost, Seq(Record), Record)
      BY DEF Closed, Turn
    <3>2. << >> \in Seq(Record)
      OBVIOUS
    <3>3. FoldOf("append", lost, << >>, records) \in Seq(Record)
      BY <3>1, <3>2, FoldStays
    <3> QED
      BY <1>2, <2>2, <3>3, SurvivingFolds
  <2> QED
    BY <2>1, <2>2
<1> QED
  BY <1>1, <1>3, ConcatProperties

\* The records of a drain.
LEMMA DrainRecords ==
    ASSUME NEW line \in Seq(Hash), NEW n \in 0 .. Len(line), NEW cp \in Hash \cup {NoHash}
    PROVE  /\ BlockRecords(line, n) \o FinalityRecord(cp, line) \in Seq(Record)
           /\ FinalityRecord(cp, line) \in Seq(Record)
<1>1. Len(line) \in Nat /\ Len(line) - n \in Nat /\ n \in Nat
  OBVIOUS
<1>2. \A i \in 1 .. Len(line) - n : [kind |-> "block", hash |-> line[n + i]] \in Record
  <2> SUFFICES ASSUME NEW i \in 1 .. Len(line) - n PROVE line[n + i] \in Hash
    BY DEF Record
  <2>1. n + i \in 1 .. Len(line)
    BY <1>1
  <2> QED
    BY <2>1
<1>3. BlockRecords(line, n) \in Seq(Record)
  <2> DEFINE R(i) == [kind |-> "block", hash |-> line[n + i]]
             m == Len(line) - n
  <2>1. BlockRecords(line, n) = [i \in 1 .. m |-> R(i)]
    BY DEF BlockRecords
  <2>2. m \in Nat /\ \A i \in 1 .. m : R(i) \in Record
    BY <1>1, <1>2
  <2> HIDE DEF R, m
  <2>3. [i \in 1 .. m |-> R(i)] \in [1 .. m -> Record]
    BY <2>2
  <2> QED
    BY <2>1, <2>2, <2>3
<1>4. FinalityRecord(cp, line) \in Seq(Record)
  <2>1. CASE cp = NoHash
    BY <2>1 DEF FinalityRecord
  <2>2. CASE cp # NoHash
    <3>1. [kind |-> "finalize", hash |-> cp] \in Record
      BY <2>2 DEF Record
    <3> QED
      BY <3>1 DEF FinalityRecord
  <2> QED
    BY <2>1, <2>2
<1> QED
  BY <1>3, <1>4, ConcatProperties

\* Block handlers fold what they apply.
LEMMA FoldsKeeps ==
    ASSUME RInv, applied' \in Seq(Hash), Folds
    PROVE  /\ StateOfItsChain' /\ names' \in Seq(Hash) /\ sidecar'.names \in Seq(Hash) /\ SnapOK(snap)'
<1>1. applied \in Seq(Hash) /\ tree = applied /\ names \in Seq(Hash)
  BY AppliedLine DEF RInv, StateOfItsChain
<1>2. tree' = applied' /\ names' \in Seq(Hash)
  BY <1>1, RefoldedLine DEF Folds
<1>3. snap' = snap /\ sidecar' = sidecar
  BY DEF Folds
<1> QED
  BY <1>2, <1>3 DEF RInv, StateOfItsChain, SnapOK

LEMMA ResumeInitRInv == ResumeInit => RInv
<1> SUFFICES ASSUME ResumeInit PROVE RInv
  OBVIOUS
<1>1. HInv
  BY NodeInitNInv DEF ResumeInit, NInv
<1>2. log \in Seq(Record)
  BY DEF ResumeInit, NodeInit
<1>3. StateOfItsChain
  BY DEF ResumeInit, NodeInit, StateOfItsChain
<1>4. names \in Seq(Hash) /\ sidecar.names \in Seq(Hash)
  BY GenesisLine DEF ResumeInit, NoSidecar
<1>5. SnapOK(snap)
  BY DEF ResumeInit, NoSnapshot, SnapOK, Snapshot
<1> QED
  BY <1>1, <1>2, <1>3, <1>4, <1>5 DEF RInv

LEMMA HeadTyped ==
    ASSUME HInv
    PROVE  stateFinal \in Hash \cup {NoHash} /\ latest \in Hash \cup {NoHash}
<1>1. applied \in Seq(Hash) /\ (stateFinal # NoHash => stateFinal \in ToSet(applied))
  BY AppliedLine DEF HInv, HeadFits
<1> QED
  BY <1>1 DEF HInv, HeadFits, ToSet

\* maintain_snapshot and the flush write the state of the applied chain.
LEMMA SavedOK ==
    ASSUME RInv
    PROVE  SnapOK(CurrentSnapshot) /\ CurrentSidecar.names \in Seq(Hash)
<1>1. TreeLine(applied) /\ applied \in Seq(Hash) /\ tree = applied /\ Len(applied) \in Nat /\ Len(applied) >= 1
  BY AppliedLine DEF RInv, StateOfItsChain, TreeLine
<1>2. Last(applied) \in Hash
  BY <1>1 DEF Last
<1>3. stateFinal \in Hash \cup {NoHash}
  BY HeadTyped DEF RInv
<1> QED
  BY <1>1, <1>2, <1>3 DEF RInv, SnapOK, Snapshot, CurrentSnapshot, CurrentSidecar

\* A node that opens again on what is on disk.
LEMMA OpenOnRInv ==
    ASSUME RInv, NEW records \in Seq(Record), NEW s, SnapOK(s), NEW side, side.names \in Seq(Hash),
           OpenOn(records, s, side)
    PROVE  RInv' /\ applied' = mainChain'
<1>1. PICK o : /\ o = Opened(records, s, side)
               /\ Adopt(o, records)
               /\ tree' = o.tree /\ names' = o.names
               /\ snap' = s /\ sidecar' = side
  BY DEF OpenOn
<1>2. o.ok
  BY <1>1 DEF Adopt
<1>3. o \in Coherent
  BY <1>1, <1>2, OpenedCoherent
<1>4. /\ TreeLine(o.line) /\ (o.final # NoHash => o.final \in ToSet(o.line))
      /\ o.tree = o.line /\ o.names \in Seq(Hash)
  BY <1>3 DEF Coherent, OnLine, ResumeState
<1>5. HInv' /\ OpenedWith(o.line, o.final) /\ log' = records
  BY <1>1, <1>4, AdoptHInv DEF RInv
<1>6. applied' = o.line /\ mainChain' = o.line
  BY <1>5 DEF OpenedWith
<1>7. StateOfItsChain'
  BY <1>1, <1>4, <1>6 DEF StateOfItsChain
<1>8. SnapOK(snap)'
  BY <1>1 DEF SnapOK
<1> QED
  BY <1>1, <1>4, <1>5, <1>6, <1>7, <1>8 DEF RInv

\* What a crash inside a drain leaves in the log.
LEMMA DrainCutLog ==
    ASSUME RInv, NEW h \in Known, NEW kept, NEW line,
           kept = Rejoined(mainChain, applied, Buffered(h)), line = Grown(blocks, kept, Buffered(h)),
           NEW records, records = Drained(kept, line, Buffered(h)).records,
           NEW k \in 1 .. Len(records) - 1
    PROVE  log \o SubSeq(records, 1, k) \in Seq(Record)
<1>1. StoreOK(blocks) /\ Matches(blocks) /\ tip \in Known /\ mainChain = blocks[tip].line
  BY DEF RInv, HInv, IInv, TypeOK, StoreOK, IndexIsTipBranch, Known
<1>2. DrainGoesOn(blocks, mainChain, applied, Buffered(h))
  BY <1>1, DrainFrom DEF RInv, Known
<1>3. GoesOn(applied, Len(kept), line)
  BY <1>2 DEF DrainGoesOn
<1>4. line \in Seq(Hash) /\ Len(kept) \in 0 .. Len(line)
  <2>1. TreeLine(applied) /\ TreeLine(line) /\ Len(kept) \in 1 .. Len(applied) /\ Len(kept) <= Len(line)
    BY <1>3 DEF GoesOn
  <2>2. line \in Seq(Hash) /\ Len(line) \in Nat /\ Len(applied) \in Nat
    BY <2>1 DEF TreeLine
  <2> HIDE DEF TreeLine
  <2> QED
    BY <2>1, <2>2
<1>5. records = BlockRecords(line, Len(kept)) \o FinalityRecord(latest, line)
  BY DEF Drained
<1>6. records \in Seq(Record)
  BY <1>4, <1>5, DrainRecords, HeadTyped DEF RInv
<1>7. SubSeq(records, 1, k) \in Seq(Record)
  <2>1. k \in Nat /\ k <= Len(records) /\ Len(records) \in Nat
    BY <1>6
  <2> QED
    BY <1>6, <2>1
<1> QED
  BY <1>7, ConcatProperties DEF RInv

\* A step is one of the state machine, or the node opens again.
LEMMA ResumeNextRInv ==
    ASSUME RInv, ResumeNext
    PROVE  RInv' /\ (StateStep \/ applied' = mainChain')
<1>1. HInv /\ applied \in Seq(Hash)
  BY AppliedLine DEF RInv
<1>2. ASSUME NEW h \in Hash \ {Genesis}, SubmitHeader(h), UNCHANGED snapVars
      PROVE  RInv' /\ StateStep
  <2>1. HInv' /\ StateStep
    BY <1>1, <1>2, SubmitHeaderHInv
  <2>2. UNCHANGED <<applied, log, snapVars>>
    BY <1>2 DEF SubmitHeader, stateVars
  <2> QED
    BY <2>1, <2>2 DEF RInv, StateOfItsChain, SnapOK, snapVars
<1>3. ASSUME NEW h \in Hash \ {Genesis}, IngestBlock(h), Folds
      PROVE  RInv' /\ StateStep
  <2>1. HInv' /\ StateStep
    BY <1>1, <1>3, IngestBlockHInv
  <2>2. PICK n \in 1 .. Len(applied) :
           /\ GoesOn(applied, n, applied')
           /\ WriteLog(BlockRecords(applied', n) \o FinalityRecord(latest, applied'))
    BY <1>1, <1>3, IngestDrains
  <2>3. applied' \in Seq(Hash) /\ n \in 0 .. Len(applied')
    <3>1. TreeLine(applied') /\ n <= Len(applied')
      BY <2>2 DEF GoesOn
    <3>2. applied' \in Seq(Hash) /\ Len(applied') \in Nat /\ n \in Nat
      BY <1>1, <3>1 DEF TreeLine
    <3> QED
      BY <3>1, <3>2
  <2>4. log' \in Seq(Record)
    <3>1. BlockRecords(applied', n) \o FinalityRecord(latest, applied') \in Seq(Record)
      BY <1>1, <2>3, HeadTyped, DrainRecords
    <3> QED
      BY <2>2, <3>1, LogStaysLog DEF RInv
  <2> QED
    BY <1>3, <2>1, <2>3, <2>4, FoldsKeeps DEF RInv
<1>4. ASSUME NEW cp \in FinalLine, IngestVotes(cp), UNCHANGED snapVars
      PROVE  RInv' /\ StateStep
  <2>1. HInv' /\ StateStep
    BY <1>1, <1>4, IngestVotesHInv
  <2>2. applied' = applied /\ WriteLog(FinalityRecord(cp, applied)) /\ UNCHANGED snapVars
    BY <1>4 DEF IngestVotes
  <2>3. log' \in Seq(Record)
    <3>1. cp \in Hash \cup {NoHash} /\ 0 \in 0 .. Len(applied)
      BY <1>1, FinalLineAssumption
    <3>2. FinalityRecord(cp, applied) \in Seq(Record)
      BY <1>1, <3>1, DrainRecords
    <3> QED
      BY <2>2, <3>2, LogStaysLog DEF RInv
  <2> QED
    BY <2>1, <2>2, <2>3 DEF RInv, StateOfItsChain, SnapOK, snapVars
<1>5. ASSUME NEW lost \in BOOLEAN, MaintainSnapshot(lost)
      PROVE  RInv' /\ StateStep
  <2>1. /\ UNCHANGED <<nodeVars, tree, names>>
        /\ snap' = CurrentSnapshot /\ sidecar' \in {sidecar, CurrentSidecar}
    BY <1>5 DEF MaintainSnapshot, Saved
  <2>2. HInv' /\ UNCHANGED <<applied, stateFinal, mainChain, log>>
    <3>1. UNCHANGED nodeVars
      BY <2>1
    <3> QED
      BY <1>1, <3>1, StutterHInv
  <2>3. StateStep
    BY <1>1, <2>2, StaysApplied DEF HeadMoves
  <2>4. SnapOK(snap)' /\ sidecar'.names \in Seq(Hash)
    BY <2>1, SavedOK DEF RInv, SnapOK
  <2> QED
    BY <2>1, <2>2, <2>3, <2>4 DEF RInv, StateOfItsChain
<1>6. ASSUME NEW lost \in BOOLEAN, Shutdown(lost)
      PROVE  RInv' /\ applied' = mainChain'
  <2>1. PICK s \in {CurrentSnapshot}, side \in {sidecar, CurrentSidecar} : OpenOn(log, s, side)
    BY <1>6 DEF Shutdown
  <2>2. SnapOK(s) /\ side.names \in Seq(Hash)
    BY SavedOK DEF RInv
  <2> QED
    BY <2>1, <2>2, OpenOnRInv DEF RInv
<1>7. ASSUME Crash
      PROVE  RInv' /\ applied' = mainChain'
  BY <1>7, OpenOnRInv DEF RInv, Crash
<1>8. ASSUME NEW h \in Hash \ {Genesis}, CrashInDrainAfter(h)
      PROVE  RInv' /\ applied' = mainChain'
  <2> DEFINE held == Buffered(h)
             kept == Rejoined(mainChain, applied, held)
             line == Grown(blocks, kept, held)
             records == Drained(kept, line, held).records
  <2>1. h \in Known
    BY <1>8 DEF CrashInDrainAfter
  <2>2. PICK n \in 1 .. Len(records) - 1 : OpenOn(log \o SubSeq(records, 1, n), snap, sidecar)
    BY <1>8 DEF CrashInDrainAfter
  <2>3. log \o SubSeq(records, 1, n) \in Seq(Record)
    BY <2>1, DrainCutLog
  <2> HIDE DEF records
  <2> QED
    BY <2>2, <2>3, OpenOnRInv DEF RInv
<1> QED
  BY <1>2, <1>3, <1>4, <1>5, <1>6, <1>7, <1>8 DEF ResumeNext

\* The node of SnapshotResume keeps its invariant, whatever fails.
LEMMA ResumeInvariant == ResumeSpec => []RInv
<1>1. RInv /\ [ResumeNext]_resumeVars => RInv'
  <2> SUFFICES ASSUME RInv, [ResumeNext]_resumeVars PROVE RInv'
    OBVIOUS
  <2>1. CASE ResumeNext
    BY <2>1, ResumeNextRInv
  <2>2. CASE UNCHANGED resumeVars
    <3>1. UNCHANGED nodeVars /\ UNCHANGED snapVars
      BY <2>2 DEF resumeVars
    <3>2. HInv' /\ UNCHANGED <<applied, log>>
      BY <3>1, StutterHInv DEF RInv
    <3> QED
      BY <3>1, <3>2 DEF RInv, StateOfItsChain, SnapOK, snapVars
  <2> QED
    BY <2>1, <2>2
<1> QED
  BY <1>1, ResumeInitRInv, PTL DEF ResumeSpec

\* The commitment tree and the nullifiers are those of the applied chain, after any
\* number of rewinds, failed appends, torn snapshots, crashes and restarts
\* (resume_from_snapshot: "derived state for the wrong branch, and nothing downstream
\* would notice").
THEOREM DerivedStateOfItsChain == ResumeSpec => []StateOfItsChain
<1>1. RInv => StateOfItsChain
  BY DEF RInv
<1> QED
  BY <1>1, ResumeInvariant, PTL

\* A node that resumes from snapshots too has the committee's checkpoint for its
\* finalized head whenever the block is applied (sync_state_finality), whether its disk
\* held or not.
THEOREM ResumedFinalityFollows == ResumeSpec => []StateFinalityFollows
<1>1. RInv => StateFinalityFollows
  BY DEF RInv, HInv
<1> QED
  BY <1>1, ResumeInvariant, PTL

\* No step of it, a resume included, costs the state machine blocks it shares with an
\* unchanged main chain (rejoin_main_chain; open_for).
THEOREM ResumedLosersOnly == ResumeSpec => RewindsOnlyLosers
<1> DEFINE A == mainChain' = mainChain => Shared(mainChain, applied') >= Shared(mainChain, applied)
<1>1. RInv /\ RInv' /\ [ResumeNext]_resumeVars => [A]_nodeVars
  <2> SUFFICES ASSUME RInv, RInv', ResumeNext, mainChain' = mainChain
               PROVE  Shared(mainChain, applied') >= Shared(mainChain, applied)
    BY DEF resumeVars
  <2>1. CASE StateStep
    BY <2>1, LosersOnly DEF RInv
  <2>2. CASE applied' = mainChain'
    <3> DEFINE n == Shared(mainChain, applied)
               m == Shared(mainChain, mainChain)
    <3>1. TreeLine(mainChain) /\ TreeLine(applied)
      BY AppliedLine DEF RInv
    <3>2. Len(mainChain) \in Nat /\ Len(mainChain) >= 1 /\ Len(applied) \in Nat
      BY <3>1 DEF TreeLine
    <3>3. n \in 1 .. Len(applied) /\ n <= Len(mainChain)
      BY <3>1, SharedPosition
    <3>4. /\ m \in 1 .. Len(mainChain)
          /\ \A j \in 1 .. Len(mainChain) : j <= Len(mainChain) /\ mainChain[j] = mainChain[j] => j <= m
      BY <3>1, SharedPosition
    <3> HIDE DEF n, m
    <3>5. m >= n
      BY <3>2, <3>3, <3>4
    <3>6. Shared(mainChain, applied') = m
      BY <2>2 DEF m
    <3> QED
      BY <3>5, <3>6 DEF n
  <2> QED
    BY <2>1, <2>2, ResumeNextRInv
<1> QED
  BY <1>1, ResumeInvariant, PTL DEF ResumeSpec, RewindsOnlyLosers
-----------------------------------------------------------------------------
(* Blocks on lines.                                                        *)

\* A block has the place its height gives it.
On(line, b) == HeightIn(b) + 1 \in 1 .. Len(line) /\ line[HeightIn(b) + 1] = b

LEMMA PlaceOfBlock ==
    ASSUME NEW line, TreeLine(line), NEW b
    PROVE  /\ b \in ToSet(line) <=> b \in Hash /\ On(line, b)
           /\ b \in ToSet(line) => HeightIn(b) \in Nat
<1>1. line \in Seq(Hash) /\ Len(line) \in Nat /\ DOMAIN line = 1 .. Len(line)
  BY DEF TreeLine
<1>2. ASSUME b \in ToSet(line) PROVE b \in Hash /\ On(line, b) /\ HeightIn(b) \in Nat
  <2>1. PICK i \in 1 .. Len(line) : b = line[i]
    BY <1>1, <1>2 DEF ToSet
  <2>2. HeightIn(b) = i - 1 /\ b \in Hash
    BY <1>1, <2>1 DEF TreeLine
  <2>3. HeightIn(b) + 1 = i
    BY <2>1, <2>2
  <2> QED
    BY <2>1, <2>2, <2>3 DEF On
<1>3. ASSUME b \in Hash, On(line, b) PROVE b \in ToSet(line)
  BY <1>1, <1>3 DEF On, ToSet
<1> QED
  BY <1>2, <1>3

\* b is on every line that agrees with one of its lines up to it.
Carries(line, t) == Len(t) <= Len(line) /\ \A j \in 1 .. Len(t) : line[j] = t[j]

LEMMA CarriesIsPrefix ==
    ASSUME NEW line \in Seq(Hash), NEW t \in Seq(Hash)
    PROVE  Carries(line, t) <=> IsPrefix(t, line)
<1>1. Len(line) \in Nat /\ Len(t) \in Nat
  OBVIOUS
<1>2. ASSUME Carries(line, t) PROVE IsPrefix(t, line)
  <2>1. Len(t) <= Len(line) /\ \A j \in 1 .. Len(t) : line[j] = t[j]
    BY <1>2 DEF Carries
  <2>2. SubSeq(line, 1, Len(t)) \in Seq(Hash) /\ Len(SubSeq(line, 1, Len(t))) = Len(t)
    BY <1>1, <2>1
  <2>3. \A j \in 1 .. Len(t) : SubSeq(line, 1, Len(t))[j] = line[j]
    BY <1>1, <2>1
  <2>4. SubSeq(line, 1, Len(t)) = t
    BY <2>1, <2>2, <2>3, SeqEqual
  <2>5. SubSeq(t, 1, Len(t)) = t
    BY SubSeqFull
  <2> QED
    BY <2>1, <2>4, <2>5 DEF IsPrefix
<1>3. ASSUME IsPrefix(t, line) PROVE Carries(line, t)
  <2>1. Len(t) <= Len(line) /\ SubSeq(t, 1, Len(t)) = SubSeq(line, 1, Len(t))
    BY <1>3 DEF IsPrefix
  <2>2. SubSeq(t, 1, Len(t)) = t
    BY SubSeqFull
  <2>3. \A j \in 1 .. Len(t) : SubSeq(line, 1, Len(t))[j] = line[j]
    BY <1>1, <2>1
  <2> QED
    BY <2>1, <2>2, <2>3 DEF Carries
<1> QED
  BY <1>2, <1>3

\* The record of block h is accepted: its parent is on the line, no lower than the head.
Accepts(s, h) ==
    /\ HeightIn(h) \in 1 .. Len(s.line)
    /\ s.line[HeightIn(h)] = PrevIn(h)
    /\ s.final # NoHash => HeightIn(s.final) < HeightIn(h)

\* The line goes back to the parent of h and takes h.
Onto(line, h, new) ==
    /\ Len(new) = HeightIn(h) + 1
    /\ new[HeightIn(h) + 1] = h
    /\ \A j \in 1 .. HeightIn(h) : new[j] = line[j]

Rebased(line, h) == Append(SubSeq(line, 1, HeightIn(h)), h)

LEMMA RebasedLine ==
    ASSUME NEW s, OnLine(s), NEW h \in Hash, Accepts(s, h)
    PROVE  TreeLine(Rebased(s.line, h)) /\ Onto(s.line, h, Rebased(s.line, h))
<1> DEFINE n == HeightIn(h)
           line == s.line
           new == Append(SubSeq(line, 1, n), h)
<1>1. TreeLine(line) /\ n \in 1 .. Len(line) /\ PrevIn(h) = line[n]
  BY DEF OnLine, Accepts
<1>2. line \in Seq(Hash) /\ Len(line) \in Nat
  BY <1>1 DEF TreeLine
<1> HIDE DEF n, line
<1>3. TreeLine(new) /\ Len(new) = n + 1 /\ Last(new) = h /\ SubSeq(new, 1, n) = SubSeq(line, 1, n)
  BY <1>1, LineExtends
<1>4. new \in Seq(Hash) /\ n \in Nat
  BY <1>1, <1>2, <1>3 DEF TreeLine
<1> HIDE DEF new
<1>5. \A j \in 1 .. n : SubSeq(new, 1, n)[j] = new[j] /\ SubSeq(line, 1, n)[j] = line[j]
  BY <1>1, <1>2, <1>3, <1>4
<1>6. new[n + 1] = h
  BY <1>3 DEF Last
<1> QED
  BY <1>3, <1>5, <1>6 DEF Rebased, Onto, new, n, line

LEMMA BlockTaken ==
    ASSUME NEW s, OnLine(s), NEW h \in Hash
    PROVE  LoggedBlock(s, h) = IF Accepts(s, h) THEN [s EXCEPT !.line = Rebased(s.line, h)]
                               ELSE [s EXCEPT !.ok = FALSE]
<1> DEFINE line == s.line
           parents == {i \in DOMAIN line : line[i] = PrevIn(h)}
           n == IF parents = {} THEN 0 ELSE Max(parents)
<1>1. TreeLine(line) /\ line \in Seq(Hash) /\ Len(line) \in Nat /\ DOMAIN line = 1 .. Len(line)
  BY DEF OnLine, TreeLine
<1>2. LoggedBlock(s, h) = IF parents = {} \/ ~ MayRewind(line, s.final, n)
                          THEN [s EXCEPT !.ok = FALSE]
                          ELSE [s EXCEPT !.line = Append(SubSeq(line, 1, n), h)]
  BY DEF LoggedBlock
<1>3. CASE parents = {}
  <2>1. ~ Accepts(s, h)
    BY <1>1, <1>3 DEF Accepts
  <2> QED
    BY <1>2, <1>3, <2>1
<1>4. CASE parents # {}
  <2>1. n \in 1 .. Len(line) /\ line[n] = PrevIn(h)
    <3>1. n = Max(parents)
      BY <1>4
    <3>2. parents \subseteq 1 .. Len(line)
      BY <1>1
    <3>3. \A i \in parents : i \in 1 .. Len(line) /\ line[i] = PrevIn(h)
      BY <1>1
    <3> HIDE DEF parents, n, line
    <3>4. Max(parents) \in parents
      BY <1>1, <1>4, <3>2, MaxPosition
    <3> QED
      BY <3>1, <3>3, <3>4
  <2> HIDE DEF n, parents
  <2>2. HeightIn(h) = n
    <3>1. HeightIn(line[n]) = n - 1 /\ line[n] \in Hash
      BY <1>1, <2>1 DEF TreeLine
    <3>2. h # Genesis
      BY <2>1, <3>1, HeightIsNatural, NoHashAssumption
    <3>3. HeightIn(h) = HeightIn(PrevIn(h)) + 1
      BY <3>2, HeightsAssumption DEF HeightIn, PrevIn
    <3> QED
      BY <2>1, <3>1, <3>3
  <2>3. MayRewind(line, s.final, n) <=> (s.final # NoHash => HeightIn(s.final) < HeightIn(h))
    <3> DEFINE cut == SubSeq(line, 1, n)
               f == s.final
    <3>1. TreeLine(cut) /\ Len(cut) = n /\ \A j \in 1 .. n : cut[j] = line[j]
      BY <1>1, <2>1, PrefixLine
    <3>2. f # NoHash => f \in Hash /\ On(line, f) /\ HeightIn(f) \in Nat
      BY <1>1, PlaceOfBlock DEF OnLine
    <3>3. n \in Nat
      BY <2>1
    <3> HIDE DEF cut, f
    <3>4. f # NoHash => (f \in ToSet(cut) <=> On(cut, f))
      BY <3>1, <3>2, PlaceOfBlock
    <3>5. f # NoHash => (On(cut, f) <=> HeightIn(f) < n)
      BY <3>1, <3>2, <3>3 DEF On
    <3> QED
      BY <2>2, <3>4, <3>5 DEF MayRewind, cut, f
  <2>4. Accepts(s, h) <=> MayRewind(line, s.final, n)
    BY <2>1, <2>2, <2>3 DEF Accepts
  <2> QED
    BY <1>2, <1>4, <2>2, <2>4 DEF Rebased
<1> QED
  BY <1>3, <1>4

-----------------------------------------------------------------------------
(* A replay that refuses nothing, record by record.                        *)

\* What replaying a record of the node's own does.
Took(s, t, r) ==
    IF IsBlock(r)
    THEN /\ Accepts(s, r.hash)
         /\ Onto(s.line, r.hash, t.line)
         /\ t.final = s.final
    ELSE /\ t.line = s.line
         /\ t.final = r.hash
         /\ s.final # NoHash => s.final = t.final \/ HeightIn(s.final) < HeightIn(t.final)

\* R[k] is the replay of the first k records.
History(rec, N, R) ==
    /\ \A k \in 0 .. N : OnLine(R[k])
    /\ R[0].line = <<Genesis>> /\ R[0].final = NoHash
    /\ \A k \in 1 .. N : rec[k] \in Record /\ Took(R[k - 1], R[k], rec[k])

\* A finalized block stays on the line, and the head only rises.
LEMMA FinalsStay ==
    ASSUME NEW N \in Nat, NEW rec, NEW R, History(rec, N, R),
           NEW a \in 0 .. N, R[a].final # NoHash
    PROVE  \A b \in a .. N : /\ R[b].final # NoHash
                             /\ HeightIn(R[a].final) <= HeightIn(R[b].final)
                             /\ R[a].final \in ToSet(R[b].line)
<1> DEFINE f == R[a].final
           P(b) == /\ R[b].final # NoHash
                   /\ HeightIn(f) <= HeightIn(R[b].final)
                   /\ f \in ToSet(R[b].line)
           S == {b \in Nat : b \in a .. N => P(b)}
<1>1. f \in Hash /\ HeightIn(f) \in Nat /\ P(a)
  <2>1. OnLine(R[a])
    BY DEF History
  <2>2. f \in ToSet(R[a].line) /\ TreeLine(R[a].line)
    BY <2>1 DEF OnLine
  <2>3. f \in Hash /\ HeightIn(f) \in Nat
    BY <2>2, PlaceOfBlock
  <2> QED
    BY <2>2, <2>3
<1>2. ASSUME NEW b \in a .. N, b + 1 \in 0 .. N, P(b) PROVE P(b + 1)
  <2> DEFINE s == R[b]
             t == R[b + 1]
             r == rec[b + 1]
  <2>1. b \in 0 .. N /\ b + 1 \in 1 .. N /\ (b + 1) - 1 = b
    BY <1>2
  <2>2. OnLine(s) /\ OnLine(t) /\ Took(s, t, r)
    BY <1>2, <2>1 DEF History
  <2>3. s.final # NoHash /\ HeightIn(f) <= HeightIn(s.final) /\ f \in ToSet(s.line)
    BY <1>2
  <2>4. s.final \in ToSet(s.line) /\ TreeLine(s.line) /\ TreeLine(t.line)
    BY <2>2, <2>3 DEF OnLine
  <2>5. On(s.line, f) /\ HeightIn(s.final) \in Nat
    BY <2>3, <2>4, PlaceOfBlock
  <2> HIDE DEF s, t, r, f
  <2>6. CASE IsBlock(r)
    <3> DEFINE h == r.hash
    <3>1. Accepts(s, h) /\ Onto(s.line, h, t.line) /\ t.final = s.final
      BY <2>2, <2>6 DEF Took
    <3> HIDE DEF h
    <3>2. HeightIn(h) \in Nat /\ HeightIn(s.final) < HeightIn(h)
      <4>1. HeightIn(h) \in 1 .. Len(s.line) /\ HeightIn(s.final) < HeightIn(h)
        BY <2>3, <3>1 DEF Accepts
      <4> QED
        BY <4>1
    <3>3. HeightIn(f) + 1 \in 1 .. HeightIn(h) /\ HeightIn(f) + 1 \in 1 .. Len(t.line)
      <4>1. Len(t.line) = HeightIn(h) + 1
        BY <3>1 DEF Onto
      <4> QED
        BY <1>1, <2>3, <2>5, <3>2, <4>1
    <3>4. On(t.line, f)
      BY <2>5, <3>1, <3>3 DEF On, Onto
    <3>5. f \in ToSet(t.line)
      BY <1>1, <2>4, <3>4, PlaceOfBlock
    <3> QED
      BY <2>3, <3>1, <3>5 DEF t, f
  <2>7. CASE ~ IsBlock(r)
    <3>1. t.line = s.line /\ t.final = r.hash
          /\ (s.final = t.final \/ HeightIn(s.final) < HeightIn(t.final))
      BY <2>2, <2>3, <2>7 DEF Took
    <3>2. t.final # NoHash
      BY <1>2, <2>1, <3>1, NoHashAssumption DEF History, Record, r
    <3>3. t.final \in ToSet(t.line) /\ HeightIn(t.final) \in Nat
      BY <2>2, <2>4, <3>2, PlaceOfBlock DEF OnLine
    <3>4. HeightIn(f) <= HeightIn(t.final)
      BY <1>1, <2>3, <2>5, <3>1, <3>3
    <3> QED
      BY <2>3, <3>1, <3>2, <3>4 DEF t, f
  <2> QED
    BY <2>6, <2>7
<1> HIDE DEF P
<1>3. 0 \in S
  <2>1. 0 \in a .. N => a = 0
    OBVIOUS
  <2> QED
    BY <1>1, <2>1
<1>4. ASSUME NEW b \in Nat, b \in S PROVE b + 1 \in S
  <2> SUFFICES ASSUME b + 1 \in a .. N PROVE P(b + 1)
    OBVIOUS
  <2>1. CASE b + 1 = a
    BY <1>1, <2>1
  <2>2. CASE b + 1 # a
    <3>1. b \in a .. N /\ b + 1 \in 0 .. N
      BY <2>2
    <3>2. P(b)
      BY <1>4, <3>1
    <3> QED
      BY <1>2, <3>1, <3>2
  <2> QED
    BY <2>1, <2>2
<1> HIDE DEF S
<1>5. Nat \subseteq S
  BY <1>3, <1>4, SetInduction
<1>6. \A b \in a .. N : P(b)
  <2> SUFFICES ASSUME NEW b \in a .. N PROVE P(b)
    OBVIOUS
  <2>1. b \in Nat
    OBVIOUS
  <2> QED
    BY <1>5, <2>1 DEF S
<1> QED
  BY <1>6 DEF P, f

-----------------------------------------------------------------------------
(* The tail loops, beside the replay of the same records.                  *)

\* What either tail loop does with a record when it refuses nothing in the end.
TailTook(n, s, t, r) ==
    IF ~ InTail(r, n) THEN t.line = s.line /\ t.final = s.final
    ELSE IF IsBlock(r)
    THEN /\ t.final = s.final
         /\ IF Accepts(s, r.hash) THEN Onto(s.line, r.hash, t.line) ELSE t.line = s.line
    ELSE /\ t.line = s.line
         /\ t.final = IF Finalizes(s.line, s.final, r.hash) THEN r.hash ELSE s.final

\* T[k] is the tail loop after k records, from a snapshot that holds R[m]; the replay
\* ends on the snapshot's line.
Resuming(rec, N, R, T, m) ==
    /\ N \in Nat /\ m \in 0 .. N
    /\ History(rec, N, R)
    /\ \A k \in 0 .. N : OnLine(T[k])
    /\ \A k \in 1 .. N : TailTook(Len(R[m].line) - 1, T[k - 1], T[k], rec[k])
    /\ T[0].line = R[m].line /\ T[0].final = R[m].final
    /\ Carries(R[N].line, R[m].line)

\* The tail loop never leaves the snapshot's line.
LEMMA TailCarries ==
    ASSUME NEW rec, NEW N, NEW R, NEW T, NEW m, Resuming(rec, N, R, T, m)
    PROVE  \A k \in 0 .. N : Carries(T[k].line, R[m].line)
<1> DEFINE snapped == R[m].line
           S == {k \in Nat : k \in 0 .. N => Carries(T[k].line, snapped)}
<1>1. N \in Nat /\ m \in 0 .. N /\ Len(snapped) \in Nat /\ Len(snapped) >= 1
  <2>1. N \in Nat /\ m \in 0 .. N /\ OnLine(R[m])
    BY DEF Resuming, History
  <2> QED
    BY <2>1 DEF OnLine, TreeLine
<1>2. 0 \in S
  BY <1>1 DEF Resuming, Carries
<1>3. ASSUME NEW k \in Nat, k \in S PROVE k + 1 \in S
  <2> SUFFICES ASSUME k + 1 \in 0 .. N PROVE Carries(T[k + 1].line, snapped)
    OBVIOUS
  <2> DEFINE s == T[k]
             t == T[k + 1]
             r == rec[k + 1]
             n == Len(snapped) - 1
  <2>1. k \in 0 .. N /\ k + 1 \in 1 .. N /\ (k + 1) - 1 = k
    BY <1>1
  <2>2. Carries(s.line, snapped)
    BY <1>3, <2>1
  <2>3. TailTook(n, s, t, r)
    BY <2>1 DEF Resuming
  <2>4. Len(s.line) \in Nat
    BY <2>1 DEF Resuming, OnLine, TreeLine
  <2> HIDE DEF S, s, t, r
  <2>5. CASE t.line = s.line
    BY <2>2, <2>5 DEF t
  <2>6. CASE IsBlock(r) /\ InTail(r, n) /\ Onto(s.line, r.hash, t.line) /\ Accepts(s, r.hash)
    <3>1. HeightIn(r.hash) \in 1 .. Len(s.line) /\ ~ (HeightIn(r.hash) <= n)
      BY <2>6 DEF InTail, InPrefix, Accepts
    <3>2. Len(snapped) <= HeightIn(r.hash) /\ HeightIn(r.hash) \in Nat
      BY <1>1, <2>4, <3>1
    <3>3. Len(t.line) = HeightIn(r.hash) + 1 /\ \A j \in 1 .. HeightIn(r.hash) : t.line[j] = s.line[j]
      BY <2>6 DEF Onto
    <3> HIDE DEF n, snapped
    <3>4. \A j \in 1 .. Len(snapped) : j \in 1 .. HeightIn(r.hash)
      BY <1>1, <3>2
    <3>5. Len(snapped) <= Len(t.line)
      BY <1>1, <3>2, <3>3
    <3> QED
      BY <2>2, <3>3, <3>4, <3>5 DEF Carries, t
  <2> QED
    BY <2>3, <2>5, <2>6 DEF TailTook
<1> HIDE DEF S
<1>4. Nat \subseteq S
  BY <1>2, <1>3, SetInduction
<1> QED
  BY <1>1, <1>4 DEF S

\* Its head is the snapshot's, or one the replay has had.
LEMMA TailHeads ==
    ASSUME NEW rec, NEW N, NEW R, NEW T, NEW m, Resuming(rec, N, R, T, m)
    PROVE  \A k \in 0 .. N : \/ T[k].final = R[m].final
                             \/ \E j \in 0 .. k : T[k].final = R[j].final
<1> DEFINE P(k) == T[k].final = R[m].final \/ \E j \in 0 .. k : T[k].final = R[j].final
           S == {k \in Nat : k \in 0 .. N => P(k)}
<1>1. N \in Nat
  BY DEF Resuming
<1>2. 0 \in S
  BY DEF Resuming
<1>3. ASSUME NEW k \in Nat, k \in S PROVE k + 1 \in S
  <2> SUFFICES ASSUME k + 1 \in 0 .. N PROVE P(k + 1)
    OBVIOUS
  <2>1. k \in 0 .. N /\ k + 1 \in 1 .. N /\ (k + 1) - 1 = k
    BY <1>1
  <2>2. P(k)
    BY <1>3, <2>1
  <2>3. TailTook(Len(R[m].line) - 1, T[k], T[k + 1], rec[k + 1]) /\ Took(R[k], R[k + 1], rec[k + 1])
    BY <2>1 DEF Resuming, History
  <2>4. T[k + 1].final = T[k].final \/ T[k + 1].final = R[k + 1].final
    BY <2>3 DEF TailTook, Took
  <2>5. 0 .. k \subseteq 0 .. k + 1 /\ k + 1 \in 0 .. k + 1
    OBVIOUS
  <2> QED
    BY <2>2, <2>4, <2>5
<1> HIDE DEF S
<1>4. Nat \subseteq S
  BY <1>2, <1>3, SetInduction
<1> QED
  BY <1>1, <1>4 DEF S

\* A block above the snapshot that the replay takes, the loop takes too.
LEMMA TailAccepts ==
    ASSUME NEW rec, NEW N, NEW R, NEW T, NEW m, Resuming(rec, N, R, T, m),
           NEW k \in 0 .. N, Carries(T[k].line, R[k].line),
           NEW h, Accepts(R[k], h), Len(R[m].line) <= HeightIn(h)
    PROVE  Accepts(T[k], h)
<1> DEFINE s == R[k]
           t == T[k]
           i == HeightIn(h)
<1>1. /\ N \in Nat /\ m \in 0 .. N /\ History(rec, N, R)
      /\ OnLine(R[m]) /\ OnLine(s) /\ OnLine(t)
  BY DEF Resuming, History
<1>2. Len(s.line) \in Nat /\ Len(t.line) \in Nat /\ Len(R[m].line) \in Nat
  BY <1>1 DEF OnLine, TreeLine
<1>3. i \in 1 .. Len(s.line) /\ s.line[i] = PrevIn(h) /\ (s.final # NoHash => HeightIn(s.final) < i)
  BY DEF Accepts
<1>4. Len(s.line) <= Len(t.line) /\ t.line[i] = s.line[i]
  BY <1>3 DEF Carries
<1>5. i \in 1 .. Len(t.line) /\ i \in Nat
  BY <1>2, <1>3, <1>4
<1>6. ASSUME t.final # NoHash PROVE HeightIn(t.final) < i
  <2>1. CASE t.final = R[m].final
    <3>1. t.final \in ToSet(R[m].line) /\ TreeLine(R[m].line)
      BY <1>1, <1>6, <2>1 DEF OnLine
    <3>2. HeightIn(t.final) + 1 \in 1 .. Len(R[m].line) /\ HeightIn(t.final) \in Nat
      BY <3>1, PlaceOfBlock DEF On
    <3> QED
      BY <1>2, <1>5, <3>2
  <2>2. ASSUME NEW j \in 0 .. k, t.final = R[j].final PROVE HeightIn(t.final) < i
    <3>1. j \in 0 .. N /\ k \in j .. N /\ R[j].final # NoHash
      BY <1>1, <1>6, <2>2
    <3>2. s.final # NoHash /\ HeightIn(R[j].final) <= HeightIn(s.final) /\ R[j].final \in ToSet(s.line)
      BY <1>1, <3>1, FinalsStay
    <3>3. HeightIn(s.final) < i
      BY <1>3, <3>2
    <3>4. HeightIn(R[j].final) \in Nat /\ HeightIn(s.final) \in Nat
      <4>1. TreeLine(s.line) /\ s.final \in ToSet(s.line)
        BY <1>1, <3>2 DEF OnLine
      <4> QED
        BY <3>2, <4>1, PlaceOfBlock
    <3> QED
      BY <1>5, <2>2, <3>2, <3>3, <3>4
  <2> QED
    BY <2>1, <2>2, TailHeads
<1> QED
  BY <1>3, <1>4, <1>5, <1>6 DEF Accepts

\* From the last time the replay came onto the snapshot's line, the loop's line is
\* ahead of the replay's or equal to it.
LEMMA TailFollows ==
    ASSUME NEW rec, NEW N, NEW R, NEW T, NEW m, Resuming(rec, N, R, T, m)
    PROVE  \A k \in 0 .. N : (\A j \in k .. N : Carries(R[j].line, R[m].line))
                                 => Carries(T[k].line, R[k].line)
<1> DEFINE snapped == R[m].line
           P(k) == (\A j \in k .. N : Carries(R[j].line, snapped)) => Carries(T[k].line, R[k].line)
           S == {k \in Nat : k \in 0 .. N => P(k)}
<1>1. N \in Nat /\ m \in 0 .. N /\ History(rec, N, R) /\ Len(snapped) \in Nat /\ Len(snapped) >= 1
  <2>1. N \in Nat /\ m \in 0 .. N /\ History(rec, N, R) /\ OnLine(R[m])
    BY DEF Resuming, History
  <2> QED
    BY <2>1 DEF OnLine, TreeLine
<1>2. 0 \in S
  <2>1. T[0].line = snapped /\ R[0].line = <<Genesis>>
    BY DEF Resuming, History
  <2>2. snapped[1] = Genesis
    BY <1>1 DEF History, OnLine, TreeLine
  <2>3. Len(<<Genesis>>) = 1 /\ <<Genesis>>[1] = Genesis /\ \A j \in 1 .. 1 : j = 1
    OBVIOUS
  <2> HIDE DEF snapped
  <2>4. Carries(snapped, <<Genesis>>)
    BY <1>1, <2>2, <2>3 DEF Carries
  <2> QED
    BY <2>1, <2>4
<1>3. ASSUME NEW k \in Nat, k \in S PROVE k + 1 \in S
  <2> SUFFICES ASSUME k + 1 \in 0 .. N, \A j \in k + 1 .. N : Carries(R[j].line, snapped)
               PROVE  Carries(T[k + 1].line, R[k + 1].line)
    OBVIOUS
  <2> DEFINE s == T[k]
             t == T[k + 1]
             p == R[k]
             q == R[k + 1]
             r == rec[k + 1]
             h == r.hash
             i == HeightIn(h)
             n == Len(snapped) - 1
  <2>1. k \in 0 .. N /\ k + 1 \in 1 .. N /\ (k + 1) - 1 = k
    BY <1>1
  <2>2. TailTook(n, s, t, r) /\ Took(p, q, r) /\ OnLine(s) /\ OnLine(p) /\ OnLine(q)
    BY <2>1 DEF Resuming, History
  <2>3. Carries(q.line, snapped) /\ Carries(s.line, snapped)
    BY <1>1, <2>1, TailCarries
  <2>4. Len(s.line) \in Nat /\ Len(p.line) \in Nat /\ Len(q.line) \in Nat
    BY <2>2 DEF OnLine, TreeLine
  <2>5. ASSUME Carries(p.line, snapped) PROVE Carries(s.line, p.line)
    <3>1. \A j \in k .. N : Carries(R[j].line, snapped)
      <4> SUFFICES ASSUME NEW j \in k .. N PROVE Carries(R[j].line, snapped)
        OBVIOUS
      <4>1. j = k \/ j \in k + 1 .. N
        BY <2>1
      <4> QED
        BY <2>5, <4>1
    <3> QED
      BY <1>3, <2>1, <3>1
  <2> HIDE DEF S, P
  <2>6. CASE ~ IsBlock(r)
    <3>1. q.line = p.line /\ t.line = s.line
      BY <2>2, <2>6 DEF Took, TailTook, InTail, InPrefix
    <3> QED
      BY <2>3, <2>5, <3>1
  <2>7. CASE IsBlock(r)
    <3>1. Accepts(p, h) /\ Onto(p.line, h, q.line)
      BY <2>2, <2>7 DEF Took
    <3>2. i \in 1 .. Len(p.line) /\ Len(q.line) = i + 1 /\ q.line[i + 1] = h
          /\ \A j \in 1 .. i : q.line[j] = p.line[j]
      BY <3>1 DEF Accepts, Onto
    <3>3. CASE i <= n
      <4>1. t.line = s.line
        BY <2>2, <2>7, <3>3 DEF TailTook, InTail, InPrefix
      <4>2. Len(q.line) = Len(snapped)
        <5>1. Len(snapped) <= Len(q.line)
          BY <2>3 DEF Carries
        <5> HIDE DEF s, t, p, q, r, h, snapped
        <5> QED
          BY <1>1, <2>4, <3>2, <3>3, <5>1
      <4> HIDE DEF s, t, p, q, r, h, snapped
      <4>3. \A j \in 1 .. Len(q.line) : s.line[j] = q.line[j]
        BY <2>3, <4>2 DEF Carries
      <4>4. Len(q.line) <= Len(s.line)
        BY <2>3, <4>2 DEF Carries
      <4> QED
        BY <4>1, <4>3, <4>4 DEF Carries, t, q
    <3>4. CASE ~ (i <= n)
      <4>1. Len(snapped) <= i
        BY <1>1, <2>4, <3>2, <3>4
      <4>2. Carries(p.line, snapped)
        <5> HIDE DEF s, t, p, q, r, h, i, snapped
        <5>1. Len(snapped) <= Len(p.line) /\ \A j \in 1 .. Len(snapped) : j \in 1 .. i
          BY <1>1, <2>4, <3>2, <4>1
        <5> QED
          BY <2>3, <3>2, <5>1 DEF Carries
      <4>3. Carries(s.line, p.line)
        BY <2>5, <4>2
      <4>4. Accepts(s, h)
        BY <2>1, <3>1, <4>1, <4>3, TailAccepts
      <4>5. Onto(s.line, h, t.line)
        BY <2>2, <2>7, <3>4, <4>4 DEF TailTook, InTail, InPrefix
      <4> HIDE DEF s, t, p, q, r, h, snapped
      <4>6. Len(t.line) = i + 1 /\ t.line[i + 1] = h /\ \A j \in 1 .. i : t.line[j] = s.line[j]
        BY <4>5 DEF Onto
      <4> HIDE DEF i
      <4>7. \A j \in 1 .. i : s.line[j] = p.line[j]
        BY <2>4, <3>2, <4>3 DEF Carries
      <4>8. \A j \in 1 .. i + 1 : j \in 1 .. i \/ j = i + 1
        BY <2>4, <3>2
      <4>9. \A j \in 1 .. i + 1 : t.line[j] = q.line[j]
        BY <3>2, <4>6, <4>7, <4>8
      <4> QED
        BY <2>4, <3>2, <4>6, <4>9 DEF Carries, t, q
    <3> QED
      BY <3>3, <3>4
  <2> QED
    BY <2>6, <2>7
<1> HIDE DEF S
<1>4. Nat \subseteq S
  BY <1>2, <1>3, SetInduction
<1> QED
  BY <1>1, <1>4 DEF S

\* A block the replay finalizes is on the loop's line by then.
LEMMA TailHolds ==
    ASSUME NEW rec, NEW N, NEW R, NEW T, NEW m, Resuming(rec, N, R, T, m),
           NEW k \in 0 .. N, NEW h \in ToSet(R[k].line),
           \A j \in k .. N : h \in ToSet(R[j].line)
    PROVE  h \in ToSet(T[k].line)
<1> DEFINE snapped == R[m].line
           e == HeightIn(h) + 1
<1>1. /\ N \in Nat /\ m \in 0 .. N /\ History(rec, N, R) /\ N \in k .. N /\ k \in k .. N
      /\ \A j \in 0 .. N : OnLine(R[j]) /\ OnLine(T[j])
  BY DEF Resuming, History
<1>2. /\ \A j \in 0 .. N : /\ TreeLine(R[j].line) /\ Len(R[j].line) \in Nat
                           /\ TreeLine(T[j].line) /\ Len(T[j].line) \in Nat
      /\ Len(snapped) \in Nat
  <2>1. ASSUME NEW j \in 0 .. N
        PROVE  /\ TreeLine(R[j].line) /\ Len(R[j].line) \in Nat
               /\ TreeLine(T[j].line) /\ Len(T[j].line) \in Nat
    <3>1. OnLine(R[j]) /\ OnLine(T[j])
      BY <1>1
    <3> QED
      BY <3>1 DEF OnLine, TreeLine
  <2>2. Len(snapped) \in Nat
    BY <1>1, <2>1
  <2> HIDE DEF snapped
  <2> QED
    BY <2>1, <2>2
<1>3. h \in Hash /\ e \in Nat /\ \A j \in k .. N : e \in 1 .. Len(R[j].line) /\ R[j].line[e] = h
  BY <1>1, <1>2, PlaceOfBlock DEF On
<1>4. Carries(R[N].line, snapped) /\ Carries(T[k].line, snapped)
  BY <1>1, TailCarries DEF Resuming
<1>5. CASE e <= Len(snapped)
  <2>1. e \in 1 .. Len(snapped) /\ e \in 1 .. Len(R[N].line) /\ R[N].line[e] = h
    BY <1>1, <1>2, <1>3, <1>5
  <2>2. Len(snapped) <= Len(T[k].line) /\ T[k].line[e] = h
    BY <1>4, <2>1 DEF Carries
  <2>3. e \in 1 .. Len(T[k].line)
    BY <1>2, <2>1, <2>2
  <2> QED
    BY <1>2, <1>3, <2>2, <2>3, PlaceOfBlock DEF On
<1>6. CASE ~ (e <= Len(snapped))
  <2>1. ASSUME NEW j \in k .. N PROVE Carries(R[j].line, snapped)
    <3> DEFINE a == R[j].line
               b == R[N].line
    <3>1. TreeLine(a) /\ TreeLine(b) /\ e \in 1 .. Len(a) /\ e <= Len(b) /\ a[e] = b[e] /\ Len(a) \in Nat
      <4>1. j \in 0 .. N /\ N \in 0 .. N
        BY <1>1
      <4>2. e \in 1 .. Len(b) /\ b[e] = h /\ e \in 1 .. Len(a) /\ a[e] = h
        BY <1>1, <1>3
      <4> QED
        BY <1>2, <4>1, <4>2
    <3> HIDE DEF a, b, e
    <3>2. \A i \in 1 .. e : a[i] = b[i]
      BY <3>1, LinesAgree
    <3> HIDE DEF snapped
    <3>3. \A i \in 1 .. Len(snapped) : i \in 1 .. e
      BY <1>2, <1>3, <1>6
    <3>4. Len(snapped) <= Len(a)
      BY <1>2, <1>3, <1>6, <3>1
    <3> QED
      BY <1>4, <3>2, <3>3, <3>4 DEF Carries, a, b
  <2>2. Carries(T[k].line, R[k].line)
    BY <1>1, <2>1, TailFollows
  <2>3. e \in 1 .. Len(R[k].line) /\ R[k].line[e] = h
    BY <1>1, <1>3
  <2>4. Len(R[k].line) <= Len(T[k].line) /\ T[k].line[e] = h
    BY <2>2, <2>3 DEF Carries
  <2>5. e \in 1 .. Len(T[k].line)
    BY <1>2, <2>3, <2>4
  <2> QED
    BY <1>2, <1>3, <2>4, <2>5, PlaceOfBlock DEF On
<1> QED
  BY <1>5, <1>6

\* Two finalized blocks of one line at one height are one block.
LEMMA OneAtItsHeight ==
    ASSUME NEW line, TreeLine(line), NEW a \in ToSet(line), NEW b \in ToSet(line),
           HeightIn(a) = HeightIn(b)
    PROVE  a = b
BY PlaceOfBlock DEF On

\* Every head of the replay, and of the loop, is on the line the replay ends with, not
\* above the last one.
LEMMA HeadsBelowLast ==
    ASSUME NEW rec, NEW N, NEW R, NEW T, NEW m, Resuming(rec, N, R, T, m)
    PROVE  /\ \A j \in 0 .. N : R[j].final # NoHash =>
                 /\ R[N].final # NoHash
                 /\ R[j].final \in ToSet(R[N].line) /\ HeightIn(R[j].final) <= HeightIn(R[N].final)
           /\ \A k \in 0 .. N : T[k].final # NoHash =>
                 /\ R[N].final # NoHash
                 /\ T[k].final \in ToSet(R[N].line) /\ HeightIn(T[k].final) <= HeightIn(R[N].final)
<1>1. N \in Nat /\ m \in 0 .. N /\ History(rec, N, R)
  BY DEF Resuming
<1>2. \A j \in 0 .. N : R[j].final # NoHash =>
                 /\ R[N].final # NoHash
                 /\ R[j].final \in ToSet(R[N].line) /\ HeightIn(R[j].final) <= HeightIn(R[N].final)
  <2> SUFFICES ASSUME NEW j \in 0 .. N, R[j].final # NoHash
               PROVE  /\ R[N].final # NoHash
                      /\ R[j].final \in ToSet(R[N].line) /\ HeightIn(R[j].final) <= HeightIn(R[N].final)
    OBVIOUS
  <2>1. N \in j .. N
    BY <1>1
  <2> QED
    BY <1>1, <2>1, FinalsStay
<1>3. ASSUME NEW k \in 0 .. N, T[k].final # NoHash
      PROVE  /\ R[N].final # NoHash
             /\ T[k].final \in ToSet(R[N].line) /\ HeightIn(T[k].final) <= HeightIn(R[N].final)
  <2>1. T[k].final = R[m].final \/ \E j \in 0 .. k : T[k].final = R[j].final
    BY TailHeads
  <2>2. \E j \in 0 .. N : T[k].final = R[j].final
    <3>1. 0 .. k \subseteq 0 .. N
      BY <1>1
    <3> QED
      BY <1>1, <2>1, <3>1
  <2> QED
    BY <1>2, <1>3, <2>2
<1> QED
  BY <1>2, <1>3

\* Once the replay has its last head, the loop has it.
LEMMA TailReachesHead ==
    ASSUME NEW rec, NEW N, NEW R, NEW T, NEW m, Resuming(rec, N, R, T, m), R[N].final # NoHash
    PROVE  \A k \in 0 .. N : R[k].final = R[N].final => T[k].final = R[N].final
<1> DEFINE f == R[N].final
           S == {k \in Nat : k \in 0 .. N => (R[k].final = f => T[k].final = f)}
<1>1. N \in Nat /\ m \in 0 .. N /\ History(rec, N, R) /\ TreeLine(R[N].line) /\ f \in ToSet(R[N].line)
  <2>1. N \in Nat /\ m \in 0 .. N /\ History(rec, N, R) /\ OnLine(R[N])
    BY DEF Resuming, History
  <2> QED
    BY <2>1 DEF OnLine
<1>2. f \in Hash /\ HeightIn(f) \in Nat
  BY <1>1, PlaceOfBlock
<1>3. 0 \in S
  BY DEF Resuming, History
<1>4. ASSUME NEW k \in Nat, k \in S PROVE k + 1 \in S
  <2> SUFFICES ASSUME k + 1 \in 0 .. N, R[k + 1].final = f PROVE T[k + 1].final = f
    OBVIOUS
  <2> DEFINE s == T[k]
             t == T[k + 1]
             p == R[k]
             q == R[k + 1]
             r == rec[k + 1]
             h == r.hash
             n == Len(R[m].line) - 1
  <2>1. k \in 0 .. N /\ k + 1 \in 1 .. N /\ (k + 1) - 1 = k
    BY <1>1
  <2>2. TailTook(n, s, t, r) /\ Took(p, q, r) /\ OnLine(s) /\ OnLine(p) /\ OnLine(q)
    BY <2>1 DEF Resuming, History
  <2>3. p.final = f => s.final = f
    BY <1>4, <2>1
  <2>4. q.final = f
    OBVIOUS
  <2>5. s.final # NoHash => /\ s.final \in ToSet(R[N].line) /\ HeightIn(s.final) <= HeightIn(f)
                            /\ HeightIn(s.final) \in Nat
    <3>1. s.final # NoHash => s.final \in ToSet(R[N].line) /\ HeightIn(s.final) <= HeightIn(f)
      BY <2>1, HeadsBelowLast
    <3> HIDE DEF s
    <3> QED
      BY <1>1, <3>1, PlaceOfBlock
  <2>6. ASSUME s.final = f PROVE t.final = f
    <3>1. t.final # s.final => t.final = h /\ Finalizes(s.line, s.final, h) /\ ~ IsBlock(r)
      BY <2>2 DEF TailTook, InTail, InPrefix
    <3>2. Finalizes(s.line, s.final, h) /\ ~ IsBlock(r) => FALSE
      <4> SUFFICES ASSUME Finalizes(s.line, s.final, h), ~ IsBlock(r) PROVE FALSE
        OBVIOUS
      <4>1. h = f
        BY <2>2, <2>4 DEF Took
      <4>2. HeightIn(h) > HeightIn(s.final)
        BY <2>6 DEF Finalizes
      <4> HIDE DEF s, h, f
      <4> QED
        BY <1>2, <2>6, <4>1, <4>2
    <3> QED
      BY <2>6, <3>1, <3>2
  <2>7. ASSUME p.final # f PROVE t.final = f
    <3>1. ~ IsBlock(r) /\ h = f /\ q.line = p.line
      BY <2>2, <2>4, <2>7 DEF Took
    <3>2. t.line = s.line /\ t.final = IF Finalizes(s.line, s.final, h) THEN h ELSE s.final
      BY <2>2, <3>1 DEF TailTook, InTail, InPrefix
    <3>3. h \in ToSet(s.line)
      <4>1. f \in ToSet(p.line)
        BY <2>2, <2>4, <3>1 DEF OnLine
      <4>2. \A j \in k + 1 .. N : f \in ToSet(R[j].line)
        BY <1>1, <2>1, <2>4, FinalsStay
      <4>3. \A j \in k .. N : f \in ToSet(R[j].line)
        <5> SUFFICES ASSUME NEW j \in k .. N PROVE f \in ToSet(R[j].line)
          OBVIOUS
        <5>1. j = k \/ j \in k + 1 .. N
          BY <2>1
        <5> QED
          BY <4>1, <4>2, <5>1
      <4> QED
        BY <2>1, <3>1, <4>1, <4>3, TailHolds
    <3>4. CASE Finalizes(s.line, s.final, h)
      BY <3>1, <3>2, <3>4
    <3>5. CASE ~ Finalizes(s.line, s.final, h)
      <4>1. s.final # NoHash /\ ~ (HeightIn(h) > HeightIn(s.final))
        BY <3>3, <3>5 DEF Finalizes
      <4>2. s.final \in ToSet(R[N].line) /\ HeightIn(s.final) <= HeightIn(f) /\ HeightIn(s.final) \in Nat
        BY <2>5, <4>1
      <4>3. HeightIn(s.final) = HeightIn(f)
        <5> HIDE DEF s, h, f
        <5> QED
          BY <1>2, <3>1, <4>1, <4>2
      <4>4. s.final = f
        BY <1>1, <4>2, <4>3, OneAtItsHeight
      <4> QED
        BY <3>2, <3>5, <4>4
    <3> QED
      BY <3>4, <3>5
  <2> QED
    BY <2>3, <2>6, <2>7
<1> HIDE DEF S
<1>5. Nat \subseteq S
  BY <1>3, <1>4, SetInduction
<1> QED
  BY <1>1, <1>5 DEF S

\* The tail loop ends ahead of the replay, or where it ends, and with its head.
LEMMA TailReaches ==
    ASSUME NEW rec, NEW N, NEW R, NEW T, NEW m, Resuming(rec, N, R, T, m)
    PROVE  IsPrefix(R[N].line, T[N].line) /\ T[N].final = R[N].final
<1>1. N \in Nat /\ N \in 0 .. N /\ Carries(R[N].line, R[m].line) /\ OnLine(R[N]) /\ OnLine(T[N])
  BY DEF Resuming, History
<1>2. Carries(T[N].line, R[N].line)
  <2>1. \A j \in N .. N : Carries(R[j].line, R[m].line)
    <3>1. \A j \in N .. N : j = N
      BY <1>1
    <3> QED
      BY <1>1, <3>1
  <2> QED
    BY <1>1, <2>1, TailFollows
<1>3. IsPrefix(R[N].line, T[N].line)
  <2>1. R[N].line \in Seq(Hash) /\ T[N].line \in Seq(Hash)
    BY <1>1 DEF OnLine, TreeLine
  <2> QED
    BY <1>2, <2>1, CarriesIsPrefix
<1>4. CASE R[N].final # NoHash
  BY <1>1, <1>3, <1>4, TailReachesHead
<1>5. CASE R[N].final = NoHash
  BY <1>1, <1>3, <1>5, HeadsBelowLast
<1> QED
  BY <1>4, <1>5

-----------------------------------------------------------------------------
(* The loops, stage by stage.                                              *)

LEMMA CutAppend ==
    ASSUME NEW X, NEW seq \in Seq(X), NEW k \in 1 .. Len(seq)
    PROVE  /\ SubSeq(seq, 1, k) = Append(SubSeq(seq, 1, k - 1), seq[k])
           /\ SubSeq(seq, 1, k - 1) \in Seq(X) /\ seq[k] \in X
<1> DEFINE a == SubSeq(seq, 1, k - 1)
           b == SubSeq(seq, 1, k)
           c == Append(a, seq[k])
<1>1. Len(seq) \in Nat /\ k \in Nat /\ k - 1 \in Nat /\ k - 1 <= Len(seq) /\ seq[k] \in X
  OBVIOUS
<1>2. a \in Seq(X) /\ Len(a) = k - 1 /\ \A i \in 1 .. k - 1 : a[i] = seq[i]
  BY <1>1
<1>3. b \in Seq(X) /\ Len(b) = k /\ \A i \in 1 .. k : b[i] = seq[i]
  BY <1>1
<1> HIDE DEF a, b
<1>4. /\ c \in Seq(X) /\ Len(c) = (k - 1) + 1 /\ c[(k - 1) + 1] = seq[k]
      /\ \A i \in 1 .. k - 1 : c[i] = a[i]
  BY <1>1, <1>2, AppendProperties
<1> HIDE DEF c
<1>5. \A i \in 1 .. k : i \in 1 .. k - 1 \/ i = (k - 1) + 1
  BY <1>1
<1>6. ASSUME NEW i \in 1 .. k PROVE b[i] = c[i]
  <2>1. CASE i \in 1 .. k - 1
    BY <1>2, <1>3, <1>4, <2>1
  <2>2. CASE i = (k - 1) + 1
    <3>1. i = k
      BY <1>1, <2>2
    <3> QED
      BY <1>3, <1>4, <2>2, <3>1
  <2> QED
    BY <1>5, <2>1, <2>2
<1>7. Len(b) = Len(c)
  BY <1>1, <1>3, <1>4
<1>8. b = c
  BY <1>3, <1>4, <1>6, <1>7, SeqEqual
<1> QED
  BY <1>1, <1>2, <1>8 DEF a, b, c

\* The replay of the first k records, and a loop over them.
Stage(records, k) == Replayed(SubSeq(records, 1, k))
LoopStage(mode, n, base, records, k) == FoldOf(mode, n, base, SubSeq(records, 1, k))

LEMMA StageSteps ==
    ASSUME NEW records \in Seq(Record)
    PROVE  /\ Stage(records, 0) = Opening
           /\ Stage(records, Len(records)) = Replayed(records)
           /\ \A k \in 1 .. Len(records) :
                 Stage(records, k) = LoggedRecord(Stage(records, k - 1), records[k])
<1>1. SubSeq(records, 1, 0) = << >>
  BY SubSeqEmpty
<1>2. SubSeq(records, 1, Len(records)) = records
  BY SubSeqFull
<1>3. ASSUME NEW k \in 1 .. Len(records)
      PROVE  Stage(records, k) = LoggedRecord(Stage(records, k - 1), records[k])
  <2> DEFINE cut == SubSeq(records, 1, k - 1)
  <2>1. SubSeq(records, 1, k) = Append(cut, records[k]) /\ cut \in Seq(Record) /\ records[k] \in Record
    BY CutAppend
  <2> HIDE DEF cut
  <2>2. Replayed(Append(cut, records[k])) = LoggedRecord(Replayed(cut), records[k])
    BY <2>1, ReplayedAppend
  <2> QED
    BY <2>1, <2>2 DEF Stage, cut
<1> QED
  BY <1>1, <1>2, <1>3, ReplayedEmpty DEF Stage

LEMMA LoopSteps ==
    ASSUME NEW records \in Seq(Record), NEW mode, NEW n, NEW base
    PROVE  /\ LoopStage(mode, n, base, records, 0) = base
           /\ LoopStage(mode, n, base, records, Len(records)) = FoldOf(mode, n, base, records)
           /\ \A k \in 1 .. Len(records) :
                 LoopStage(mode, n, base, records, k)
                    = Turn(mode, n, LoopStage(mode, n, base, records, k - 1), records[k])
<1>1. SubSeq(records, 1, 0) = << >>
  BY SubSeqEmpty
<1>2. SubSeq(records, 1, Len(records)) = records
  BY SubSeqFull
<1>3. ASSUME NEW k \in 1 .. Len(records)
      PROVE  LoopStage(mode, n, base, records, k)
                    = Turn(mode, n, LoopStage(mode, n, base, records, k - 1), records[k])
  <2> DEFINE cut == SubSeq(records, 1, k - 1)
  <2>1. SubSeq(records, 1, k) = Append(cut, records[k]) /\ cut \in Seq(Record) /\ records[k] \in Record
    BY CutAppend
  <2> HIDE DEF cut
  <2>2. FoldOf(mode, n, base, Append(cut, records[k])) = Turn(mode, n, FoldOf(mode, n, base, cut), records[k])
    BY <2>1, FoldAppend
  <2> QED
    BY <2>1, <2>2 DEF LoopStage, cut
<1> QED
  BY <1>1, <1>2, <1>3, FoldEmpty DEF LoopStage

LEMMA LoopStays ==
    ASSUME NEW records \in Seq(Record), NEW mode, NEW n, NEW P, NEW base \in P,
           Closed(mode, n, P, Record)
    PROVE  \A k \in 0 .. Len(records) : LoopStage(mode, n, base, records, k) \in P
<1> SUFFICES ASSUME NEW k \in 0 .. Len(records) PROVE LoopStage(mode, n, base, records, k) \in P
  OBVIOUS
<1>1. SubSeq(records, 1, k) \in Seq(Record)
  OBVIOUS
<1> QED
  BY <1>1, FoldStays DEF LoopStage

\* A log the node wrote: the replay refuses nothing, and every finalization in it is
\* one the replay accepts.
OwnLog(records) ==
    /\ records \in Seq(Record)
    /\ Replayed(records).ok
    /\ \A k \in 1 .. Len(records) : ~ IsBlock(records[k]) => Stage(records, k).final = records[k].hash

Stages(records) == [k \in 0 .. Len(records) |-> Stage(records, k)]

LEMMA StageRebuilds ==
    ASSUME NEW records \in Seq(Record)
    PROVE  \A k \in 0 .. Len(records) : Stage(records, k) \in Rebuilding
<1> DEFINE N == Len(records)
           S == {k \in Nat : k \in 0 .. N => Stage(records, k) \in Rebuilding}
<1>1. N \in Nat
  OBVIOUS
<1>2. 0 \in S
  <2>1. Opening \in Rebuilding
    BY GenesisLine DEF Rebuilding, OnLine, StoreState, Opening
  <2> QED
    BY <2>1, StageSteps
<1>3. ASSUME NEW k \in Nat, k \in S PROVE k + 1 \in S
  <2> SUFFICES ASSUME k + 1 \in 0 .. N PROVE Stage(records, k + 1) \in Rebuilding
    OBVIOUS
  <2>1. k \in 0 .. N /\ k + 1 \in 1 .. N /\ (k + 1) - 1 = k /\ records[k + 1] \in Record
    BY <1>1
  <2>2. Stage(records, k) \in Rebuilding
    BY <1>3, <2>1
  <2>3. Stage(records, k + 1) = LoggedRecord(Stage(records, k), records[k + 1])
    BY <2>1, StageSteps
  <2> QED
    BY <2>1, <2>2, <2>3, RebuildingStays
<1> HIDE DEF S
<1>4. Nat \subseteq S
  BY <1>2, <1>3, SetInduction
<1> QED
  BY <1>1, <1>4 DEF S

LEMMA StagesOk ==
    ASSUME NEW records, OwnLog(records)
    PROVE  \A k \in 0 .. Len(records) : Stage(records, k).ok
<1> DEFINE N == Len(records)
           S == {d \in Nat : d <= N => Stage(records, N - d).ok}
<1>1. N \in Nat /\ records \in Seq(Record)
  BY DEF OwnLog
<1>2. 0 \in S
  BY <1>1, StageSteps DEF OwnLog
<1>3. ASSUME NEW d \in Nat, d \in S PROVE d + 1 \in S
  <2> SUFFICES ASSUME d + 1 <= N PROVE Stage(records, N - (d + 1)).ok
    OBVIOUS
  <2>1. N - d \in 1 .. N /\ (N - d) - 1 = N - (d + 1)
    BY <1>1
  <2>2. Stage(records, N - d).ok
    BY <1>1, <1>3
  <2>3. Stage(records, N - d) = LoggedRecord(Stage(records, N - (d + 1)), records[N - d])
    BY <1>1, <2>1, StageSteps
  <2> QED
    BY <2>2, <2>3 DEF LoggedRecord
<1> HIDE DEF S
<1>4. Nat \subseteq S
  BY <1>2, <1>3, SetInduction
<1> SUFFICES ASSUME NEW k \in 0 .. N PROVE Stage(records, k).ok
  OBVIOUS
<1>5. N - k \in Nat /\ N - k <= N /\ N - (N - k) = k
  BY <1>1
<1>6. N - k \in S
  BY <1>4, <1>5
<1> QED
  BY <1>5, <1>6 DEF S

LEMMA OwnHistory ==
    ASSUME NEW records, OwnLog(records)
    PROVE  History(records, Len(records), Stages(records))
<1> DEFINE N == Len(records)
           R == Stages(records)
<1>1. N \in Nat /\ records \in Seq(Record)
  BY DEF OwnLog
<1>2. \A k \in 0 .. N : R[k] = Stage(records, k) /\ OnLine(R[k]) /\ R[k].ok /\ R[k] \in StoreState
  BY <1>1, StageRebuilds, StagesOk DEF Stages, Rebuilding
<1>3. R[0].line = <<Genesis>> /\ R[0].final = NoHash
  BY <1>1, <1>2, StageSteps DEF Opening
<1>4. ASSUME NEW k \in 1 .. N PROVE records[k] \in Record /\ Took(R[k - 1], R[k], records[k])
  <2> DEFINE s == R[k - 1]
             t == R[k]
             r == records[k]
             h == r.hash
  <2>1. k - 1 \in 0 .. N /\ k \in 0 .. N /\ r \in Record /\ h \in Hash
    <3>1. r \in Record /\ k - 1 \in 0 .. N /\ k \in 0 .. N
      BY <1>1
    <3> HIDE DEF r
    <3> QED
      BY <3>1 DEF Record
  <2>2. t = LoggedRecord(s, r) /\ OnLine(s) /\ OnLine(t) /\ s.ok /\ t.ok /\ s \in StoreState
    BY <1>1, <1>2, <2>1, StageSteps
  <2>3. ~ IsBlock(r) => t.final = h
    <3>1. t = Stage(records, k)
      BY <1>2, <2>1
    <3>2. ~ IsBlock(records[k]) => Stage(records, k).final = records[k].hash
      BY DEF OwnLog
    <3> HIDE DEF t
    <3> QED
      BY <3>1, <3>2
  <2> HIDE DEF s, t, r, h
  <2>4. CASE IsBlock(r)
    <3>1. t = IF Accepts(s, h) THEN [s EXCEPT !.line = Rebased(s.line, h)] ELSE [s EXCEPT !.ok = FALSE]
      BY <2>1, <2>2, <2>4, BlockTaken DEF LoggedRecord, IsBlock, h
    <3>2. Accepts(s, h)
      BY <2>2, <3>1 DEF StoreState
    <3>3. t.line = Rebased(s.line, h) /\ t.final = s.final
      BY <2>2, <3>1, <3>2 DEF StoreState
    <3>4. Onto(s.line, h, t.line)
      BY <2>1, <2>2, <3>2, <3>3, RebasedLine
    <3> QED
      BY <2>1, <2>4, <3>2, <3>3, <3>4 DEF Took, h, s, t, r
  <2>5. CASE ~ IsBlock(r)
    <3>1. t = IF Finalizes(s.line, s.final, h) THEN [s EXCEPT !.final = h] ELSE s
      BY <2>2, <2>5 DEF LoggedRecord, IsBlock, LoggedFinalize, h
    <3>2. t.line = s.line /\ t.final = h
      BY <2>2, <2>3, <2>5, <3>1 DEF StoreState
    <3>3. CASE Finalizes(s.line, s.final, h)
      <4>1. s.final # NoHash => HeightIn(h) > HeightIn(s.final)
        BY <3>3 DEF Finalizes
      <4>2. HeightIn(h) \in Nat /\ (s.final # NoHash => HeightIn(s.final) \in Nat)
        BY <2>1, <2>2, HeightIsNatural, MaxHeightAssumption DEF StoreState
      <4>3. s.final # NoHash => HeightIn(s.final) < HeightIn(t.final)
        BY <3>2, <4>1, <4>2
      <4> QED
        BY <2>1, <2>5, <3>2, <4>3 DEF Took, h, s, t, r
    <3>4. CASE ~ Finalizes(s.line, s.final, h)
      BY <2>1, <2>5, <3>1, <3>2, <3>4 DEF Took, h, s, t, r
    <3> QED
      BY <3>3, <3>4
  <2> QED
    BY <2>4, <2>5
<1> HIDE DEF R
<1> QED
  BY <1>2, <1>3, <1>4 DEF History, R

\* The derived state does not change what becomes of line and head.
LEMMA ResumedFields ==
    ASSUME NEW s \in Coherent, NEW r \in Record
    PROVE  LET t == LoggedRecord(s, r)
               u == ResumedRecord(s, r)
           IN  u.line = t.line /\ u.final = t.final /\ u.ok = t.ok
<1> DEFINE t == LoggedRecord(s, r)
           u == ResumedRecord(s, r)
<1>1. u = [t EXCEPT !.tree = Refolded(s.tree, s.line, t.line), !.names = Refolded(s.names, s.line, t.line)]
  BY DEF ResumedRecord
<1>2. u \in ResumeState
  BY ResumedCoherent DEF Coherent
<1>3. t \in ResumeState
  BY LoggedTyped DEF Coherent
<1> HIDE DEF t, u
<1>4. u.line = t.line /\ u.final = t.final /\ u.ok = t.ok
  BY <1>1, <1>3 DEF ResumeState
<1> QED
  BY <1>4 DEF t, u

\* A turn of a tail loop that ends well.
LEMMA TurnTook ==
    ASSUME NEW mode \in {"tail", "skip"}, NEW n, NEW s \in Coherent, NEW r \in Record,
           Turn(mode, n, s, r).ok
    PROVE  s.ok /\ TailTook(n, s, Turn(mode, n, s, r), r)
<1> DEFINE t == LoggedRecord(s, r)
           u == ResumedRecord(s, r)
           v == Turn(mode, n, s, r)
           h == r.hash
<1>1. u.line = t.line /\ u.final = t.final /\ u.ok = t.ok
  BY ResumedFields
<1>2. OnLine(s) /\ s \in ResumeState /\ h \in Hash /\ v.ok
  BY DEF Coherent, Record
<1>3. v = IF ~ InTail(r, n) THEN s ELSE IF mode = "tail" \/ u.ok THEN u ELSE s
  BY DEF Turn, TailRecord
<1>4. CASE ~ InTail(r, n)
  BY <1>2, <1>3, <1>4 DEF TailTook
<1>5. CASE InTail(r, n) /\ ~ s.ok
  <2>1. t = s
    BY <1>5 DEF LoggedRecord
  <2> QED
    BY <1>1, <1>2, <1>3, <1>5, <2>1
<1>6. CASE InTail(r, n) /\ s.ok /\ IsBlock(r)
  <2>1. t = IF Accepts(s, h) THEN [s EXCEPT !.line = Rebased(s.line, h)] ELSE [s EXCEPT !.ok = FALSE]
    BY <1>2, <1>6, BlockTaken DEF LoggedRecord, IsBlock
  <2> HIDE DEF t, u, v
  <2>2. CASE Accepts(s, h)
    <3>1. t.line = Rebased(s.line, h) /\ t.final = s.final /\ t.ok = s.ok
      BY <1>2, <2>1, <2>2 DEF ResumeState
    <3>2. v = u
      BY <1>1, <1>3, <1>6, <3>1
    <3>3. Onto(s.line, h, v.line)
      BY <1>1, <1>2, <2>2, <3>1, <3>2, RebasedLine
    <3> QED
      BY <1>1, <1>6, <2>2, <3>1, <3>2, <3>3 DEF TailTook, v
  <2>3. CASE ~ Accepts(s, h)
    <3>1. t.ok = FALSE
      BY <1>2, <2>1, <2>3 DEF ResumeState
    <3>2. v = s
      BY <1>1, <1>2, <1>3, <1>6, <3>1
    <3> QED
      BY <1>6, <2>3, <3>2 DEF TailTook, v
  <2> QED
    BY <2>2, <2>3
<1>7. CASE InTail(r, n) /\ s.ok /\ ~ IsBlock(r)
  <2>1. t = IF Finalizes(s.line, s.final, h) THEN [s EXCEPT !.final = h] ELSE s
    BY <1>7 DEF LoggedRecord, IsBlock, LoggedFinalize
  <2> HIDE DEF t, u, v
  <2>2. t.line = s.line /\ t.ok = s.ok /\ t.final = IF Finalizes(s.line, s.final, h) THEN h ELSE s.final
    BY <1>2, <2>1 DEF ResumeState
  <2>3. v = u
    BY <1>1, <1>3, <1>7, <2>2
  <2> QED
    BY <1>1, <1>7, <2>2, <2>3 DEF TailTook, v
<1> QED
  BY <1>4, <1>5, <1>6, <1>7

\* A tail loop that ends well, beside the replay.
LEMMA TailStages ==
    ASSUME NEW mode \in {"tail", "skip"}, NEW records \in Seq(Record), NEW n, NEW start \in Coherent,
           FoldOf(mode, n, start, records).ok
    PROVE  LET T == [k \in 0 .. Len(records) |-> LoopStage(mode, n, start, records, k)] IN
           /\ \A k \in 0 .. Len(records) : OnLine(T[k])
           /\ \A k \in 1 .. Len(records) : TailTook(n, T[k - 1], T[k], records[k])
           /\ T[0] = start
           /\ T[Len(records)] = FoldOf(mode, n, start, records)
<1> DEFINE N == Len(records)
           T == [k \in 0 .. N |-> LoopStage(mode, n, start, records, k)]
           S == {d \in Nat : d <= N => T[N - d].ok}
<1>1. N \in Nat /\ N \in 0 .. N /\ 0 \in 0 .. N
  OBVIOUS
<1>2. Closed(mode, n, Coherent, Record)
  BY ResumeClosed
<1>3. \A k \in 0 .. N : T[k] \in Coherent
  BY <1>2, LoopStays
<1>4. T[0] = start /\ T[N] = FoldOf(mode, n, start, records)
  BY <1>1, LoopSteps
<1>5. \A k \in 1 .. N : T[k] = Turn(mode, n, T[k - 1], records[k]) /\ records[k] \in Record /\ k - 1 \in 0 .. N /\ k \in 0 .. N
  <2> SUFFICES ASSUME NEW k \in 1 .. N
               PROVE  T[k] = Turn(mode, n, T[k - 1], records[k]) /\ records[k] \in Record /\ k - 1 \in 0 .. N /\ k \in 0 .. N
    OBVIOUS
  <2>1. k - 1 \in 0 .. N /\ k \in 0 .. N /\ records[k] \in Record
    BY <1>1
  <2>2. T[k] = LoopStage(mode, n, start, records, k) /\ T[k - 1] = LoopStage(mode, n, start, records, k - 1)
    BY <2>1
  <2>3. LoopStage(mode, n, start, records, k) = Turn(mode, n, LoopStage(mode, n, start, records, k - 1), records[k])
    BY LoopSteps
  <2> HIDE DEF T
  <2> QED
    BY <2>1, <2>2, <2>3
<1> HIDE DEF T, N
<1>6. \A k \in 1 .. N : T[k].ok => T[k - 1].ok /\ TailTook(n, T[k - 1], T[k], records[k])
  <2> SUFFICES ASSUME NEW k \in 1 .. N, T[k].ok
               PROVE  T[k - 1].ok /\ TailTook(n, T[k - 1], T[k], records[k])
    OBVIOUS
  <2>1. T[k] = Turn(mode, n, T[k - 1], records[k]) /\ records[k] \in Record /\ T[k - 1] \in Coherent
    BY <1>3, <1>5
  <2> QED
    BY <2>1, TurnTook
<1>7. 0 \in S
  BY <1>1, <1>4
<1>8. ASSUME NEW d \in Nat, d \in S PROVE d + 1 \in S
  <2> SUFFICES ASSUME d + 1 <= N PROVE T[N - (d + 1)].ok
    OBVIOUS
  <2>1. N - d \in 1 .. N /\ (N - d) - 1 = N - (d + 1)
    BY <1>1
  <2>2. T[N - d].ok
    BY <1>1, <1>8
  <2> QED
    BY <1>6, <2>1, <2>2
<1> HIDE DEF S
<1>9. Nat \subseteq S
  BY <1>7, <1>8, SetInduction
<1>10. \A k \in 0 .. N : T[k].ok
  <2> SUFFICES ASSUME NEW k \in 0 .. N PROVE T[k].ok
    OBVIOUS
  <2>1. N - k \in Nat /\ N - k <= N /\ N - (N - k) = k
    BY <1>1
  <2>2. N - k \in S
    BY <1>9, <2>1
  <2> QED
    BY <2>1, <2>2 DEF S
<1>11. \A k \in 1 .. N : TailTook(n, T[k - 1], T[k], records[k])
  BY <1>5, <1>6, <1>10
<1>12. \A k \in 0 .. N : OnLine(T[k])
  BY <1>3 DEF Coherent
<1> QED
  BY <1>4, <1>11, <1>12 DEF T, N

\* The full replay ends where Replayed ends.
LEMMA ByReplayFields ==
    ASSUME NEW records \in Seq(Record)
    PROVE  /\ ByReplay(records).line = Replayed(records).line
           /\ ByReplay(records).final = Replayed(records).final
           /\ ByReplay(records).ok = Replayed(records).ok
<1> DEFINE N == Len(records)
           B(k) == LoopStage("replay", 0, ReplayStart, records, k)
           Same(b, s) == b.line = s.line /\ b.final = s.final /\ b.ok = s.ok
           S == {k \in Nat : k \in 0 .. N => Same(B(k), Stage(records, k))}
<1>1. N \in Nat /\ N \in 0 .. N
  OBVIOUS
<1>2. \A k \in 0 .. N : B(k) \in Coherent
  <2>1. ReplayStart \in Coherent
    BY GenesisLine DEF Coherent, OnLine, ResumeState, ReplayStart
  <2>2. Closed("replay", 0, Coherent, Record)
    BY ResumeClosed
  <2> QED
    BY <2>1, <2>2, LoopStays
<1>3. \A k \in 0 .. N : Stage(records, k) \in Rebuilding
  BY StageRebuilds
<1>4. 0 \in S
  <2>1. B(0) = ReplayStart /\ Stage(records, 0) = Opening
    BY LoopSteps, StageSteps
  <2> HIDE DEF B
  <2>2. Same(ReplayStart, Opening)
    BY DEF ReplayStart, Opening
  <2> QED
    BY <2>1, <2>2
<1>5. ASSUME NEW k \in Nat, k \in S PROVE k + 1 \in S
  <2> SUFFICES ASSUME k + 1 \in 0 .. N PROVE Same(B(k + 1), Stage(records, k + 1))
    OBVIOUS
  <2>1. k \in 0 .. N /\ k + 1 \in 1 .. N /\ (k + 1) - 1 = k /\ records[k + 1] \in Record
    BY <1>1
  <2>2. Same(B(k), Stage(records, k))
    BY <1>5, <2>1
  <2>3. B(k + 1) = ResumedRecord(B(k), records[k + 1])
    <3>1. \A j \in 1 .. N : B(j) = Turn("replay", 0, B(j - 1), records[j])
      BY LoopSteps
    <3> HIDE DEF B
    <3> QED
      BY <2>1, <3>1 DEF Turn
  <2>4. Stage(records, k + 1) = LoggedRecord(Stage(records, k), records[k + 1])
    BY <2>1, StageSteps
  <2>5. B(k) \in Coherent /\ Stage(records, k) \in Rebuilding
    BY <1>2, <1>3, <2>1
  <2> DEFINE b == B(k)
             s == Stage(records, k)
             r == records[k + 1]
             t == LoggedRecord(b, r)
             w == LoggedRecord(s, r)
  <2>6. Same(B(k + 1), t)
    BY <2>1, <2>3, <2>5, ResumedFields
  <2>7. Same(t, w)
    <3>1. Same(b, s) /\ b \in ResumeState /\ s \in StoreState
      BY <2>2, <2>5 DEF Coherent, Rebuilding
    <3> HIDE DEF b, s, r
    <3>2. CASE ~ s.ok
      BY <3>1, <3>2 DEF LoggedRecord
    <3>3. CASE s.ok /\ r.kind = "block"
      <4> DEFINE parents == {i \in DOMAIN s.line : s.line[i] = PrevIn(r.hash)}
                 n == IF parents = {} THEN 0 ELSE Max(parents)
                 new == Append(SubSeq(s.line, 1, n), r.hash)
      <4>1. w = IF parents = {} \/ ~ MayRewind(s.line, s.final, n)
                THEN [s EXCEPT !.ok = FALSE] ELSE [s EXCEPT !.line = new]
        BY <3>3 DEF LoggedRecord, LoggedBlock
      <4>2. t = IF parents = {} \/ ~ MayRewind(s.line, s.final, n)
                THEN [b EXCEPT !.ok = FALSE] ELSE [b EXCEPT !.line = new]
        BY <3>1, <3>3 DEF LoggedRecord, LoggedBlock
      <4> HIDE DEF t, w, new, n, parents
      <4> QED
        BY <3>1, <4>1, <4>2 DEF ResumeState, StoreState
    <3>4. CASE s.ok /\ r.kind # "block"
      <4>1. w = IF Finalizes(s.line, s.final, r.hash) THEN [s EXCEPT !.final = r.hash] ELSE s
        BY <3>4 DEF LoggedRecord, LoggedFinalize
      <4>2. t = IF Finalizes(s.line, s.final, r.hash) THEN [b EXCEPT !.final = r.hash] ELSE b
        BY <3>1, <3>4 DEF LoggedRecord, LoggedFinalize
      <4> HIDE DEF t, w
      <4> QED
        BY <3>1, <4>1, <4>2 DEF ResumeState, StoreState
    <3> QED
      BY <3>2, <3>3, <3>4
  <2>8. Stage(records, k + 1) = w
    BY <2>4
  <2> HIDE DEF B, t, w, S
  <2> QED
    BY <2>6, <2>7, <2>8
<1> HIDE DEF S
<1>6. Nat \subseteq S
  BY <1>4, <1>5, SetInduction
<1>7. Same(B(N), Stage(records, N))
  BY <1>1, <1>6 DEF S
<1>8. B(N) = ByReplay(records) /\ Stage(records, N) = Replayed(records)
  BY LoopSteps, StageSteps, ByReplayFolds
<1> QED
  BY <1>7, <1>8

\* The prefix loop refuses nothing, and its line is the replay's, up to the snapshot's
\* height.
LEMMA PrefixCut ==
    ASSUME NEW records, OwnLog(records), NEW n \in Nat
    PROVE  Carries(Replayed(records).line, PrefixStore(records, n).line)
<1> DEFINE N == Len(records)
           P(k) == LoopStage("prefix", n, Opening, records, k)
           R(k) == Stages(records)[k]
           Cut(p, t) == /\ p.ok /\ p.final = NoHash
                        /\ Len(p.line) <= n + 1
                        /\ Carries(t.line, p.line)
                        /\ Len(p.line) = Len(t.line) \/ Len(p.line) = n + 1
           S == {k \in Nat : k \in 0 .. N => Cut(P(k), R(k))}
<1>1. N \in Nat /\ N \in 0 .. N /\ 0 \in 0 .. N /\ records \in Seq(Record)
  BY DEF OwnLog
<1>2. \A k \in 0 .. N : P(k) \in Rebuilding
  <2>1. Opening \in Rebuilding
    BY GenesisLine DEF Rebuilding, OnLine, StoreState, Opening
  <2>2. Closed("prefix", n, Rebuilding, Record)
    BY PrefixClosed
  <2> QED
    BY <1>1, <2>1, <2>2, LoopStays
<1>3. /\ \A k \in 0 .. N : OnLine(R(k))
      /\ \A k \in 1 .. N : records[k] \in Record /\ Took(R(k - 1), R(k), records[k])
      /\ R(0).line = <<Genesis>>
  BY OwnHistory DEF History
<1>4. \A j \in 1 .. N : P(j) = Turn("prefix", n, P(j - 1), records[j])
  <2>1. records \in Seq(Record)
    BY <1>1
  <2> QED
    BY <2>1, LoopSteps
<1>5. P(0) = Opening /\ P(N) = PrefixStore(records, n) /\ R(N) = Replayed(records)
  BY <1>1, LoopSteps, StageSteps, PrefixStoreFolds DEF Stages
<1> HIDE DEF P, R, N
<1>6. 0 \in S
  <2>1. P(0).ok /\ P(0).final = NoHash /\ P(0).line = <<Genesis>> /\ R(0).line = <<Genesis>>
    BY <1>3, <1>5 DEF Opening
  <2>2. Len(<<Genesis>>) = 1 /\ 1 <= n + 1 /\ 1 <= 1
    OBVIOUS
  <2>3. Carries(<<Genesis>>, <<Genesis>>)
    BY <2>2 DEF Carries
  <2> QED
    BY <2>1, <2>2, <2>3
<1>7. ASSUME NEW k \in Nat, k \in S PROVE k + 1 \in S
  <2> SUFFICES ASSUME k + 1 \in 0 .. N PROVE Cut(P(k + 1), R(k + 1))
    OBVIOUS
  <2>1. k \in 0 .. N /\ k + 1 \in 1 .. N /\ (k + 1) - 1 = k
    BY <1>1
  <2> DEFINE p == P(k)
             q == P(k + 1)
             s == R(k)
             t == R(k + 1)
             r == records[k + 1]
             h == r.hash
  <2>2. Cut(p, s)
    BY <1>7, <2>1
  <2>3. q = Turn("prefix", n, p, r) /\ Took(s, t, r) /\ r \in Record
    BY <1>3, <1>4, <2>1
  <2>4. p \in Rebuilding /\ OnLine(s) /\ OnLine(t)
    BY <1>2, <1>3, <2>1
  <2> HIDE DEF S, p, q, s, t, r
  <2>5. OnLine(p) /\ p \in StoreState /\ h \in Hash
    BY <2>3, <2>4 DEF Rebuilding, Record
  <2>6. HeightIn(h) \in Nat /\ Len(p.line) \in Nat /\ Len(s.line) \in Nat /\ Len(t.line) \in Nat
    <3>1. p.line \in Seq(Hash) /\ s.line \in Seq(Hash) /\ t.line \in Seq(Hash)
      BY <2>4, <2>5 DEF OnLine, TreeLine
    <3>2. HeightIn(h) \in Nat
      BY <2>5, HeightIsNatural, MaxHeightAssumption
    <3> QED
      BY <3>1, <3>2
  <2> HIDE DEF h
  <2>7. CASE ~ IsBlock(r)
    <3>1. q = p /\ t.line = s.line
      BY <2>3, <2>7 DEF Turn, InPrefix, Took
    <3> QED
      BY <2>2, <3>1 DEF q, t
  <2>8. CASE IsBlock(r) /\ HeightIn(h) <= n
    <3>1. q = LoggedBlock(p, h)
      BY <2>2, <2>3, <2>8 DEF Turn, InPrefix, LoggedRecord, IsBlock, h
    <3>2. Accepts(s, h) /\ Onto(s.line, h, t.line)
      BY <2>3, <2>8 DEF Took, h
    <3>3. Accepts(p, h)
      <4>1. HeightIn(h) \in 1 .. Len(s.line) /\ s.line[HeightIn(h)] = PrevIn(h)
        BY <3>2 DEF Accepts
      <4>2. HeightIn(h) \in 1 .. Len(p.line)
        BY <2>2, <2>6, <2>8, <4>1
      <4>3. p.line[HeightIn(h)] = PrevIn(h)
        BY <2>2, <4>1, <4>2 DEF Carries
      <4> QED
        BY <2>2, <4>2, <4>3 DEF Accepts
    <3>4. q = [p EXCEPT !.line = Rebased(p.line, h)]
      BY <2>5, <3>1, <3>3, BlockTaken
    <3>5. q.line = Rebased(p.line, h) /\ q.final = NoHash /\ q.ok
      BY <2>2, <2>5, <3>4 DEF StoreState
    <3>6. Onto(p.line, h, q.line)
      BY <2>5, <3>3, <3>5, RebasedLine
    <3>7. Len(q.line) = HeightIn(h) + 1 /\ Len(t.line) = HeightIn(h) + 1 /\ Len(q.line) <= n + 1
      BY <2>6, <2>8, <3>2, <3>6 DEF Onto
    <3>8. \A j \in 1 .. Len(q.line) : t.line[j] = q.line[j]
      <4> SUFFICES ASSUME NEW j \in 1 .. HeightIn(h) + 1 PROVE t.line[j] = q.line[j]
        BY <3>7
      <4>1. CASE j = HeightIn(h) + 1
        BY <3>2, <3>6, <4>1 DEF Onto
      <4>2. CASE j # HeightIn(h) + 1
        <5>1. j \in 1 .. HeightIn(h)
          BY <2>6, <4>2
        <5>2. t.line[j] = s.line[j] /\ q.line[j] = p.line[j]
          BY <3>2, <3>6, <5>1 DEF Onto
        <5>3. j \in 1 .. Len(p.line)
          BY <2>6, <3>3, <5>1 DEF Accepts
        <5>4. s.line[j] = p.line[j]
          BY <2>2, <5>3 DEF Carries
        <5> QED
          BY <5>2, <5>4
      <4> QED
        BY <4>1, <4>2
    <3>9. Len(q.line) <= Len(t.line)
      BY <2>6, <3>7
    <3>10. Cut(q, t)
      BY <3>5, <3>7, <3>8, <3>9 DEF Carries
    <3> QED
      BY <3>10 DEF q, t
  <2>9. CASE IsBlock(r) /\ ~ HeightIn(h) <= n
    <3>1. q = p
      BY <2>3, <2>9 DEF Turn, InPrefix, h
    <3>2. Accepts(s, h) /\ Onto(s.line, h, t.line)
      BY <2>3, <2>9 DEF Took, h
    <3>3. HeightIn(h) \in 1 .. Len(s.line) /\ HeightIn(h) >= n + 1 /\ Len(t.line) = HeightIn(h) + 1
      BY <2>6, <2>9, <3>2 DEF Accepts, Onto
    <3>4. Len(p.line) = n + 1 /\ Len(p.line) <= Len(t.line)
      BY <2>2, <2>6, <3>3
    <3>5. ASSUME NEW j \in 1 .. Len(p.line) PROVE t.line[j] = p.line[j]
      <4>1. j \in 1 .. HeightIn(h)
        BY <2>6, <3>3, <3>4
      <4>2. t.line[j] = s.line[j]
        BY <3>2, <4>1 DEF Onto
      <4>3. s.line[j] = p.line[j]
        BY <2>2 DEF Carries
      <4> QED
        BY <4>2, <4>3
    <3>6. Carries(t.line, p.line)
      BY <3>4, <3>5 DEF Carries
    <3>7. Cut(p, t)
      BY <2>2, <3>4, <3>6
    <3> QED
      BY <3>1, <3>7 DEF q, t
  <2> QED
    BY <2>7, <2>8, <2>9
<1> HIDE DEF S
<1>8. Nat \subseteq S
  BY <1>6, <1>7, SetInduction
<1>9. Cut(P(N), R(N))
  BY <1>1, <1>8 DEF S
<1> QED
  BY <1>5, <1>9

\* The last finalization is one of the log's.
LEMMA LastFinalLogged ==
    ASSUME NEW records \in Seq(Record), LastFinal(records) # NoHash
    PROVE  \E k \in 1 .. Len(records) : ~ IsBlock(records[k]) /\ records[k].hash = LastFinal(records)
<1> DEFINE N == Len(records)
           X == {records[k] : k \in 1 .. N}
           F == {NoHash} \cup {r.hash : r \in {q \in X : ~ IsBlock(q)}}
           logged == LoggedBlocks(records)
<1>1. records \in Seq(X)
  <2>1. N \in Nat /\ records \in [1 .. N -> Record]
    OBVIOUS
  <2>2. records \in [1 .. N -> X]
    BY <2>1
  <2> HIDE DEF X, N
  <2> QED
    BY <2>1, <2>2
<1> HIDE DEF logged
<1>2. Closed("final", logged, F, X)
  BY DEF Closed, Turn
<1>3. NoHash \in F
  OBVIOUS
<1> HIDE DEF F, X
<1>4. FoldOf("final", logged, NoHash, records) \in F
  BY <1>1, <1>2, <1>3, FoldStays
<1>5. LastFinal(records) \in F
  BY <1>4, LastFinalFolds DEF logged
<1> QED
  BY <1>5 DEF F, X

\* Every finalization in the node's own log is of a block of the line it replays to.
LEMMA LoggedFinalOnLine ==
    ASSUME NEW records, OwnLog(records), NEW k \in 1 .. Len(records), ~ IsBlock(records[k])
    PROVE  records[k].hash \in ToSet(Replayed(records).line)
<1> DEFINE N == Len(records)
           R == Stages(records)
           f == records[k].hash
<1>1. N \in Nat /\ records \in Seq(Record)
  BY DEF OwnLog
<1>2. k \in 0 .. N /\ N \in k .. N /\ N \in 0 .. N
  BY <1>1
<1>3. R[k] = Stage(records, k) /\ R[N] = Replayed(records)
  BY <1>1, <1>2, StageSteps DEF Stages
<1>4. f # NoHash
  <2>1. records[k] \in Record
    BY <1>1
  <2> QED
    BY <2>1, NoHashAssumption DEF Record
<1>5. R[k].final = f
  BY <1>3 DEF OwnLog
<1>6. History(records, N, R)
  BY OwnHistory
<1> HIDE DEF R, f
<1>7. R[k].final \in ToSet(R[N].line)
  BY <1>1, <1>2, <1>4, <1>5, <1>6, FinalsStay
<1> QED
  BY <1>3, <1>5, <1>7 DEF f

\* A snapshot whose tip the log's finalizations prove is on the line of the replay.
LEMMA NearTipOnLine ==
    ASSUME NEW records, OwnLog(records), NEW s, SnapOK(s), s.tip # NoHash,
           NearTipProven(records, s, SnapHeight(s))
    PROVE  Carries(Replayed(records).line, s.tree)
<1> DEFINE n == SnapHeight(s)
           f == LastFinal(records)
           l == LineOf[f]
           line == Replayed(records).line
<1>1. records \in Seq(Record) /\ Len(records) \in 0 .. Len(records)
  BY DEF OwnLog
<1>2. f \in ToSet(line)
  <2>1. f # NoHash
    BY DEF NearTipProven
  <2> QED
    BY <1>1, <2>1, LastFinalLogged, LoggedFinalOnLine
<1>3. TreeLine(line)
  <2>1. Stage(records, Len(records)) \in Rebuilding /\ Stage(records, Len(records)) = Replayed(records)
    BY <1>1, StageRebuilds, StageSteps
  <2> QED
    BY <2>1 DEF Rebuilding, OnLine
<1>4. TreeLine(s.tree) /\ Last(s.tree) = s.tip /\ n = HeightIn(s.tip)
  BY DEF SnapOK, SnapHeight
<1>5. HeightIn(f) >= n /\ l[n + 1] = s.tip
  BY DEF NearTipProven
<1> HIDE DEF n, f, line
<1>6. f \in Hash /\ On(line, f) /\ HeightIn(f) \in Nat
  BY <1>2, <1>3, PlaceOfBlock
<1>7. TreeLine(l) /\ Last(l) = f
  BY <1>6, LineOfIsLine, TheLineOK
<1> HIDE DEF l
<1>8. /\ Len(s.tree) \in Nat /\ Len(s.tree) = n + 1 /\ s.tree[n + 1] = s.tip /\ n \in Nat
      /\ Len(l) \in Nat /\ Len(l) = HeightIn(f) + 1 /\ l[HeightIn(f) + 1] = f
      /\ Len(line) \in Nat
  <2>1. ASSUME NEW t, TreeLine(t)
        PROVE  Len(t) \in Nat /\ Len(t) >= 1 /\ HeightIn(t[Len(t)]) = Len(t) - 1 /\ Last(t) = t[Len(t)]
    BY <2>1 DEF TreeLine, Last
  <2>2. Len(s.tree) \in Nat /\ Len(s.tree) >= 1 /\ n = Len(s.tree) - 1 /\ s.tip = s.tree[Len(s.tree)]
    BY <1>4, <2>1
  <2>3. Len(l) \in Nat /\ Len(l) >= 1 /\ HeightIn(f) = Len(l) - 1 /\ f = l[Len(l)]
    BY <1>7, <2>1
  <2>4. Len(s.tree) = n + 1 /\ n \in Nat
    BY <2>2
  <2>5. Len(l) = HeightIn(f) + 1
    BY <2>3
  <2> QED
    BY <1>3, <2>1, <2>2, <2>3, <2>4, <2>5
<1>9. /\ HeightIn(f) + 1 \in 1 .. Len(l) /\ HeightIn(f) + 1 <= Len(line)
      /\ l[HeightIn(f) + 1] = line[HeightIn(f) + 1]
  BY <1>6, <1>8 DEF On
<1>10. \A j \in 1 .. HeightIn(f) + 1 : l[j] = line[j]
  BY <1>3, <1>7, <1>9, LinesAgree
<1>11. n + 1 \in 1 .. HeightIn(f) + 1 /\ n + 1 \in 1 .. Len(s.tree) /\ n + 1 <= Len(line)
  BY <1>5, <1>6, <1>8, <1>9
<1>12. s.tree[n + 1] = line[n + 1]
  BY <1>5, <1>8, <1>10, <1>11
<1>13. \A j \in 1 .. n + 1 : s.tree[j] = line[j]
  BY <1>3, <1>4, <1>11, <1>12, LinesAgree
<1> QED
  BY <1>8, <1>11, <1>13 DEF Carries, line

-----------------------------------------------------------------------------
(* A resume reaches what the replay of the log reaches.                    *)

\* The snapshot was taken at some moment of the log.
SnapLogged(s, records) ==
    s.tip # NoHash =>
        \E m \in 0 .. Len(records) : Stage(records, m).line = s.tree /\ Stage(records, m).final = s.final

\* The state o is the one the replay of the records ends with, or one ahead of it.
Reaches(o, records) == IsPrefix(Replayed(records).line, o.line) /\ o.final = Replayed(records).final

\* A tail loop that starts on a snapshot of the replay's line and ends well.
LEMMA TailLoopReaches ==
    ASSUME NEW mode \in {"tail", "skip"}, NEW records, OwnLog(records),
           NEW s, SnapOK(s), s.tip # NoHash, SnapLogged(s, records),
           Carries(Replayed(records).line, s.tree),
           NEW start \in Coherent, start.line = s.tree, start.final = s.final,
           FoldOf(mode, SnapHeight(s), start, records).ok
    PROVE  Reaches(FoldOf(mode, SnapHeight(s), start, records), records)
<1> DEFINE N == Len(records)
           n == SnapHeight(s)
           R == Stages(records)
           T == [k \in 0 .. N |-> LoopStage(mode, n, start, records, k)]
<1>1. N \in Nat /\ N \in 0 .. N /\ records \in Seq(Record)
  BY DEF OwnLog
<1>2. PICK m \in 0 .. N : Stage(records, m).line = s.tree /\ Stage(records, m).final = s.final
  BY DEF SnapLogged
<1>3. R[m].line = s.tree /\ R[m].final = s.final /\ R[N] = Replayed(records)
  BY <1>1, <1>2, StageSteps DEF Stages
<1>4. History(records, N, R)
  BY OwnHistory
<1>5. n = Len(s.tree) - 1
  <2>1. TreeLine(s.tree) /\ Last(s.tree) = s.tip
    BY DEF SnapOK
  <2>2. Len(s.tree) \in 1 .. Len(s.tree) /\ Last(s.tree) = s.tree[Len(s.tree)]
    BY <2>1 DEF TreeLine, Last
  <2>3. HeightIn(s.tree[Len(s.tree)]) = Len(s.tree) - 1
    BY <2>1, <2>2 DEF TreeLine
  <2> QED
    BY <2>1, <2>2, <2>3 DEF SnapHeight
<1>6. /\ \A k \in 0 .. N : OnLine(T[k])
      /\ \A k \in 1 .. N : TailTook(n, T[k - 1], T[k], records[k])
      /\ T[0] = start
      /\ T[N] = FoldOf(mode, n, start, records)
  BY <1>1, TailStages
<1> HIDE DEF R, T, N, n
<1>7. Resuming(records, N, R, T, m)
  BY <1>1, <1>3, <1>4, <1>5, <1>6 DEF Resuming
<1>8. IsPrefix(R[N].line, T[N].line) /\ T[N].final = R[N].final
  BY <1>7, TailReaches
<1> QED
  BY <1>3, <1>6, <1>8 DEF Reaches, n

LEMMA ByReplayReaches ==
    ASSUME NEW records \in Seq(Record)
    PROVE  Reaches(ByReplay(records), records)
<1>1. Replayed(records).line \in Seq(Hash)
  <2>1. Len(records) \in 0 .. Len(records)
    OBVIOUS
  <2>2. Stage(records, Len(records)) \in Rebuilding /\ Stage(records, Len(records)) = Replayed(records)
    BY <2>1, StageRebuilds, StageSteps
  <2> QED
    BY <2>2 DEF Rebuilding, StoreState
<1> DEFINE l == Replayed(records).line
<1> HIDE DEF l
<1>2. Len(l) \in Nat /\ Len(l) <= Len(l)
  BY <1>1 DEF l
<1>3. IsPrefix(l, l)
  BY <1>1, <1>2 DEF IsPrefix
<1> QED
  BY <1>3, ByReplayFields DEF Reaches, l

LEMMA NearTipReaches ==
    ASSUME NEW records, OwnLog(records), NEW s, SnapOK(s), s.tip # NoHash, SnapLogged(s, records),
           NEW side, side.names \in Seq(Hash), NearTip(records, s, side, SnapHeight(s)).ok
    PROVE  Reaches(NearTip(records, s, side, SnapHeight(s)), records)
<1> DEFINE n == SnapHeight(s)
           line == LineOf[s.tip]
           start == Start(line, s, side)
<1>1. records \in Seq(Record)
  BY DEF OwnLog
<1>2. CASE NearTipProven(records, s, n)
  <2>1. s.tip \in Hash /\ TreeLine(s.tree) /\ Last(s.tree) = s.tip
    BY DEF SnapOK, Snapshot
  <2>2. TreeLine(line) /\ Last(line) = s.tip
    BY <2>1, LineOfIsLine, TheLineOK
  <2>3. FinalRestores(records, s, line)
    BY <1>2 DEF NearTipProven
  <2>4. NearTip(records, s, side, n) = FoldOf("skip", n, start, records)
    BY <1>1, <1>2, TailSkippedFolds DEF NearTip
  <2>5. Carries(Replayed(records).line, s.tree)
    BY <1>2, NearTipOnLine
  <2> HIDE DEF line
  <2>6. start \in Coherent
    BY <2>2, <2>3, StartCoherent
  <2>7. start.line = s.tree /\ start.final = s.final
    BY <2>1, <2>2, OneLine DEF Start
  <2> HIDE DEF start
  <2> QED
    BY <2>4, <2>5, <2>6, <2>7, TailLoopReaches
<1>3. CASE ~ NearTipProven(records, s, n)
  BY <1>1, <1>3, ByReplayReaches DEF NearTip
<1> QED
  BY <1>2, <1>3

\* Whichever way a restart resumes from the node's own log and a snapshot it took.
LEMMA OpenedReaches ==
    ASSUME NEW records, OwnLog(records), NEW s, SnapOK(s), SnapLogged(s, records),
           NEW side, side.names \in Seq(Hash), Opened(records, s, side).ok
    PROVE  Reaches(Opened(records, s, side), records)
<1> DEFINE n == SnapHeight(s)
           p == PrefixStore(records, n)
           start == Start(p.line, s, side)
           resumed == TailReplayed(start, records, n)
           o == Opened(records, s, side)
<1>1. records \in Seq(Record)
  BY DEF OwnLog
<1>2. p \in Rebuilding
  BY <1>1, PrefixRebuilds
<1>3. CASE s.tip = NoHash \/ ~ SidecarFits(side, n)
  <2>1. o = ByReplay(records)
    BY <1>3 DEF Opened
  <2> QED
    BY <1>1, <2>1, ByReplayReaches
<1>4. CASE s.tip # NoHash /\ SidecarFits(side, n) /\ ~ PrefixAgrees(records, s, n)
  <2>1. o = NearTip(records, s, side, n)
    BY <1>4 DEF Opened
  <2> QED
    BY <1>4, <2>1, NearTipReaches
<1>5. CASE s.tip # NoHash /\ SidecarFits(side, n) /\ PrefixAgrees(records, s, n)
  <2>1. o = IF ~ FinalRestores(records, s, p.line) THEN [resumed EXCEPT !.ok = FALSE]
            ELSE IF resumed.ok THEN resumed ELSE NearTip(records, s, side, n)
    BY <1>5 DEF Opened
  <2>2. TreeLine(p.line) /\ Last(p.line) = s.tip
    BY <1>2, <1>5 DEF Rebuilding, OnLine, PrefixAgrees
  <2>3. FinalRestores(records, s, p.line)
    <3> SUFFICES ASSUME ~ FinalRestores(records, s, p.line) PROVE FALSE
      OBVIOUS
    <3>1. o.ok
      OBVIOUS
    <3>2. o = [resumed EXCEPT !.ok = FALSE]
      BY <2>1
    <3>3. resumed \in ResumeState
      BY <1>1, <1>2, <1>5, StartTyped, TailTyped DEF Rebuilding, StoreState
    <3> HIDE DEF resumed, o
    <3>4. ~ o.ok
      BY <3>2, <3>3 DEF ResumeState
    <3> QED
      BY <3>1, <3>4
  <2>4. CASE resumed.ok
    <3>1. n \in Nat
      <4>1. s.tip \in Hash
        BY <1>5 DEF SnapOK, Snapshot
      <4> QED
        BY <1>5, <4>1, HeightIsNatural, MaxHeightAssumption DEF SnapHeight
    <3>2. p.line = s.tree
      BY <1>5, <2>2, OneLine DEF SnapOK
    <3>3. Carries(Replayed(records).line, s.tree)
      BY <3>1, <3>2, PrefixCut
    <3> HIDE DEF p
    <3>4. start \in Coherent
      BY <1>5, <2>2, <2>3, StartCoherent
    <3>5. start.line = s.tree /\ start.final = s.final
      BY <3>2 DEF Start
    <3> HIDE DEF start
    <3>6. resumed = FoldOf("tail", n, start, records)
      BY <1>1, TailReplayedFolds
    <3>7. o = resumed
      BY <2>1, <2>3, <2>4
    <3> HIDE DEF o, resumed
    <3> QED
      BY <1>5, <2>4, <3>3, <3>4, <3>5, <3>6, <3>7, TailLoopReaches DEF o
  <2>5. CASE ~ resumed.ok
    <3>1. o = NearTip(records, s, side, n)
      BY <2>1, <2>3, <2>5
    <3> QED
      BY <1>5, <3>1, NearTipReaches
  <2> QED
    BY <2>4, <2>5
<1> QED
  BY <1>3, <1>4, <1>5

-----------------------------------------------------------------------------
(* The first life of a node: until its first restart, its log is its own.  *)

\* What a handler appends leaves the stages before it as they were; a finalization is
\* the last record it appends, and is accepted.
LEMMA OwnLogGrows ==
    ASSUME NEW records, OwnLog(records), NEW more \in Seq(Record), Replayed(records \o more).ok,
           \A k \in 1 .. Len(more) :
              IsBlock(more[k]) \/ (k = Len(more) /\ Replayed(records \o more).final = more[k].hash)
    PROVE  /\ OwnLog(records \o more)
           /\ \A s : SnapLogged(s, records) => SnapLogged(s, records \o more)
<1> DEFINE N == Len(records)
           M == Len(more)
           all == records \o more
<1>1. records \in Seq(Record) /\ N \in Nat /\ M \in Nat
  BY DEF OwnLog
<1>2. /\ all \in Seq(Record) /\ Len(all) = N + M
      /\ \A i \in 1 .. N : all[i] = records[i]
      /\ \A i \in N + 1 .. N + M : all[i] = more[i - N]
  BY <1>1, ConcatProperties
<1>3. \A k \in 0 .. N : Stage(all, k) = Stage(records, k)
  <2> SUFFICES ASSUME NEW k \in 0 .. N PROVE SubSeq(all, 1, k) = SubSeq(records, 1, k)
    BY DEF Stage
  <2> HIDE DEF all
  <2>1. /\ SubSeq(all, 1, k) \in Seq(Record) /\ Len(SubSeq(all, 1, k)) = k
        /\ \A i \in 1 .. k : SubSeq(all, 1, k)[i] = all[i]
    BY <1>1, <1>2
  <2>2. /\ SubSeq(records, 1, k) \in Seq(Record) /\ Len(SubSeq(records, 1, k)) = k
        /\ \A i \in 1 .. k : SubSeq(records, 1, k)[i] = records[i]
    BY <1>1
  <2>3. \A i \in 1 .. k : i \in 1 .. N
    BY <1>1
  <2> QED
    BY <1>2, <2>1, <2>2, <2>3, SeqEqual
<1>4. Stage(all, N + M) = Replayed(all)
  BY <1>2, StageSteps
<1>5. Replayed(all).ok
  OBVIOUS
<1>6. \A k \in 1 .. M : IsBlock(more[k]) \/ (k = M /\ Replayed(all).final = more[k].hash)
  OBVIOUS
<1> HIDE DEF all, N, M
<1>7. ASSUME NEW k \in 1 .. N + M, ~ IsBlock(all[k]) PROVE Stage(all, k).final = all[k].hash
  <2>1. CASE k <= N
    <3>1. k \in 0 .. N /\ k \in 1 .. N
      BY <1>1, <2>1
    <3>2. all[k] = records[k] /\ Stage(all, k) = Stage(records, k)
      BY <1>2, <1>3, <3>1
    <3> QED
      BY <1>7, <3>1, <3>2 DEF OwnLog, N
  <2>2. CASE ~ k <= N
    <3>1. k \in N + 1 .. N + M /\ k - N \in 1 .. M
      BY <1>1, <2>2
    <3>2. all[k] = more[k - N]
      BY <1>2, <3>1
    <3>3. k - N = M /\ Replayed(all).final = more[k - N].hash
      BY <1>6, <1>7, <3>1, <3>2
    <3>4. k = N + M
      BY <1>1, <3>3
    <3> QED
      BY <1>4, <3>2, <3>3, <3>4
  <2> QED
    BY <2>1, <2>2
<1>8. OwnLog(all)
  BY <1>2, <1>5, <1>7 DEF OwnLog
<1>9. ASSUME NEW s, SnapLogged(s, records) PROVE SnapLogged(s, all)
  <2> SUFFICES ASSUME s.tip # NoHash
               PROVE  \E m \in 0 .. Len(all) : Stage(all, m).line = s.tree /\ Stage(all, m).final = s.final
    BY DEF SnapLogged
  <2>1. PICK m \in 0 .. N : Stage(records, m).line = s.tree /\ Stage(records, m).final = s.final
    BY <1>9 DEF SnapLogged, N
  <2>2. m \in 0 .. Len(all)
    BY <1>1, <1>2, <2>1
  <2>3. Stage(all, m) = Stage(records, m)
    BY <1>3, <2>1
  <2> QED
    BY <2>1, <2>2, <2>3
<1> QED
  BY <1>8, <1>9 DEF all

\* The records of a drain, all of them or those before a crash.
LEMMA DrainOwnLog ==
    ASSUME NEW line, NEW n, NEW new, GoesOn(line, n, new), Len(new) = n => new = line,
           NEW records, OwnLog(records), Replayed(records) = Rebuilt(line, stateFinal),
           NEW cp \in Hash \cup {NoHash},
           NEW all, all = BlockRecords(new, n) \o FinalityRecord(cp, new)
    PROVE  /\ OwnLog(records \o all)
           /\ \A s : SnapLogged(s, records) => SnapLogged(s, records \o all)
           /\ \A k \in 1 .. Len(all) - 1 :
                 /\ OwnLog(records \o SubSeq(all, 1, k))
                 /\ \A s : SnapLogged(s, records) => SnapLogged(s, records \o SubSeq(all, 1, k))
<1> DEFINE recs == BlockRecords(new, n)
           final == FinalityRecord(cp, new)
<1>1. new \in Seq(Hash) /\ Len(new) \in Nat /\ n \in Nat /\ n <= Len(new) /\ n \in 0 .. Len(new)
  BY DEF GoesOn, TreeLine
<1>2. records \in Seq(Record)
  BY DEF OwnLog
<1>3. all \in Seq(Record) /\ final \in Seq(Record)
  BY <1>1, DrainRecords
<1>4. recs \in Seq(Record) /\ Len(recs) = Len(new) - n /\ \A i \in 1 .. Len(new) - n : IsBlock(recs[i])
  <2>1. Len(new) - n \in Nat /\ \A i \in 1 .. Len(new) - n : n + i \in 1 .. Len(new)
    BY <1>1
  <2>2. \A i \in 1 .. Len(new) - n : [kind |-> "block", hash |-> new[n + i]] \in Record
    BY <1>1, <2>1 DEF Record
  <2> QED
    BY <2>1, <2>2 DEF BlockRecords, IsBlock
<1>5. final = << >> \/ final = <<[kind |-> "finalize", hash |-> cp]>>
  BY DEF FinalityRecord
<1>6. DrainReplays(records, n, new, cp)
  BY <1>2, ReplayDrain
<1>7. /\ Replayed(records \o all) = Rebuilt(new, FinalAfter(final))
      /\ \A k \in 1 .. Len(all) - 1 :
            /\ records \o SubSeq(all, 1, k) \in Seq(Record)
            /\ \E m \in n + 1 .. Len(new) :
                  Replayed(records \o SubSeq(all, 1, k)) = Rebuilt(SubSeq(new, 1, m), stateFinal)
  BY <1>6 DEF DrainReplays
<1> HIDE DEF recs, final
<1>8. Len(recs) \in Nat /\ Len(final) \in Nat /\ Len(all) \in Nat
  BY <1>3, <1>4
<1>9. /\ Len(all) = Len(recs) + Len(final)
      /\ \A i \in 1 .. Len(recs) : all[i] = recs[i]
      /\ \A i \in Len(recs) + 1 .. Len(recs) + Len(final) : all[i] = final[i - Len(recs)]
  <2>1. all = recs \o final
    BY DEF recs, final
  <2>2. recs \in Seq(Record) /\ final \in Seq(Record)
    BY <1>3, <1>4
  <2>3. /\ Len(recs \o final) = Len(recs) + Len(final)
        /\ \A i \in 1 .. Len(recs) : (recs \o final)[i] = recs[i]
        /\ \A i \in Len(recs) + 1 .. Len(recs) + Len(final) : (recs \o final)[i] = final[i - Len(recs)]
    BY <2>2, ConcatProperties
  <2> QED
    BY <2>1, <2>3
<1>10. ASSUME NEW k \in 1 .. Len(all)
       PROVE  IsBlock(all[k]) \/ (k = Len(all) /\ Replayed(records \o all).final = all[k].hash)
  <2>1. CASE k <= Len(recs)
    <3>1. k \in 1 .. Len(recs) /\ k \in 1 .. Len(new) - n
      BY <1>4, <1>8, <2>1
    <3> QED
      BY <1>4, <1>9, <3>1
  <2>2. CASE ~ k <= Len(recs)
    <3>1. k \in Len(recs) + 1 .. Len(recs) + Len(final) /\ Len(final) # 0
      BY <1>8, <1>9, <2>2
    <3>2. final = <<[kind |-> "finalize", hash |-> cp]>>
      BY <1>5, <3>1
    <3>3. Len(final) = 1 /\ final[1].hash = cp /\ FinalAfter(final) = cp
      BY <3>2 DEF FinalAfter
    <3>4. k = Len(all) /\ k - Len(recs) = 1
      BY <1>8, <1>9, <3>1, <3>3
    <3>5. all[k] = final[1]
      BY <1>9, <3>1, <3>4
    <3>6. Replayed(records \o all).final = cp
      BY <1>7, <3>3 DEF Rebuilt
    <3> QED
      BY <3>3, <3>4, <3>5, <3>6
  <2> QED
    BY <2>1, <2>2
<1>11. OwnLog(records \o all) /\ \A s : SnapLogged(s, records) => SnapLogged(s, records \o all)
  <2>1. Replayed(records \o all).ok
    BY <1>7 DEF Rebuilt
  <2> QED
    BY <1>3, <1>10, <2>1, OwnLogGrows
<1>12. ASSUME NEW k \in 1 .. Len(all) - 1
       PROVE  /\ OwnLog(records \o SubSeq(all, 1, k))
              /\ \A s : SnapLogged(s, records) => SnapLogged(s, records \o SubSeq(all, 1, k))
  <2> DEFINE part == SubSeq(all, 1, k)
  <2>1. k \in Nat /\ k <= Len(all) /\ k < Len(all)
    BY <1>8
  <2>2. part \in Seq(Record) /\ Len(part) = k /\ \A i \in 1 .. k : part[i] = all[i]
    BY <1>3, <2>1
  <2>3. Replayed(records \o part).ok
    <3>1. \E m : Replayed(records \o part) = Rebuilt(SubSeq(new, 1, m), stateFinal)
      BY <1>7
    <3> QED
      BY <3>1 DEF Rebuilt
  <2> HIDE DEF part
  <2>4. ASSUME NEW i \in 1 .. Len(part) PROVE IsBlock(part[i])
    <3>1. i \in 1 .. k /\ i \in 1 .. Len(all) /\ i # Len(all)
      BY <1>8, <2>1, <2>2
    <3> QED
      BY <1>10, <2>2, <3>1
  <2>5. OwnLog(records \o part) /\ \A s : SnapLogged(s, records) => SnapLogged(s, records \o part)
    BY <2>2, <2>3, <2>4, OwnLogGrows
  <2> QED
    BY <2>5 DEF part
<1> QED
  BY <1>11, <1>12

\* The node is restarted once at most.
OneRestart == MaxRestarts <= 1

\* Before its first restart, the log of a node whose disk accepts its records rebuilds
\* its state machine, and the snapshot was taken at some moment of it.
FirstLife ==
    /\ restarts \in Nat
    /\ restarts = 0 => LogOK /\ OwnLog(log) /\ SnapLogged(snap, log)

\* The restart reached what the replay reaches.
ReplayReached ==
    LET r == Replayed(log') IN r.ok => IsPrefix(r.line, applied') /\ r.final = stateFinal'

LEMMA CurrentLogged ==
    ASSUME RInv, LogOK
    PROVE  SnapLogged(CurrentSnapshot, log)
<1>1. log \in Seq(Record) /\ Len(log) \in 0 .. Len(log) /\ Replayed(log) = Rebuilt(applied, stateFinal)
  BY DEF LogOK
<1>2. Stage(log, Len(log)) = Rebuilt(applied, stateFinal)
  BY <1>1, StageSteps
<1>3. CurrentSnapshot.tree = applied /\ CurrentSnapshot.final = stateFinal
  BY DEF CurrentSnapshot, RInv, StateOfItsChain
<1> HIDE DEF CurrentSnapshot
<1> QED
  BY <1>1, <1>2, <1>3 DEF SnapLogged, Rebuilt

\* The line a restart opens on goes on from where the log's replay does.
LEMMA GoesOnFurther ==
    ASSUME NEW line, NEW n, NEW l, GoesOn(line, n, l), NEW new, TreeLine(new), IsPrefix(l, new)
    PROVE  GoesOn(line, n, new)
<1>1. /\ TreeLine(line) /\ TreeLine(l) /\ n \in 1 .. Len(line) /\ n <= Len(l)
      /\ SubSeq(l, 1, n) = SubSeq(line, 1, n) /\ MayRewind(line, stateFinal, n)
  BY DEF GoesOn
<1>2. l \in Seq(Hash) /\ new \in Seq(Hash) /\ Len(l) \in Nat /\ Len(new) \in Nat /\ Len(line) \in Nat
  BY <1>1 DEF TreeLine
<1>3. Len(l) <= Len(new) /\ \A j \in 1 .. Len(l) : new[j] = l[j]
  BY <1>2, CarriesIsPrefix DEF Carries
<1>4. n \in Nat /\ n <= Len(new)
  BY <1>1, <1>2, <1>3
<1>5. SubSeq(new, 1, n) = SubSeq(l, 1, n)
  <2>1. /\ SubSeq(new, 1, n) \in Seq(Hash) /\ Len(SubSeq(new, 1, n)) = n
        /\ \A i \in 1 .. n : SubSeq(new, 1, n)[i] = new[i]
    BY <1>2, <1>4
  <2>2. /\ SubSeq(l, 1, n) \in Seq(Hash) /\ Len(SubSeq(l, 1, n)) = n
        /\ \A i \in 1 .. n : SubSeq(l, 1, n)[i] = l[i]
    BY <1>1, <1>2, <1>4
  <2>3. \A i \in 1 .. n : i \in 1 .. Len(l)
    BY <1>1, <1>2, <1>4
  <2> QED
    BY <1>3, <2>1, <2>2, <2>3, SeqEqual
<1> QED
  BY <1>1, <1>4, <1>5 DEF GoesOn

\* A first restart, on a log that rebuilds l.
LEMMA FirstRestart ==
    ASSUME RInv, FirstLife, OneRestart, NEW records, NEW s, NEW side,
           restarts = 0 => OwnLog(records) /\ SnapLogged(s, records),
           restarts = 0 => \E n \in 1 .. Len(applied) : \E l :
              GoesOn(applied, n, l) /\ Replayed(records) = Rebuilt(l, stateFinal),
           SnapOK(s), side.names \in Seq(Hash), OpenOn(records, s, side)
    PROVE  FirstLife' /\ DurableStep /\ ReplayReached
<1>1. PICK o : /\ o = Opened(records, s, side)
               /\ Adopt(o, records)
  BY DEF OpenOn
<1>2. o.ok /\ restarts = 0 /\ restarts' = 1
  <2>1. o.ok /\ restarts < MaxRestarts /\ restarts' = restarts + 1
    BY <1>1 DEF Adopt
  <2>2. restarts \in Nat /\ MaxRestarts \in Nat /\ MaxRestarts <= 1
    BY BoundAssumption DEF FirstLife, OneRestart
  <2> QED
    BY <2>1, <2>2
<1>3. FirstLife'
  BY <1>2 DEF FirstLife
<1>4. OwnLog(records) /\ SnapLogged(s, records) /\ records \in Seq(Record)
  BY <1>2 DEF OwnLog
<1>5. Reaches(o, records)
  BY <1>1, <1>2, <1>4, OpenedReaches
<1>6. log' = records /\ applied' = o.line /\ stateFinal' = o.final
  BY <1>1 DEF Adopt
<1>7. ReplayReached
  BY <1>5, <1>6 DEF Reaches, ReplayReached
<1>8. PICK n \in 1 .. Len(applied) : \E l :
         GoesOn(applied, n, l) /\ Replayed(records) = Rebuilt(l, stateFinal)
  BY <1>2
<1>9. PICK l : GoesOn(applied, n, l) /\ Replayed(records) = Rebuilt(l, stateFinal)
  BY <1>8
<1>10. IsPrefix(l, o.line) /\ o.final = stateFinal
  BY <1>5, <1>9 DEF Reaches, Rebuilt
<1>11. TreeLine(o.line)
  BY <1>1, <1>2, <1>4, OpenedCoherent DEF Coherent, OnLine
<1>12. GoesOn(applied, n, o.line)
  BY <1>9, <1>10, <1>11, GoesOnFurther
<1>13. DurableStep
  BY <1>6, <1>10, <1>12 DEF DurableStep, HeadMoves
<1> QED
  BY <1>3, <1>7, <1>13

\* A restart on the log as it is.
LEMMA LogGoesOn ==
    ASSUME RInv, LogOK
    PROVE  \E n \in 1 .. Len(applied) : \E l :
              GoesOn(applied, n, l) /\ Replayed(log) = Rebuilt(l, stateFinal)
<1> DEFINE n == Len(applied)
<1>1. TreeLine(applied) /\ n \in 1 .. Len(applied) /\ n <= Len(applied)
  BY AppliedLine DEF RInv, TreeLine
<1>2. MayRewind(applied, stateFinal, n)
  BY <1>1, HeadOnPrefix DEF RInv, HInv, HeadFits
<1> HIDE DEF n
<1>3. GoesOn(applied, n, applied)
  BY <1>1, <1>2 DEF GoesOn
<1> QED
  BY <1>1, <1>3 DEF LogOK

\* A restart on a log cut inside a drain.
LEMMA CutLogGoesOn ==
    ASSUME RInv, LogOK, OwnLog(log), SnapLogged(snap, log),
           NEW h \in Known, NEW kept, NEW line,
           kept = Rejoined(mainChain, applied, Buffered(h)), line = Grown(blocks, kept, Buffered(h)),
           NEW records, records = Drained(kept, line, Buffered(h)).records,
           NEW k \in 1 .. Len(records) - 1
    PROVE  LET cut == log \o SubSeq(records, 1, k) IN
           /\ OwnLog(cut) /\ SnapLogged(snap, cut)
           /\ \E n \in 1 .. Len(applied) : \E l :
                 GoesOn(applied, n, l) /\ Replayed(cut) = Rebuilt(l, stateFinal)
<1> DEFINE n == Len(kept)
           cut == log \o SubSeq(records, 1, k)
<1>1. StoreOK(blocks) /\ Matches(blocks) /\ tip \in Known /\ mainChain = blocks[tip].line
  BY DEF RInv, HInv, IInv, TypeOK, StoreOK, IndexIsTipBranch, Known
<1>2. DrainGoesOn(blocks, mainChain, applied, Buffered(h))
  BY <1>1, DrainFrom DEF RInv, Known
<1>3. GoesOn(applied, n, line) /\ (Len(line) = n => line = applied)
  BY <1>2 DEF DrainGoesOn
<1>4. records = BlockRecords(line, n) \o FinalityRecord(latest, line)
  BY DEF Drained
<1>5. log \in Seq(Record) /\ Replayed(log) = Rebuilt(applied, stateFinal) /\ latest \in Hash \cup {NoHash}
  BY HeadTyped DEF LogOK, RInv
<1> HIDE DEF n
<1>6. OwnLog(cut) /\ SnapLogged(snap, cut)
  BY <1>3, <1>4, <1>5, DrainOwnLog
<1>7. DrainReplays(log, n, line, latest)
  BY <1>3, <1>5, ReplayDrain
<1>8. PICK m \in n + 1 .. Len(line) : Replayed(cut) = Rebuilt(SubSeq(line, 1, m), stateFinal)
  BY <1>4, <1>7 DEF DrainReplays
<1> HIDE DEF cut
<1>9. /\ TreeLine(line) /\ n \in Nat /\ n <= Len(line) /\ Len(line) \in Nat /\ n \in 1 .. Len(applied)
      /\ m \in 1 .. Len(line) /\ n <= m
  <2>1. TreeLine(applied) /\ TreeLine(line) /\ n \in 1 .. Len(applied) /\ n <= Len(line)
    BY <1>3 DEF GoesOn
  <2>2. Len(applied) \in Nat /\ Len(line) \in Nat
    BY <2>1 DEF TreeLine
  <2> QED
    BY <2>1, <2>2
<1> DEFINE l == SubSeq(line, 1, m)
<1>10. GoesOn(applied, n, l)
  <2>1. TreeLine(l) /\ Len(l) = m
    BY <1>9, PrefixLine
  <2>2. SubSeq(l, 1, n) = SubSeq(line, 1, n)
    <3>1. line \in Seq(Hash)
      BY <1>9 DEF TreeLine
    <3> QED
      BY <1>9, <3>1
  <2> HIDE DEF l
  <2> QED
    BY <1>3, <1>9, <2>1, <2>2 DEF GoesOn
<1> HIDE DEF l
<1>11. \E i \in 1 .. Len(applied) : \E x : GoesOn(applied, i, x) /\ Replayed(cut) = Rebuilt(x, stateFinal)
  BY <1>8, <1>9, <1>10 DEF l
<1> QED
  BY <1>6, <1>11 DEF cut

\* A step of a node that is restarted once at most.
LEMMA ResumeNextFirst ==
    ASSUME DiskHolds, OneRestart, RInv, FirstLife, ResumeNext
    PROVE  FirstLife' /\ DurableStep /\ (restarts' # restarts => ReplayReached)
<1>1. HInv /\ (restarts = 0 => NInv /\ OwnLog(log) /\ SnapLogged(snap, log))
  BY DEF RInv, FirstLife, NInv
<1>2. ASSUME NEW h \in Hash \ {Genesis}, SubmitHeader(h), UNCHANGED snapVars
      PROVE  FirstLife' /\ DurableStep /\ restarts' = restarts
  <2>1. StateStep
    BY <1>1, <1>2, SubmitHeaderHInv
  <2>2. UNCHANGED <<applied, stateFinal, log, restarts, snap>>
    BY <1>2 DEF SubmitHeader, stateVars, snapVars
  <2>3. DurableStep
    BY <2>1 DEF StateStep, DurableStep
  <2> QED
    BY <2>2, <2>3 DEF FirstLife, LogOK
<1>3. ASSUME NEW h \in Hash \ {Genesis}, IngestBlock(h), Folds
      PROVE  FirstLife' /\ DurableStep /\ restarts' = restarts
  <2>1. StateStep
    BY <1>1, <1>3, IngestBlockHInv
  <2>2. DurableStep
    BY <2>1 DEF StateStep, DurableStep
  <2>3. restarts' = restarts /\ snap' = snap
    BY <1>3 DEF IngestBlock, Folds
  <2>4. ASSUME restarts = 0 PROVE LogOK' /\ OwnLog(log') /\ SnapLogged(snap, log')
    <3>1. LogOK'
      BY <1>1, <1>3, <2>4, IngestBlockLog
    <3>2. PICK n \in 1 .. Len(applied) :
            /\ GoesOn(applied, n, applied')
            /\ Len(applied') = n => applied' = applied
            /\ WriteLog(BlockRecords(applied', n) \o FinalityRecord(latest, applied'))
      BY <1>1, <1>3, IngestDrains
    <3> DEFINE all == BlockRecords(applied', n) \o FinalityRecord(latest, applied')
    <3>3. log' = log \o all
      BY <3>2, LogGrows
    <3>4. Replayed(log) = Rebuilt(applied, stateFinal) /\ latest \in Hash \cup {NoHash}
      BY <1>1, <2>4, HeadTyped DEF NInv, LogOK
    <3>5. OwnLog(log) /\ SnapLogged(snap, log)
      BY <1>1, <2>4
    <3>6. OwnLog(log \o all) /\ \A s : SnapLogged(s, log) => SnapLogged(s, log \o all)
      BY <3>2, <3>4, <3>5, DrainOwnLog
    <3> HIDE DEF all
    <3> QED
      BY <3>1, <3>3, <3>5, <3>6
  <2> QED
    BY <2>2, <2>3, <2>4 DEF FirstLife
<1>4. ASSUME NEW cp \in FinalLine, IngestVotes(cp), UNCHANGED snapVars
      PROVE  FirstLife' /\ DurableStep /\ restarts' = restarts
  <2>1. StateStep
    BY <1>1, <1>4, IngestVotesHInv
  <2>2. DurableStep
    BY <2>1 DEF StateStep, DurableStep
  <2>3. restarts' = restarts /\ snap' = snap
    BY <1>4 DEF IngestVotes, snapVars
  <2>4. ASSUME restarts = 0 PROVE LogOK' /\ OwnLog(log') /\ SnapLogged(snap, log')
    <3> DEFINE record == FinalityRecord(cp, applied)
    <3>1. LogOK'
      BY <1>1, <1>4, <2>4, IngestVotesLog
    <3>2. log' = log \o record /\ stateFinal' = FinalAfter(record)
      BY <1>4, LogGrows DEF IngestVotes
    <3>3. cp \in Hash \cup {NoHash} /\ applied \in Seq(Hash) /\ 0 \in 0 .. Len(applied)
      BY <1>1, FinalLineAssumption, AppliedLine
    <3>4. record \in Seq(Record)
      BY <3>3, DrainRecords
    <3>5. record = << >> \/ record = <<[kind |-> "finalize", hash |-> cp]>>
      BY DEF FinalityRecord
    <3> HIDE DEF record
    <3>6. Replayed(log \o record).ok /\ Replayed(log \o record).final = FinalAfter(record)
      BY <3>1, <3>2 DEF LogOK, Rebuilt
    <3>7. ASSUME NEW k \in 1 .. Len(record)
          PROVE  IsBlock(record[k]) \/ (k = Len(record) /\ Replayed(log \o record).final = record[k].hash)
      <4>1. CASE record = << >>
        BY <4>1
      <4>2. CASE record = <<[kind |-> "finalize", hash |-> cp]>>
        <5>1. Len(record) = 1 /\ record[1].hash = cp /\ FinalAfter(record) = cp
          BY <4>2 DEF FinalAfter
        <5>2. k = 1
          BY <5>1
        <5> QED
          BY <3>6, <5>1, <5>2
      <4> QED
        BY <3>5, <4>1, <4>2
    <3>8. OwnLog(log) /\ SnapLogged(snap, log)
      BY <1>1, <2>4
    <3>9. OwnLog(log \o record) /\ \A s : SnapLogged(s, log) => SnapLogged(s, log \o record)
      BY <3>4, <3>6, <3>7, <3>8, OwnLogGrows
    <3> QED
      BY <3>1, <3>2, <3>8, <3>9
  <2> QED
    BY <2>2, <2>3, <2>4 DEF FirstLife
<1>5. ASSUME NEW lost \in BOOLEAN, MaintainSnapshot(lost)
      PROVE  FirstLife' /\ DurableStep /\ restarts' = restarts
  <2>1. UNCHANGED nodeVars /\ snap' = CurrentSnapshot
    BY <1>5 DEF MaintainSnapshot, Saved
  <2>2. UNCHANGED <<applied, stateFinal, mainChain, log, restarts>>
    BY <2>1 DEF nodeVars, stateVars, chainVars
  <2>3. StateStep
    BY <1>1, <2>2, StaysApplied DEF HeadMoves
  <2>4. DurableStep
    BY <2>3 DEF StateStep, DurableStep
  <2>5. restarts = 0 => SnapLogged(snap', log)
    BY <1>1, <2>1, CurrentLogged DEF NInv
  <2> QED
    BY <1>1, <2>2, <2>4, <2>5 DEF FirstLife, LogOK, NInv
<1>6. ASSUME NEW lost \in BOOLEAN, Shutdown(lost)
      PROVE  FirstLife' /\ DurableStep /\ ReplayReached
  <2>1. PICK s \in {CurrentSnapshot}, side \in {sidecar, CurrentSidecar} : OpenOn(log, s, side)
    BY <1>6 DEF Shutdown
  <2>2. SnapOK(s) /\ side.names \in Seq(Hash)
    BY SavedOK DEF RInv
  <2>3. restarts = 0 => OwnLog(log) /\ SnapLogged(s, log)
    BY <1>1, CurrentLogged DEF NInv
  <2>4. restarts = 0 => \E n \in 1 .. Len(applied) : \E l :
           GoesOn(applied, n, l) /\ Replayed(log) = Rebuilt(l, stateFinal)
    BY <1>1, LogGoesOn DEF NInv
  <2> QED
    BY <2>1, <2>2, <2>3, <2>4, FirstRestart
<1>7. ASSUME Crash
      PROVE  FirstLife' /\ DurableStep /\ ReplayReached
  <2>1. OpenOn(log, snap, sidecar) /\ SnapOK(snap) /\ sidecar.names \in Seq(Hash)
    BY <1>7 DEF Crash, RInv
  <2>2. restarts = 0 => \E n \in 1 .. Len(applied) : \E l :
           GoesOn(applied, n, l) /\ Replayed(log) = Rebuilt(l, stateFinal)
    BY <1>1, LogGoesOn DEF NInv
  <2> QED
    BY <1>1, <2>1, <2>2, FirstRestart
<1>8. ASSUME NEW h \in Hash \ {Genesis}, CrashInDrainAfter(h)
      PROVE  FirstLife' /\ DurableStep /\ ReplayReached
  <2> DEFINE held == Buffered(h)
             kept == Rejoined(mainChain, applied, held)
             line == Grown(blocks, kept, held)
             records == Drained(kept, line, held).records
  <2>1. h \in Known
    BY <1>8 DEF CrashInDrainAfter
  <2>2. PICK k \in 1 .. Len(records) - 1 : OpenOn(log \o SubSeq(records, 1, k), snap, sidecar)
    BY <1>8 DEF CrashInDrainAfter
  <2> DEFINE cut == log \o SubSeq(records, 1, k)
  <2>3. ASSUME restarts = 0
        PROVE  /\ OwnLog(cut) /\ SnapLogged(snap, cut)
               /\ \E n \in 1 .. Len(applied) : \E l :
                     GoesOn(applied, n, l) /\ Replayed(cut) = Rebuilt(l, stateFinal)
    BY <1>1, <2>1, <2>3, CutLogGoesOn DEF NInv
  <2>4. SnapOK(snap) /\ sidecar.names \in Seq(Hash)
    BY DEF RInv
  <2> HIDE DEF cut
  <2>5. OpenOn(cut, snap, sidecar)
    BY <2>2 DEF cut
  <2> QED
    BY <2>3, <2>4, <2>5, FirstRestart
<1> QED
  BY <1>2, <1>3, <1>4, <1>5, <1>6, <1>7, <1>8 DEF ResumeNext

LEMMA FirstLifeInvariant ==
    ASSUME DiskHolds, OneRestart
    PROVE  ResumeSpec => []FirstLife
<1>1. ResumeInit => FirstLife
  <2> SUFFICES ASSUME ResumeInit PROVE FirstLife
    OBVIOUS
  <2>1. NInv /\ snap.tip = NoHash /\ restarts = 0 /\ log = << >>
    BY NodeInitNInv DEF ResumeInit, NodeInit, NoSnapshot
  <2>2. LogOK /\ log \in Seq(Record) /\ Replayed(log).ok
    BY <2>1 DEF NInv, LogOK, Rebuilt
  <2>3. OwnLog(log)
    BY <2>1, <2>2 DEF OwnLog
  <2> QED
    BY <2>1, <2>2, <2>3 DEF FirstLife, SnapLogged
<1>2. RInv /\ FirstLife /\ [ResumeNext]_resumeVars => FirstLife'
  <2> SUFFICES ASSUME RInv, FirstLife, [ResumeNext]_resumeVars PROVE FirstLife'
    OBVIOUS
  <2>1. CASE ResumeNext
    BY <2>1, ResumeNextFirst
  <2>2. CASE UNCHANGED resumeVars
    <3>1. UNCHANGED <<applied, stateFinal, log, restarts, snap>>
      BY <2>2 DEF resumeVars, nodeVars, stateVars, snapVars
    <3> QED
      BY <3>1 DEF FirstLife, LogOK
  <2> QED
    BY <2>1, <2>2
<1> QED
  BY <1>1, <1>2, ResumeInvariant, PTL DEF ResumeSpec

\* A node whose disk accepts its records, when it is first restarted: whatever of the
\* snapshot, its sidecar and the log a crash left, and on whatever branch the snapshot
\* was taken, the node resumes with what a replay of its log gives, or ahead of it,
\* and with the same finalized head (open_inner: "identical to a from-genesis replay").
THEOREM FirstResumeReachesReplay ==
    ASSUME DiskHolds, OneRestart
    PROVE  ResumeSpec => ResumeReachesReplay
<1> DEFINE A == restarts' # restarts =>
                   LET r == Replayed(log')
                   IN  r.ok => IsPrefix(r.line, applied') /\ r.final = stateFinal'
<1>1. RInv /\ FirstLife /\ [ResumeNext]_resumeVars => [A]_resumeVars
  <2> SUFFICES ASSUME RInv, FirstLife, ResumeNext, restarts' # restarts
               PROVE  LET r == Replayed(log')
                      IN  r.ok => IsPrefix(r.line, applied') /\ r.final = stateFinal'
    OBVIOUS
  <2>1. ReplayReached
    BY ResumeNextFirst
  <2> QED
    BY <2>1 DEF ReplayReached
<1> QED
  BY <1>1, ResumeInvariant, FirstLifeInvariant, PTL DEF ResumeSpec, ResumeReachesReplay

\* The same node, through its first restart and after it: no rewind, crash or resume
\* from a snapshot undoes a block at or below the durable finalized head
\* (rewind_path, restore_finalized, resume_near_tip).
THEOREM FirstResumeKeepsFinality ==
    ASSUME DiskHolds, OneRestart
    PROVE  ResumeSpec => ResumeKeepsFinality
<1>1. ResumeInit => DP!Init
  BY DEF ResumeInit, NodeInit, DP!Init, DurableBlocks
<1>2. RInv /\ RInv' /\ FirstLife /\ [ResumeNext]_resumeVars => [DP!Extend]_DurableBlocks
  <2> SUFFICES ASSUME RInv, RInv', FirstLife, [ResumeNext]_resumeVars PROVE [DP!Extend]_DurableBlocks
    OBVIOUS
  <2>1. CASE ResumeNext
    <3>1. HInv /\ HInv'
      BY DEF RInv
    <3>2. DurableStep
      BY <2>1, ResumeNextFirst
    <3> QED
      BY <3>1, <3>2, DurableExtends
  <2>2. CASE UNCHANGED resumeVars
    <3>1. UNCHANGED <<applied, stateFinal>>
      BY <2>2 DEF resumeVars, nodeVars, stateVars
    <3> QED
      BY <3>1 DEF DurableBlocks
  <2> QED
    BY <2>1, <2>2
<1> QED
  BY <1>1, <1>2, ResumeInvariant, FirstLifeInvariant, PTL DEF ResumeSpec, ResumeKeepsFinality, DP!Spec

=============================================================================
