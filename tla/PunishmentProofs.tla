-------------------------- MODULE PunishmentProofs --------------------------
(***************************************************************************)
(* Proofs about Punishment, for every committee, every set of equivocators,*)
(* every epoch length, any lag of bodies behind headers and any number of  *)
(* boundaries and restarts, when evidence is applied in the epoch of its   *)
(* height (InEpochOnly) and no restart resumed in an epoch before that of  *)
(* a record (ResumesPastRecords).                                          *)
(*                                                                         *)
(* The argument.  Reflects says that a committee is determined by a set of *)
(* records: the roster of an epoch is the one before it without the keys   *)
(* of the records up to then, and each record names a key of the roster of *)
(* its height.  The live committee reflects the ledger.  So does what a    *)
(* replay of the sorted records has at its end, because while it processes *)
(* the records of one epoch no record of an earlier one is outstanding,    *)
(* and so every seal drops whom the live seal dropped.  Two committees of  *)
(* one epoch that reflect the same records are equal, so a chain that      *)
(* resumed behind its tip has its old committee when it has caught up.     *)
(***************************************************************************)
EXTENDS Punishment, SequenceTheorems, FiniteSetTheorems, NaturalsInduction, WellFoundedInduction, TLAPS

-----------------------------------------------------------------------------
(* Induction, and the folds of the module.                                 *)

\* Induction over the naturals, in a form that needs no operator argument.
LEMMA SetInduction ==
    ASSUME NEW S, 0 \in S, \A n \in Nat : n \in S => n + 1 \in S
    PROVE  Nat \subseteq S
<1> DEFINE T == Nat \ S
<1> SUFFICES ASSUME T # {} PROVE FALSE
  OBVIOUS
<1>1. PICK x \in T : \A y \in T : ~ (<<y, x>> \in OpToRel(<, Nat))
  BY NatLessThanWellFounded, WFMin
<1>2. x \in Nat /\ x # 0 /\ x - 1 \in Nat /\ (x - 1) + 1 = x /\ x - 1 < x
  OBVIOUS
<1>3. x - 1 \in T
  BY <1>2
<1>4. <<x - 1, x>> \in OpToRel(<, Nat)
  BY <1>2 DEF OpToRel
<1> QED
  BY <1>1, <1>3, <1>4

\* Among the positions at which two lists agree there is a highest one.
LEMMA HighestExists ==
    ASSUME NEW n \in Nat, NEW S, S \subseteq 1 .. n, NEW e \in S
    PROVE  \E i \in S : \A j \in S : j <= i
<1> DEFINE T == {n - i : i \in S}
<1>1. T \subseteq Nat
  OBVIOUS
<1>2. T # {}
  OBVIOUS
<1>3. PICK x \in T : \A y \in T : ~ (<<y, x>> \in OpToRel(<, Nat))
  BY <1>1, <1>2, WFMin, NatLessThanWellFounded
<1>4. ASSUME NEW y \in T PROVE x <= y
  <2>1. y \in Nat /\ x \in Nat
    BY <1>1
  <2>2. ~ (<<y, x>> \in OpToRel(<, Nat))
    BY <1>3
  <2>3. ~ (y < x)
    <3> HIDE DEF T
    <3> QED BY <2>1, <2>2 DEF OpToRel
  <2> QED BY <2>1, <2>3
<1>5. PICK i \in S : x = n - i
  OBVIOUS
<1>6. ASSUME NEW j \in S PROVE j <= i
  <2>1. n - j \in T
    OBVIOUS
  <2>2. x <= n - j
    BY <2>1, <1>4
  <2> QED BY <2>2, <1>5
<1> QED
  BY <1>6

\* A non-empty set of positions has a highest one, and Max is it.
LEMMA MaxPosition ==
    ASSUME NEW n \in Nat, NEW S, S \subseteq 1 .. n, S # {}
    PROVE  Max(S) \in S /\ \A j \in S : j <= Max(S)
<1>1. \E i \in S : \A j \in S : j <= i
  BY HighestExists
<1>2. \E i \in S : \A j \in S : i >= j
  BY <1>1
<1>3. Max(S) \in S /\ \A j \in S : Max(S) >= j
  BY <1>2 DEF Max
<1> QED
  BY <1>3

LEMMA TopOfRange ==
    ASSUME NEW n \in Nat
    PROVE  /\ Max(1 .. n + 1) = n + 1 /\ 1 .. n + 1 # {}
           /\ (1 .. n + 1) \ {n + 1} = 1 .. n
<1>1. n + 1 \in Nat /\ 1 .. n + 1 \subseteq 1 .. n + 1 /\ n + 1 \in 1 .. n + 1
  OBVIOUS
<1>2. Max(1 .. n + 1) \in 1 .. n + 1 /\ n + 1 <= Max(1 .. n + 1)
  BY <1>1, MaxPosition
<1> QED
  BY <1>1, <1>2

\* The seals of advance_to, tabulated for the sets of their positions (the community
\* module's FoldLeft).
Seals(g, c, n) ==
    g = [s \in SUBSET (1 .. n) |-> IF s = {} THEN c ELSE Sealed(g[s \ {Max(s)}])]

LEMMA SealsGrow ==
    ASSUME NEW n \in Nat, NEW c, NEW g, Seals(g, c, n)
    PROVE  \E h : Seals(h, c, n + 1)
<1> DEFINE h == [s \in SUBSET (1 .. n + 1) |->
                    IF n + 1 \in s THEN Sealed(g[s \ {n + 1}]) ELSE g[s]]
<1>1. ASSUME NEW s \in SUBSET (1 .. n + 1)
      PROVE  h[s] = IF s = {} THEN c ELSE Sealed(h[s \ {Max(s)}])
  <2>1. CASE n + 1 \in s
    <3>1. Max(s) = n + 1
      <4> HIDE DEF h
      <4>1. n + 1 \in Nat /\ s \subseteq 1 .. n + 1 /\ s # {}
        BY <2>1
      <4>2. Max(s) \in s /\ \A j \in s : j <= Max(s)
        BY <4>1, MaxPosition
      <4>3. Max(s) \in 1 .. n + 1 /\ n + 1 <= Max(s)
        BY <4>1, <4>2, <2>1
      <4> HIDE DEF Max
      <4> QED
        BY <4>3
    <3>2. h[s \ {n + 1}] = g[s \ {n + 1}]
      OBVIOUS
    <3> HIDE DEF h
    <3>3. h[s] = Sealed(g[s \ {n + 1}])
      BY <2>1 DEF h
    <3> QED
      BY <2>1, <3>1, <3>2, <3>3
  <2>2. CASE n + 1 \notin s
    <3>1. s \in SUBSET (1 .. n) /\ h[s] = g[s]
      BY <2>2
    <3>2. s \ {Max(s)} \in SUBSET (1 .. n + 1) /\ n + 1 \notin s \ {Max(s)}
      BY <2>2
    <3>3. h[s \ {Max(s)}] = g[s \ {Max(s)}]
      BY <3>2
    <3> HIDE DEF h
    <3>4. g[s] = IF s = {} THEN c ELSE Sealed(g[s \ {Max(s)}])
      BY <3>1 DEF Seals
    <3> QED
      BY <3>1, <3>3, <3>4
  <2> QED
    BY <2>1, <2>2
<1>2. Seals(h, c, n + 1)
  BY <1>1 DEF Seals
<1> QED
  BY <1>2

LEMMA SealsExist ==
    ASSUME NEW c
    PROVE  \A n \in Nat : \E g : Seals(g, c, n)
<1> DEFINE S == {n \in Nat : \E g : Seals(g, c, n)}
<1>1. 0 \in S
  <2>1. SUBSET (1 .. 0) = {{}}
    OBVIOUS
  <2> DEFINE g == [s \in {{}} |-> c]
  <2>2. Seals(g, c, 0)
    BY <2>1 DEF Seals
  <2> QED
    BY <2>2
<1>2. \A n \in Nat : n \in S => n + 1 \in S
  BY SealsGrow
<1> HIDE DEF S
<1>3. Nat \subseteq S
  BY <1>1, <1>2, SetInduction
<1> QED
  BY <1>3 DEF S

\* One turn of the loop of seal over the roster.
Keep(kept, m, gone) == IF m \in gone THEN kept ELSE Append(kept, m)

Keeps(g, roster, gone, n) ==
    g = [s \in SUBSET (1 .. n) |-> IF s = {} THEN << >> ELSE Keep(g[s \ {Max(s)}], roster[Max(s)], gone)]

LEMMA KeepsGrow ==
    ASSUME NEW n \in Nat, NEW roster, NEW gone, NEW g, Keeps(g, roster, gone, n)
    PROVE  \E h : Keeps(h, roster, gone, n + 1)
<1> DEFINE h == [s \in SUBSET (1 .. n + 1) |->
                    IF n + 1 \in s THEN Keep(g[s \ {n + 1}], roster[n + 1], gone) ELSE g[s]]
<1>1. ASSUME NEW s \in SUBSET (1 .. n + 1)
      PROVE  h[s] = IF s = {} THEN << >> ELSE Keep(h[s \ {Max(s)}], roster[Max(s)], gone)
  <2>1. CASE n + 1 \in s
    <3>1. Max(s) = n + 1
      <4> HIDE DEF h
      <4>1. n + 1 \in Nat /\ s \subseteq 1 .. n + 1 /\ s # {}
        BY <2>1
      <4>2. Max(s) \in s /\ \A j \in s : j <= Max(s)
        BY <4>1, MaxPosition
      <4>3. Max(s) \in 1 .. n + 1 /\ n + 1 <= Max(s)
        BY <4>1, <4>2, <2>1
      <4> HIDE DEF Max
      <4> QED
        BY <4>3
    <3>2. h[s \ {n + 1}] = g[s \ {n + 1}]
      OBVIOUS
    <3> HIDE DEF h
    <3>3. h[s] = Keep(g[s \ {n + 1}], roster[n + 1], gone)
      BY <2>1 DEF h
    <3> QED
      BY <2>1, <3>1, <3>2, <3>3
  <2>2. CASE n + 1 \notin s
    <3>1. s \in SUBSET (1 .. n) /\ h[s] = g[s]
      BY <2>2
    <3>2. s \ {Max(s)} \in SUBSET (1 .. n + 1) /\ n + 1 \notin s \ {Max(s)}
      BY <2>2
    <3>3. h[s \ {Max(s)}] = g[s \ {Max(s)}]
      BY <3>2
    <3> HIDE DEF h
    <3>4. g[s] = IF s = {} THEN << >> ELSE Keep(g[s \ {Max(s)}], roster[Max(s)], gone)
      BY <3>1 DEF Keeps
    <3> QED
      BY <3>1, <3>3, <3>4
  <2> QED
    BY <2>1, <2>2
<1>2. Keeps(h, roster, gone, n + 1)
  BY <1>1 DEF Keeps
<1> QED
  BY <1>2

LEMMA KeepsExist ==
    ASSUME NEW roster, NEW gone
    PROVE  \A n \in Nat : \E g : Keeps(g, roster, gone, n)
<1> DEFINE S == {n \in Nat : \E g : Keeps(g, roster, gone, n)}
<1>1. 0 \in S
  <2>1. SUBSET (1 .. 0) = {{}}
    OBVIOUS
  <2> DEFINE g == [s \in {{}} |-> << >>]
  <2>2. Keeps(g, roster, gone, 0)
    BY <2>1 DEF Keeps
  <2> QED
    BY <2>2
<1>2. \A n \in Nat : n \in S => n + 1 \in S
  BY KeepsGrow
<1> HIDE DEF S
<1>3. Nat \subseteq S
  BY <1>1, <1>2, SetInduction
<1> QED
  BY <1>3 DEF S

\* The replay of the records of seq.
Fresh == [committee |-> GenesisCommittee, ok |-> TRUE]
Replays(g, seq, t, n) ==
    g = [s \in SUBSET (1 .. n) |-> IF s = {} THEN Fresh ELSE ReplayOne(g[s \ {Max(s)}], seq[Max(s)], t)]

LEMMA ReplaysGrow ==
    ASSUME NEW n \in Nat, NEW seq, NEW t, NEW g, Replays(g, seq, t, n)
    PROVE  \E h : Replays(h, seq, t, n + 1)
<1> DEFINE h == [s \in SUBSET (1 .. n + 1) |->
                    IF n + 1 \in s THEN ReplayOne(g[s \ {n + 1}], seq[n + 1], t) ELSE g[s]]
<1>1. ASSUME NEW s \in SUBSET (1 .. n + 1)
      PROVE  h[s] = IF s = {} THEN Fresh ELSE ReplayOne(h[s \ {Max(s)}], seq[Max(s)], t)
  <2>1. CASE n + 1 \in s
    <3>1. Max(s) = n + 1
      <4> HIDE DEF h
      <4>1. n + 1 \in Nat /\ s \subseteq 1 .. n + 1 /\ s # {}
        BY <2>1
      <4>2. Max(s) \in s /\ \A j \in s : j <= Max(s)
        BY <4>1, MaxPosition
      <4>3. Max(s) \in 1 .. n + 1 /\ n + 1 <= Max(s)
        BY <4>1, <4>2, <2>1
      <4> HIDE DEF Max
      <4> QED
        BY <4>3
    <3>2. h[s \ {n + 1}] = g[s \ {n + 1}]
      OBVIOUS
    <3> HIDE DEF h
    <3>3. h[s] = ReplayOne(g[s \ {n + 1}], seq[n + 1], t)
      BY <2>1 DEF h
    <3> QED
      BY <2>1, <3>1, <3>2, <3>3
  <2>2. CASE n + 1 \notin s
    <3>1. s \in SUBSET (1 .. n) /\ h[s] = g[s]
      BY <2>2
    <3>2. s \ {Max(s)} \in SUBSET (1 .. n + 1) /\ n + 1 \notin s \ {Max(s)}
      BY <2>2
    <3>3. h[s \ {Max(s)}] = g[s \ {Max(s)}]
      BY <3>2
    <3> HIDE DEF h
    <3>4. g[s] = IF s = {} THEN Fresh ELSE ReplayOne(g[s \ {Max(s)}], seq[Max(s)], t)
      BY <3>1 DEF Replays
    <3> QED
      BY <3>1, <3>3, <3>4
  <2> QED
    BY <2>1, <2>2
<1>2. Replays(h, seq, t, n + 1)
  BY <1>1 DEF Replays
<1> QED
  BY <1>2

LEMMA ReplaysExist ==
    ASSUME NEW seq, NEW t
    PROVE  \A n \in Nat : \E g : Replays(g, seq, t, n)
<1> DEFINE S == {n \in Nat : \E g : Replays(g, seq, t, n)}
<1>1. 0 \in S
  <2>1. SUBSET (1 .. 0) = {{}}
    OBVIOUS
  <2> DEFINE g == [s \in {{}} |-> Fresh]
  <2>2. Replays(g, seq, t, 0)
    BY <2>1 DEF Replays
  <2> QED
    BY <2>2
<1>2. \A n \in Nat : n \in S => n + 1 \in S
  BY ReplaysGrow
<1> HIDE DEF S
<1>3. Nat \subseteq S
  BY <1>1, <1>2, SetInduction
<1> QED
  BY <1>3 DEF S

-----------------------------------------------------------------------------
(* What a seal leaves of a roster.                                         *)

LEMMA ToSetAppend ==
    ASSUME NEW X, NEW seq \in Seq(X), NEW x \in X
    PROVE  ToSet(Append(seq, x)) = ToSet(seq) \cup {x}
<1> DEFINE n == Len(seq)
           longer == Append(seq, x)
<1>1. /\ n \in Nat /\ DOMAIN seq = 1 .. n /\ DOMAIN longer = 1 .. n + 1
      /\ longer[n + 1] = x /\ \A i \in 1 .. n : longer[i] = seq[i]
  BY AppendProperties
<1> HIDE DEF n, longer
<1>2. 1 .. n + 1 = (1 .. n) \cup {n + 1}
  BY <1>1
<1>3. {longer[i] : i \in 1 .. n + 1} = {seq[i] : i \in 1 .. n} \cup {x}
  BY <1>1, <1>2
<1> QED
  BY <1>1, <1>3 DEF ToSet, longer

LEMMA WithoutLeaves ==
    ASSUME NEW roster \in Seq(Member), NEW gone
    PROVE  Without(roster, gone) \in Seq(Member) /\ ToSet(Without(roster, gone)) = ToSet(roster) \ gone
<1> DEFINE n == Len(roster)
           g == CHOOSE f : Keeps(f, roster, gone, n)
<1>1. n \in Nat /\ DOMAIN roster = 1 .. n
  OBVIOUS
<1>2. Keeps(g, roster, gone, n)
  BY <1>1, KeepsExist
<1>3. Without(roster, gone) =
        (CHOOSE f : f = [s \in SUBSET DOMAIN roster |->
            IF s = {} THEN << >>
            ELSE IF roster[Max(s)] \in gone THEN f[s \ {Max(s)}]
                 ELSE Append(f[s \ {Max(s)}], roster[Max(s)])])[DOMAIN roster]
  BY DEF Without, FoldLeft, MapThenFoldSet
<1>4. Without(roster, gone) = g[1 .. n]
  BY <1>1, <1>3 DEF Keeps, Keep
<1> HIDE DEF g, n
<1> DEFINE Left(k) == {roster[i] : i \in 1 .. k} \ gone
           S == {k \in Nat : k <= n => g[1 .. k] \in Seq(Member) /\ ToSet(g[1 .. k]) = Left(k)}
<1>5. 0 \in S
  <2>1. 1 .. 0 = {} /\ {} \in SUBSET (1 .. n)
    OBVIOUS
  <2>2. g[{}] = << >>
    BY <1>2, <2>1 DEF Keeps
  <2>3. << >> \in Seq(Member) /\ ToSet(<< >>) = {} /\ Left(0) = {}
    BY DEF ToSet
  <2> QED
    BY <2>1, <2>2, <2>3
<1>6. ASSUME NEW k \in Nat, k \in S PROVE k + 1 \in S
  <2> SUFFICES ASSUME k + 1 <= n
               PROVE  g[1 .. k + 1] \in Seq(Member) /\ ToSet(g[1 .. k + 1]) = Left(k + 1)
    OBVIOUS
  <2>1. g[1 .. k] \in Seq(Member) /\ ToSet(g[1 .. k]) = Left(k)
    BY <1>1, <1>6
  <2> HIDE DEF S
  <2>2. Max(1 .. k + 1) = k + 1 /\ 1 .. k + 1 # {} /\ (1 .. k + 1) \ {k + 1} = 1 .. k
    BY TopOfRange
  <2>3. 1 .. k + 1 \in SUBSET (1 .. n) /\ k + 1 \in 1 .. n
    BY <1>1
  <2>4. g[1 .. k + 1] = Keep(g[1 .. k], roster[k + 1], gone)
    BY <1>2, <2>2, <2>3 DEF Keeps
  <2>5. roster[k + 1] \in Member
    BY <1>1, <2>3
  <2>6. 1 .. k + 1 = (1 .. k) \cup {k + 1}
    OBVIOUS
  <2>7. Left(k + 1) = Left(k) \cup ({roster[k + 1]} \ gone)
    BY <2>6
  <2> HIDE DEF Left
  <2>8. CASE roster[k + 1] \in gone
    BY <2>1, <2>4, <2>7, <2>8 DEF Keep
  <2>9. CASE roster[k + 1] \notin gone
    <3>1. g[1 .. k + 1] = Append(g[1 .. k], roster[k + 1])
      BY <2>4, <2>9 DEF Keep
    <3>2. /\ Append(g[1 .. k], roster[k + 1]) \in Seq(Member)
          /\ ToSet(Append(g[1 .. k], roster[k + 1])) = Left(k) \cup {roster[k + 1]}
      BY <2>1, <2>5, ToSetAppend
    <3> QED
      BY <2>7, <2>9, <3>1, <3>2
  <2> QED
    BY <2>8, <2>9
<1> HIDE DEF S
<1>7. Nat \subseteq S
  BY <1>5, <1>6, SetInduction
<1>8. g[1 .. n] \in Seq(Member) /\ ToSet(g[1 .. n]) = Left(n)
  <2>1. n \in S /\ n <= n
    BY <1>1, <1>7
  <2> HIDE DEF Left
  <2> QED
    BY <2>1 DEF S
<1> QED
  BY <1>1, <1>4, <1>8 DEF ToSet

-----------------------------------------------------------------------------
(* The committee that a set of records determines.                         *)

CommitteeSet ==
    [epoch : Nat, roster : Seq(Member), history : Seq(Seq(Member)),
     punished : SUBSET Member, bond : [Member -> Int]]

RosterIn(c, e) == IF e >= c.epoch THEN c.roster ELSE c.history[e + 1]
Keys(L) == {ev.key : ev \in L}
KeysTo(L, e) == {ev.key : ev \in {x \in L : EpochOf(x.height) <= e}}
BondAfter(P) == [m \in Member |-> IF m \in P THEN Bond - Bond \div 10 ELSE Bond]

Reflects(c, L) ==
    /\ c \in CommitteeSet /\ Len(c.history) = c.epoch
    /\ RosterIn(c, 0) = GenesisRoster
    /\ \A e \in 0 .. c.epoch - 1 : RosterIn(c, e + 1) = Without(RosterIn(c, e), KeysTo(L, e))
    /\ c.punished = Keys(L) /\ c.bond = BondAfter(c.punished)
    /\ L \subseteq Evidence
    /\ \A ev \in L : EpochOf(ev.height) <= c.epoch /\ Verifies(c, ev)

LEMMA EpochIsNatural == ASSUME NEW h \in Nat PROVE EpochOf(h) \in Nat
BY BoundAssumption DEF EpochOf

LEMMA EpochAscends ==
    ASSUME NEW h \in Nat, NEW k \in Nat, h <= k
    PROVE  EpochOf(h) <= EpochOf(k)
BY BoundAssumption DEF EpochOf

LEMMA EvidenceHeight == ASSUME NEW ev \in Evidence PROVE ev.height \in Nat /\ EpochOf(ev.height) \in Nat
BY BoundAssumption, EpochIsNatural DEF Evidence

LEMMA RostersAgree ==
    ASSUME NEW c, NEW d, NEW L, NEW M, Reflects(c, L), Reflects(d, M),
           NEW e \in Nat, e <= c.epoch, e <= d.epoch,
           \A k \in 0 .. e - 1 : KeysTo(L, k) = KeysTo(M, k)
    PROVE  RosterIn(c, e) = RosterIn(d, e)
<1> DEFINE S == {k \in Nat : k <= e => RosterIn(c, k) = RosterIn(d, k)}
<1>1. c.epoch \in Nat /\ d.epoch \in Nat
  BY DEF Reflects, CommitteeSet
<1>2. 0 \in S
  BY DEF Reflects
<1>3. ASSUME NEW k \in Nat, k \in S PROVE k + 1 \in S
  <2> SUFFICES ASSUME k + 1 <= e PROVE RosterIn(c, k + 1) = RosterIn(d, k + 1)
    OBVIOUS
  <2>1. RosterIn(c, k) = RosterIn(d, k)
    BY <1>3
  <2>2. k \in 0 .. e - 1 /\ k \in 0 .. c.epoch - 1 /\ k \in 0 .. d.epoch - 1
    BY <1>1
  <2>3. /\ RosterIn(c, k + 1) = Without(RosterIn(c, k), KeysTo(L, k))
        /\ RosterIn(d, k + 1) = Without(RosterIn(d, k), KeysTo(M, k))
    BY <2>2 DEF Reflects
  <2> QED
    BY <2>1, <2>2, <2>3
<1> HIDE DEF S
<1>4. Nat \subseteq S
  BY <1>2, <1>3, SetInduction
<1> QED
  BY <1>4 DEF S

\* Two committees of one epoch with the same records are the same.
LEMMA SameCommittee ==
    ASSUME NEW c, NEW d, NEW L, Reflects(c, L), Reflects(d, L), c.epoch = d.epoch
    PROVE  c = d
<1>1. c \in CommitteeSet /\ d \in CommitteeSet /\ Len(c.history) = c.epoch /\ Len(d.history) = c.epoch
  BY DEF Reflects
<1>2. c.epoch \in Nat /\ c.history \in Seq(Seq(Member)) /\ d.history \in Seq(Seq(Member))
  BY <1>1 DEF CommitteeSet
<1>3. ASSUME NEW e \in Nat, e <= c.epoch PROVE RosterIn(c, e) = RosterIn(d, e)
  BY <1>3, RostersAgree
<1>4. c.roster = d.roster
  BY <1>2, <1>3 DEF RosterIn
<1>5. ASSUME NEW i \in 1 .. c.epoch PROVE c.history[i] = d.history[i]
  <2>1. i - 1 \in Nat /\ i - 1 < c.epoch /\ (i - 1) + 1 = i
    BY <1>2
  <2>2. RosterIn(c, i - 1) = c.history[i] /\ RosterIn(d, i - 1) = d.history[i]
    BY <1>2, <2>1 DEF RosterIn
  <2> QED
    BY <1>2, <1>3, <2>1, <2>2
<1>6. c.history = d.history
  <2>1. DOMAIN c.history = 1 .. c.epoch /\ DOMAIN d.history = 1 .. c.epoch
    BY <1>1, <1>2
  <2> QED
    BY <1>2, <1>5, <2>1
<1>7. c.punished = d.punished /\ c.bond = d.bond
  BY DEF Reflects
<1> QED
  BY <1>1, <1>4, <1>6, <1>7 DEF CommitteeSet

LEMMA GenesisReflects == Reflects(GenesisCommittee, {})
<1>1. GenesisRoster \in Seq(Member) /\ Bond \in Int
  BY RosterAssumption, BoundAssumption
<1>2. GenesisCommittee \in CommitteeSet
  BY <1>1 DEF GenesisCommittee, CommitteeSet
<1>3. /\ GenesisCommittee.epoch = 0 /\ GenesisCommittee.history = << >>
      /\ GenesisCommittee.roster = GenesisRoster /\ GenesisCommittee.punished = {}
      /\ GenesisCommittee.bond = [m \in Member |-> Bond]
  BY DEF GenesisCommittee
<1>4. RosterIn(GenesisCommittee, 0) = GenesisRoster
  BY <1>3 DEF RosterIn
<1>5. Keys({}) = {} /\ BondAfter({}) = [m \in Member |-> Bond]
  BY DEF Keys, BondAfter
<1> QED
  BY <1>2, <1>3, <1>4, <1>5 DEF Reflects

\* EpochCommittee::seal closes an epoch with the records so far.
LEMMA SealReflects ==
    ASSUME NEW c, NEW L, Reflects(c, L)
    PROVE  Reflects(Sealed(c), L) /\ Sealed(c).epoch = c.epoch + 1
<1> DEFINE d == Sealed(c)
           n == c.epoch
<1>1. /\ c \in CommitteeSet /\ n \in Nat /\ c.history \in Seq(Seq(Member)) /\ Len(c.history) = n
      /\ c.roster \in Seq(Member) /\ c.punished \in SUBSET Member
  BY DEF Reflects, CommitteeSet
<1>2. /\ d = [c EXCEPT !.epoch = n + 1, !.history = Append(c.history, c.roster),
                       !.roster = Without(c.roster, c.punished)]
  BY <1>1 DEF Sealed, CommitteeSet
<1>3. Without(c.roster, c.punished) \in Seq(Member)
  BY <1>1, WithoutLeaves
<1>4. /\ Append(c.history, c.roster) \in Seq(Seq(Member)) /\ Len(Append(c.history, c.roster)) = n + 1
      /\ Append(c.history, c.roster)[n + 1] = c.roster
      /\ \A i \in 1 .. n : Append(c.history, c.roster)[i] = c.history[i]
  BY <1>1, AppendProperties
<1>5. /\ d \in CommitteeSet /\ d.epoch = n + 1 /\ d.history = Append(c.history, c.roster)
      /\ d.roster = Without(c.roster, c.punished) /\ d.punished = c.punished /\ d.bond = c.bond
  <2> DEFINE w == Without(c.roster, c.punished)
             a == Append(c.history, c.roster)
  <2>1. w \in Seq(Member) /\ a \in Seq(Seq(Member)) /\ n + 1 \in Nat
    BY <1>1, <1>3, <1>4
  <2>2. d = [c EXCEPT !.epoch = n + 1, !.history = a, !.roster = w]
    BY <1>2
  <2> HIDE DEF w, a, d, n
  <2> QED
    BY <1>1, <2>1, <2>2 DEF CommitteeSet, w, a
<1> HIDE DEF d, n
<1>6. \A e \in 0 .. n : RosterIn(d, e) = RosterIn(c, e)
  <2> TAKE e \in 0 .. n
  <2>1. RosterIn(d, e) = Append(c.history, c.roster)[e + 1]
    BY <1>1, <1>5 DEF RosterIn
  <2>2. CASE e = n
    BY <1>1, <1>4, <2>1, <2>2 DEF RosterIn, n
  <2>3. CASE e < n
    <3>1. e + 1 \in 1 .. n
      BY <1>1, <2>3
    <3>2. RosterIn(c, e) = c.history[e + 1]
      BY <1>1, <2>3 DEF RosterIn, n
    <3> QED
      BY <1>4, <2>1, <3>1, <3>2
  <2> QED
    BY <1>1, <2>2, <2>3
<1>7. RosterIn(d, n + 1) = Without(RosterIn(d, n), KeysTo(L, n))
  <2>1. KeysTo(L, n) = Keys(L) /\ c.punished = Keys(L)
    BY DEF Reflects, KeysTo, Keys, n
  <2>2. RosterIn(d, n + 1) = Without(c.roster, c.punished)
    BY <1>1, <1>5 DEF RosterIn
  <2>3. RosterIn(d, n) = c.roster
    <3>1. n \in 0 .. n /\ RosterIn(c, n) = c.roster
      BY <1>1 DEF RosterIn, n
    <3> QED
      BY <1>6, <3>1
  <2> QED
    BY <2>1, <2>2, <2>3
<1>8. \A e \in 0 .. d.epoch - 1 : RosterIn(d, e + 1) = Without(RosterIn(d, e), KeysTo(L, e))
  <2> TAKE e \in 0 .. d.epoch - 1
  <2>1. CASE e = n
    BY <1>7, <2>1
  <2>2. CASE e # n
    <3>1. e \in 0 .. n - 1 /\ e \in 0 .. n /\ e + 1 \in 0 .. n
      BY <1>1, <1>5, <2>2
    <3>2. RosterIn(c, e + 1) = Without(RosterIn(c, e), KeysTo(L, e))
      BY <3>1 DEF Reflects, n
    <3> QED
      BY <1>6, <3>1, <3>2
  <2> QED
    BY <2>1, <2>2
<1>9. \A ev \in L : EpochOf(ev.height) <= d.epoch /\ Verifies(d, ev)
  <2> TAKE ev \in L
  <2>1. ev \in Evidence /\ EpochOf(ev.height) <= n /\ Verifies(c, ev)
    BY DEF Reflects, n
  <2>2. EpochOf(ev.height) \in Nat
    BY <2>1, EvidenceHeight
  <2>3. EpochOf(ev.height) \in 0 .. n
    BY <1>1, <2>1, <2>2
  <2>4. RosterFor(d, ev.height) = RosterFor(c, ev.height)
    BY <1>6, <2>3 DEF RosterFor, RosterIn
  <2> QED
    BY <1>1, <1>5, <2>1, <2>2, <2>4 DEF Verifies
<1>10. RosterIn(d, 0) = GenesisRoster
  <2>1. 0 \in 0 .. n
    BY <1>1
  <2> QED
    BY <1>6, <2>1 DEF Reflects
<1>11. d.punished = Keys(L) /\ d.bond = BondAfter(d.punished) /\ L \subseteq Evidence
  BY <1>5 DEF Reflects
<1>12. Reflects(d, L)
  BY <1>4, <1>5, <1>8, <1>9, <1>10, <1>11 DEF Reflects
<1> QED
  BY <1>5, <1>12 DEF d, n

\* EpochCommittee::advance_to.
LEMMA AdvanceReflects ==
    ASSUME NEW c, NEW L, Reflects(c, L), NEW h \in Nat, c.epoch <= EpochOf(h)
    PROVE  Reflects(AdvancedTo(c, h), L) /\ AdvancedTo(c, h).epoch = EpochOf(h)
<1> DEFINE n == EpochOf(h) - c.epoch
           seq == [e \in 1 .. n |-> e]
           g == CHOOSE f : Seals(f, c, n)
<1>1. n \in Nat /\ c.epoch \in Nat /\ EpochOf(h) \in Nat /\ c.epoch + n = EpochOf(h)
  <2>1. c.epoch \in Nat /\ EpochOf(h) \in Nat
    BY EpochIsNatural DEF Reflects, CommitteeSet
  <2> QED
    BY <2>1
<1>2. Seals(g, c, n)
  BY <1>1, SealsExist
<1>3. AdvancedTo(c, h) =
        (CHOOSE f : f = [s \in SUBSET DOMAIN seq |->
            IF s = {} THEN c ELSE Sealed(f[s \ {Max(s)}])])[DOMAIN seq]
  BY DEF AdvancedTo, FoldLeft, MapThenFoldSet
<1>4. AdvancedTo(c, h) = g[1 .. n]
  <2>1. DOMAIN seq = 1 .. n
    OBVIOUS
  <2> HIDE DEF n, seq
  <2> QED
    BY <1>3, <2>1 DEF Seals, g
<1> HIDE DEF g, n
<1> DEFINE S == {k \in Nat : k <= n => Reflects(g[1 .. k], L) /\ g[1 .. k].epoch = c.epoch + k}
<1>5. 0 \in S
  <2>1. 1 .. 0 = {} /\ {} \in SUBSET (1 .. n)
    OBVIOUS
  <2>2. g[{}] = c
    BY <1>2, <2>1 DEF Seals
  <2> QED
    BY <1>1, <2>1, <2>2
<1>6. ASSUME NEW k \in Nat, k \in S PROVE k + 1 \in S
  <2> SUFFICES ASSUME k + 1 <= n
               PROVE  Reflects(g[1 .. k + 1], L) /\ g[1 .. k + 1].epoch = c.epoch + (k + 1)
    OBVIOUS
  <2>1. Reflects(g[1 .. k], L) /\ g[1 .. k].epoch = c.epoch + k
    BY <1>1, <1>6
  <2> HIDE DEF S
  <2>2. Max(1 .. k + 1) = k + 1 /\ 1 .. k + 1 # {} /\ (1 .. k + 1) \ {k + 1} = 1 .. k
    BY TopOfRange
  <2>3. 1 .. k + 1 \in SUBSET (1 .. n)
    BY <1>1
  <2>4. g[1 .. k + 1] = Sealed(g[1 .. k])
    BY <1>2, <2>2, <2>3 DEF Seals
  <2>5. Reflects(Sealed(g[1 .. k]), L) /\ Sealed(g[1 .. k]).epoch = (c.epoch + k) + 1
    BY <2>1, SealReflects
  <2> QED
    BY <1>1, <2>4, <2>5
<1> HIDE DEF S
<1>7. Nat \subseteq S
  BY <1>5, <1>6, SetInduction
<1>8. Reflects(g[1 .. n], L) /\ g[1 .. n].epoch = c.epoch + n
  <2>1. n \in S /\ n <= n
    BY <1>1, <1>7
  <2> QED
    BY <2>1 DEF S
<1> QED
  BY <1>1, <1>4, <1>8

\* CommitteeState::tombstone, for a record of the current epoch.
LEMMA TombstoneReflects ==
    ASSUME NEW c, NEW L, Reflects(c, L), NEW ev \in Evidence,
           EpochOf(ev.height) = c.epoch, Verifies(c, ev)
    PROVE  /\ Reflects(Tombstoned(c, ev.index), L \cup {ev})
           /\ Tombstoned(c, ev.index).epoch = c.epoch
           /\ ev.key \in c.punished => Tombstoned(c, ev.index) = c
<1> DEFINE d == Tombstoned(c, ev.index)
           M == L \cup {ev}
<1>1. c \in CommitteeSet /\ c.epoch \in Nat /\ c.punished \in SUBSET Member /\ ev.key \in Member
  BY DEF Reflects, CommitteeSet, Evidence
<1>2. ev.index \in DOMAIN c.roster /\ c.roster[ev.index] = ev.key
  BY <1>1 DEF Verifies, RosterFor
<1>3. Keys(M) = Keys(L) \cup {ev.key}
  BY DEF Keys
<1>4. \A e \in 0 .. c.epoch - 1 : KeysTo(M, e) = KeysTo(L, e)
  BY <1>1 DEF KeysTo
<1>5. c.punished = Keys(L) /\ c.bond = BondAfter(c.punished) /\ c.bond \in [Member -> Int]
  BY DEF Reflects, CommitteeSet
<1>6. /\ d \in CommitteeSet /\ d.epoch = c.epoch /\ d.history = c.history /\ d.roster = c.roster
      /\ d.punished = Keys(M) /\ d.bond = BondAfter(d.punished)
      /\ ev.key \in c.punished => d = c
  <2>1. CASE ev.key \in c.punished
    <3>1. d = c
      BY <1>2, <2>1 DEF Tombstoned
    <3> QED
      BY <1>1, <1>3, <1>5, <2>1, <3>1
  <2>2. CASE ev.key \notin c.punished
    <3> DEFINE p == c.punished \cup {ev.key}
               b == [c.bond EXCEPT ![ev.key] = @ - @ \div 10]
    <3>1. d = [c EXCEPT !.punished = p, !.bond = b]
      BY <1>1, <1>2, <2>2 DEF Tombstoned, CommitteeSet
    <3>2. p \in SUBSET Member /\ p = Keys(M)
      BY <1>1, <1>3, <1>5
    <3>3. b = BondAfter(p)
      <4>1. c.bond[ev.key] = Bond
        BY <1>1, <1>5, <2>2 DEF BondAfter
      <4>2. b = [m \in Member |-> IF m = ev.key THEN Bond - Bond \div 10 ELSE c.bond[m]]
        BY <1>1, <1>5, <4>1
      <4>3. \A m \in Member : c.bond[m] = IF m \in c.punished THEN Bond - Bond \div 10 ELSE Bond
        BY <1>5 DEF BondAfter
      <4> QED
        BY <1>1, <4>2, <4>3 DEF BondAfter
    <3>4. BondAfter(p) \in [Member -> Int]
      BY BoundAssumption DEF BondAfter
    <3> HIDE DEF p, b, d
    <3>5. d \in CommitteeSet /\ d.epoch = c.epoch /\ d.history = c.history /\ d.roster = c.roster
          /\ d.punished = p /\ d.bond = b
      BY <1>1, <3>1, <3>2, <3>3, <3>4 DEF CommitteeSet
    <3> QED
      BY <2>2, <3>2, <3>3, <3>5
  <2> QED
    BY <2>1, <2>2
<1> HIDE DEF d
<1>7. \A e : RosterIn(d, e) = RosterIn(c, e)
  BY <1>6 DEF RosterIn
<1>8. \A x : Verifies(d, x) <=> Verifies(c, x)
  BY <1>6 DEF Verifies, RosterFor
<1>9. \A e \in 0 .. d.epoch - 1 : RosterIn(d, e + 1) = Without(RosterIn(d, e), KeysTo(M, e))
  BY <1>4, <1>6, <1>7 DEF Reflects
<1>10. \A x \in M : EpochOf(x.height) <= d.epoch /\ Verifies(d, x)
  BY <1>1, <1>6, <1>8 DEF Reflects
<1>11. M \subseteq Evidence /\ RosterIn(d, 0) = GenesisRoster /\ Len(d.history) = d.epoch
  BY <1>6, <1>7 DEF Reflects
<1> HIDE DEF M
<1>12. Reflects(d, M)
  BY <1>6, <1>9, <1>10, <1>11 DEF Reflects
<1> QED
  BY <1>6, <1>12 DEF d, M

-----------------------------------------------------------------------------
(* The replay of a ledger.                                                 *)

\* The least of a set of naturals.
LEMMA LeastExists ==
    ASSUME NEW S \in SUBSET Nat, S # {}
    PROVE  \E x \in S : \A y \in S : x <= y
<1>1. PICK x \in S : \A y \in S : ~ (<<y, x>> \in OpToRel(<, Nat))
  BY NatLessThanWellFounded, WFMin
<1>2. ASSUME NEW y \in S PROVE x <= y
  <2>1. y \in Nat /\ x \in Nat
    OBVIOUS
  <2>2. ~ (y < x)
    BY <1>1, <2>1 DEF OpToRel
  <2> QED
    BY <2>1, <2>2
<1> QED
  BY <1>2

\* Some record comes first.
LEMMA FirstRecord ==
    ASSUME NEW L \in SUBSET Evidence, L # {}
    PROVE  \E x \in L : \A y \in L : ~ Before(y, x)
<1>1. \A x \in L : x.height \in Nat /\ x.index \in Nat
  BY RosterAssumption, EvidenceHeight DEF Evidence, Index
<1>2. PICK h \in {x.height : x \in L} : \A k \in {x.height : x \in L} : h <= k
  <2>1. {x.height : x \in L} \in SUBSET Nat /\ {x.height : x \in L} # {}
    BY <1>1
  <2> QED
    BY <2>1, LeastExists
<1> DEFINE low == {x \in L : x.height = h}
<1>3. PICK i \in {x.index : x \in low} : \A j \in {x.index : x \in low} : i <= j
  <2>1. {x.index : x \in low} \in SUBSET Nat /\ {x.index : x \in low} # {}
    BY <1>1, <1>2
  <2> QED
    BY <2>1, LeastExists
<1>4. PICK x \in L : x.height = h /\ x.index = i
  BY <1>3
<1>5. ASSUME NEW y \in L, Before(y, x) PROVE FALSE
  <2>1. h <= y.height /\ h \in Nat /\ y.height \in Nat /\ y.index \in Nat /\ i \in Nat
    BY <1>1, <1>2, <1>4
  <2>2. y.height = h /\ y.index < i
    BY <1>4, <1>5, <2>1 DEF Before
  <2>3. i <= y.index
    BY <1>3, <2>2
  <2> QED
    BY <2>1, <2>2, <2>3
<1> QED
  BY <1>5

InOrder(s) == \A i, j \in DOMAIN s : i < j => ~ Before(s[j], s[i])
Lists(s, n, L) == s \in [1 .. n -> L] /\ (\A i, j \in 1 .. n : i # j => s[i] # s[j]) /\ InOrder(s)

LEMMA OrderExists ==
    ASSUME NEW L \in SUBSET Evidence, IsFiniteSet(L)
    PROVE  \E s : Lists(s, Cardinality(L), L)
<1> DEFINE P(n) == \A K \in SUBSET Evidence :
                      IsFiniteSet(K) /\ Cardinality(K) = n => \E s : Lists(s, n, K)
           S == {n \in Nat : P(n)}
<1>1. 0 \in S
  <2> SUFFICES ASSUME NEW K \in SUBSET Evidence, IsFiniteSet(K), Cardinality(K) = 0
               PROVE  \E s : Lists(s, 0, K)
    OBVIOUS
  <2>1. Lists([i \in 1 .. 0 |-> i], 0, K)
    BY DEF Lists, InOrder
  <2> QED
    BY <2>1
<1>2. ASSUME NEW n \in Nat, n \in S PROVE n + 1 \in S
  <2> SUFFICES ASSUME NEW K \in SUBSET Evidence, IsFiniteSet(K), Cardinality(K) = n + 1
               PROVE  \E s : Lists(s, n + 1, K)
    OBVIOUS
  <2>1. P(n)
    BY <1>2
  <2> HIDE DEF S
  <2>2. K # {}
    BY FS_EmptySet
  <2>3. PICK x \in K : \A y \in K : ~ Before(y, x)
    BY <2>2, FirstRecord
  <2>4. K \ {x} \in SUBSET Evidence /\ IsFiniteSet(K \ {x}) /\ Cardinality(K \ {x}) = n
    <3>1. IsFiniteSet(K \ {x}) /\ Cardinality(K \ {x}) = (n + 1) - 1
      BY FS_RemoveElement
    <3> QED
      BY <3>1
  <2>5. PICK r : Lists(r, n, K \ {x})
    BY <2>1, <2>4
  <2> HIDE DEF P
  <2> DEFINE s == [i \in 1 .. n + 1 |-> IF i = 1 THEN x ELSE r[i - 1]]
  <2>6. \A i \in 2 .. n + 1 : i - 1 \in 1 .. n /\ s[i] = r[i - 1] /\ s[i] \in K \ {x}
    BY <2>5 DEF Lists
  <2>7. s[1] = x /\ 1 \in 1 .. n + 1
    OBVIOUS
  <2>8. s \in [1 .. n + 1 -> K]
    <3>1. \A i \in 1 .. n + 1 : s[i] \in K
      <4> TAKE i \in 1 .. n + 1
      <4>1. i = 1 \/ i \in 2 .. n + 1
        OBVIOUS
      <4> HIDE DEF s
      <4> QED
        BY <2>6, <2>7, <4>1
    <3> QED
      BY <3>1
  <2> HIDE DEF s
  <2>9. ASSUME NEW i \in 1 .. n + 1, NEW j \in 1 .. n + 1, i < j
        PROVE  s[i] # s[j] /\ ~ Before(s[j], s[i])
    <3>1. j \in 2 .. n + 1
      BY <2>9
    <3>2. CASE i = 1
      BY <2>3, <2>6, <2>7, <3>1, <3>2
    <3>3. CASE i # 1
      <4>1. i \in 2 .. n + 1 /\ i - 1 < j - 1 /\ i - 1 # j - 1
        BY <2>9, <3>3
      <4>2. /\ i - 1 \in 1 .. n /\ j - 1 \in 1 .. n /\ s[i] = r[i - 1] /\ s[j] = r[j - 1]
            /\ DOMAIN r = 1 .. n
        BY <2>5, <2>6, <3>1, <4>1 DEF Lists
      <4>3. r[i - 1] # r[j - 1]
        BY <2>5, <4>1, <4>2 DEF Lists
      <4>4. ~ Before(r[j - 1], r[i - 1])
        BY <2>5, <4>1, <4>2 DEF Lists, InOrder
      <4> QED
        BY <4>2, <4>3, <4>4
    <3> QED
      BY <3>2, <3>3
  <2>10. \A i, j \in 1 .. n + 1 : i # j => s[i] # s[j]
    <3> SUFFICES ASSUME NEW i \in 1 .. n + 1, NEW j \in 1 .. n + 1, i # j PROVE s[i] # s[j]
      OBVIOUS
    <3>1. i < j \/ j < i
      OBVIOUS
    <3> QED
      BY <2>9, <3>1
  <2>11. InOrder(s)
    BY <2>8, <2>9 DEF InOrder
  <2>12. Lists(s, n + 1, K)
    BY <2>8, <2>10, <2>11 DEF Lists
  <2> QED
    BY <2>12
<1> HIDE DEF S
<1>3. Nat \subseteq S
  BY <1>1, <1>2, SetInduction
<1>4. Cardinality(L) \in Nat
  BY FS_CardinalityType
<1>5. P(Cardinality(L))
  BY <1>3, <1>4 DEF S
<1> QED
  BY <1>5

\* sort_records: all the records, by height and index.
LEMMA SortedLists ==
    ASSUME NEW L \in SUBSET Evidence, IsFiniteSet(L)
    PROVE  /\ Sorted(L) \in Seq(Evidence) /\ InOrder(Sorted(L))
           /\ L = {Sorted(L)[i] : i \in 1 .. Len(Sorted(L))}
<1> DEFINE n == Cardinality(L)
           s == Sorted(L)
<1>1. n \in Nat
  BY FS_CardinalityType
<1>2. \E r \in SetToSeqs(L) : InOrder(r)
  BY OrderExists DEF SetToSeqs, Lists
<1>3. s \in SetToSeqs(L) /\ InOrder(s)
  BY <1>2 DEF Sorted, InOrder
<1>4. s \in [1 .. n -> L] /\ \A i, j \in 1 .. n : i # j => s[i] # s[j]
  BY <1>3 DEF SetToSeqs
<1> HIDE DEF n, s
<1>5. s \in Injection(1 .. n, L)
  BY <1>4 DEF Injection, IsInjective
<1>6. Cardinality(1 .. n) = n
  BY <1>1, FS_Interval
<1>7. s \in Surjection(1 .. n, L)
  BY <1>5, <1>6, FS_Injection DEF n
<1>8. \A x \in L : \E i \in 1 .. n : s[i] = x
  BY <1>7 DEF Surjection
<1>9. s \in Seq(Evidence) /\ Len(s) = n
  BY <1>1, <1>4
<1> QED
  BY <1>3, <1>4, <1>8, <1>9 DEF s

LEMMA VerifiesIn ==
    ASSUME NEW c, NEW d, NEW ev, RosterIn(c, EpochOf(ev.height)) = RosterIn(d, EpochOf(ev.height)),
           Verifies(c, ev)
    PROVE  Verifies(d, ev)
BY DEF Verifies, RosterFor, RosterIn

\* A replay that has accepted the records M, the last of them in epoch e.
Accepted(st, M, e) == Reflects(st.committee, M) /\ st.ok /\ st.committee.epoch = e

\* One record of the replay.
LEMMA ReplayStep ==
    ASSUME NEW c, NEW L, Reflects(c, L), NEW st, NEW M, M \subseteq L, Reflects(st.committee, M),
           st.ok, NEW t \in Nat, NEW ev \in L, EpochOf(ev.height) <= EpochOf(t),
           st.committee.epoch <= EpochOf(ev.height),
           \A x \in L \ M : EpochOf(ev.height) <= EpochOf(x.height)
    PROVE  Accepted(ReplayOne(st, ev, t), M \cup {ev}, EpochOf(ev.height))
<1> DEFINE h == IF ev.height < t THEN ev.height ELSE t
           d == AdvancedTo(st.committee, h)
           e == EpochOf(ev.height)
<1>1. ev \in Evidence /\ ev.height \in Nat /\ e \in Nat /\ e <= c.epoch /\ Verifies(c, ev)
  BY EvidenceHeight DEF Reflects
\* A record of the tip's epoch may be above the tip.
<1>2. h \in Nat /\ EpochOf(h) = e
  <2>1. CASE ev.height < t
    BY <1>1, <2>1
  <2>2. CASE ~ (ev.height < t)
    <3>1. t <= ev.height /\ EpochOf(t) \in Nat
      BY <1>1, <2>2, EpochIsNatural
    <3>2. EpochOf(t) <= EpochOf(ev.height)
      BY <1>1, <3>1, EpochAscends
    <3>3. EpochOf(t) = EpochOf(ev.height)
      BY <1>1, <3>1, <3>2
    <3> QED
      BY <2>2, <3>3
  <2> QED
    BY <2>1, <2>2
<1>3. ReplayOne(st, ev, t) = [committee |-> Tombstoned(d, ev.index), ok |-> st.ok /\ Verifies(d, ev)]
  BY DEF ReplayOne, ReplayEpoch
<1> HIDE DEF h
<1>4. Reflects(d, M) /\ d.epoch = e
  BY <1>1, <1>2, AdvanceReflects
<1> HIDE DEF d
<1>5. \A k \in 0 .. e - 1 : KeysTo(L, k) = KeysTo(M, k)
  <2> TAKE k \in 0 .. e - 1
  <2>1. ASSUME NEW x \in L, EpochOf(x.height) <= k PROVE x \in M
    <3>1. EpochOf(x.height) \in Nat
      BY EvidenceHeight DEF Reflects
    <3> QED
      BY <1>1, <2>1, <3>1
  <2>2. {x \in L : EpochOf(x.height) <= k} = {x \in M : EpochOf(x.height) <= k}
    BY <2>1
  <2> QED
    BY <2>2 DEF KeysTo
<1>6. RosterIn(c, e) = RosterIn(d, e)
  <2>1. e <= d.epoch
    BY <1>1, <1>4
  <2> HIDE DEF e
  <2> QED
    BY <1>1, <1>4, <1>5, <2>1, RostersAgree
<1>7. Verifies(d, ev)
  BY <1>1, <1>6, VerifiesIn
<1>8. Reflects(Tombstoned(d, ev.index), M \cup {ev}) /\ Tombstoned(d, ev.index).epoch = e
  BY <1>1, <1>4, <1>7, TombstoneReflects
<1>9. ReplayOne(st, ev, t).committee = Tombstoned(d, ev.index)
  BY <1>3
<1>10. ReplayOne(st, ev, t).ok = (st.ok /\ Verifies(d, ev))
  BY <1>3
<1>11. ReplayOne(st, ev, t).ok
  BY <1>7, <1>10
<1> QED
  BY <1>8, <1>9, <1>11 DEF Accepted

\* replay: at its end the committee reflects the whole ledger.
LEMMA ReplayReflects ==
    ASSUME NEW c, NEW L, Reflects(c, L), IsFiniteSet(L), NEW t \in Nat,
           \A ev \in L : EpochOf(ev.height) <= EpochOf(t)
    PROVE  /\ Reflects(Replayed(L, t).committee, L) /\ Replayed(L, t).ok
           /\ Replayed(L, t).committee.epoch <= EpochOf(t)
<1> DEFINE seq == Sorted(L)
           n == Len(seq)
           g == CHOOSE f : Replays(f, seq, t, n)
           First(k) == {seq[i] : i \in 1 .. k}
           P(k) == /\ Reflects(g[1 .. k].committee, First(k)) /\ g[1 .. k].ok
                   /\ k > 0 => g[1 .. k].committee.epoch = EpochOf(seq[k].height)
                   /\ k = 0 => g[1 .. k].committee.epoch = 0
           S == {k \in Nat : k <= n => P(k)}
<1>1. L \subseteq Evidence
  BY DEF Reflects
<1>2. seq \in Seq(Evidence) /\ InOrder(seq) /\ L = First(n)
  BY <1>1, SortedLists
<1>3. n \in Nat /\ DOMAIN seq = 1 .. n
  BY <1>2
<1>4. Replays(g, seq, t, n)
  BY <1>3, ReplaysExist
<1>5. Replayed(L, t) =
        (CHOOSE f : f = [s \in SUBSET DOMAIN seq |->
            IF s = {} THEN Fresh ELSE ReplayOne(f[s \ {Max(s)}], seq[Max(s)], t)])[DOMAIN seq]
  BY DEF Replayed, FoldLeft, MapThenFoldSet, Fresh
<1>6. Replayed(L, t) = g[1 .. n]
  <2> HIDE DEF seq, n
  <2> QED
    BY <1>3, <1>5 DEF Replays, g
<1> HIDE DEF seq, n, g
<1>7. 0 \in S
  <2>1. 1 .. 0 = {} /\ {} \in SUBSET (1 .. n)
    OBVIOUS
  <2>2. g[{}] = Fresh
    BY <1>4, <2>1 DEF Replays
  <2>3. Fresh.committee = GenesisCommittee /\ Fresh.ok /\ GenesisCommittee.epoch = 0 /\ First(0) = {}
    BY <2>1 DEF Fresh, GenesisCommittee
  <2>4. Reflects(GenesisCommittee, {})
    BY GenesisReflects
  <2> HIDE DEF First
  <2>5. P(0)
    BY <2>1, <2>2, <2>3, <2>4
  <2> QED
    BY <2>5
<1>8. ASSUME NEW k \in Nat, k \in S PROVE k + 1 \in S
  <2> SUFFICES ASSUME k + 1 <= n PROVE P(k + 1)
    OBVIOUS
  <2>1. P(k)
    BY <1>3, <1>8
  <2> HIDE DEF S
  <2>2. Max(1 .. k + 1) = k + 1 /\ 1 .. k + 1 # {} /\ (1 .. k + 1) \ {k + 1} = 1 .. k
    BY TopOfRange
  <2>3. 1 .. k + 1 \in SUBSET (1 .. n) /\ k + 1 \in 1 .. n
    BY <1>3
  <2> DEFINE ev == seq[k + 1]
             st == g[1 .. k]
  <2>4. g[1 .. k + 1] = ReplayOne(st, ev, t)
    BY <1>4, <2>2, <2>3 DEF Replays
  <2>5. ev \in L /\ ev \in Evidence /\ ev.height \in Nat /\ EpochOf(ev.height) <= EpochOf(t)
    BY <1>1, <1>2, <2>3, EvidenceHeight
  <2>6. ASSUME NEW j \in 1 .. n, NEW i \in 1 .. n, i <= j
        PROVE  EpochOf(seq[i].height) <= EpochOf(seq[j].height)
    <3>1. seq[i] \in Evidence /\ seq[j] \in Evidence
      BY <1>2, <1>3
    <3>2. seq[i].height \in Nat /\ seq[j].height \in Nat
      BY <3>1, EvidenceHeight
    <3>3. seq[i].height <= seq[j].height
      <4>1. CASE i = j
        BY <3>2, <4>1
      <4>2. CASE i # j
        <5>1. i < j
          BY <2>6, <4>2
        <5>2. ~ Before(seq[j], seq[i])
          BY <1>2, <1>3, <5>1 DEF InOrder
        <5> QED
          BY <3>2, <5>2 DEF Before
      <4> QED
        BY <4>1, <4>2
    <3> QED
      BY <3>2, <3>3, EpochAscends
  <2>7. First(k) \subseteq L /\ First(k + 1) = First(k) \cup {ev}
    <3>1. 1 .. k + 1 = (1 .. k) \cup {k + 1} /\ 1 .. k \subseteq 1 .. n
      BY <2>3
    <3> QED
      BY <1>2, <3>1
  <2>8. st.committee.epoch <= EpochOf(ev.height)
    <3>1. CASE k = 0
      BY <2>1, <2>5, <3>1, EpochIsNatural
    <3>2. CASE k > 0
      <4>1. k \in 1 .. n /\ k <= k + 1
        BY <2>3, <3>2
      <4> QED
        BY <2>1, <2>3, <2>6, <3>2, <4>1
    <3> QED
      BY <3>1, <3>2
  <2>9. \A x \in L \ First(k) : EpochOf(ev.height) <= EpochOf(x.height)
    <3> TAKE x \in L \ First(k)
    <3>1. PICK j \in 1 .. n : x = seq[j]
      BY <1>2
    <3>2. k + 1 <= j
      <4> SUFFICES ASSUME j <= k PROVE FALSE
        OBVIOUS
      <4>1. j \in 1 .. k
        OBVIOUS
      <4> QED
        BY <3>1, <4>1
    <3> QED
      BY <2>3, <2>6, <3>1, <3>2
  <2>10. Reflects(st.committee, First(k)) /\ st.ok
    BY <2>1
  <2> HIDE DEF First, st, ev
  <2>11. Accepted(ReplayOne(st, ev, t), First(k) \cup {ev}, EpochOf(ev.height))
    BY <2>5, <2>7, <2>8, <2>9, <2>10, ReplayStep
  <2>12. k + 1 > 0 /\ k + 1 # 0
    OBVIOUS
  <2> QED
    BY <2>4, <2>7, <2>11, <2>12 DEF Accepted, ev
<1> HIDE DEF S
<1>9. Nat \subseteq S
  BY <1>7, <1>8, SetInduction
<1>10. P(n)
  <2>1. n \in S /\ n <= n
    BY <1>3, <1>9
  <2> HIDE DEF P
  <2> QED
    BY <2>1 DEF S
<1>11. g[1 .. n].committee.epoch <= EpochOf(t)
  <2>1. CASE n = 0
    BY <1>10, <2>1, EpochIsNatural
  <2>2. CASE n > 0
    <3>1. n \in 1 .. n
      BY <1>3, <2>2
    <3>2. seq[n] \in L /\ seq[n] \in Evidence
      BY <1>1, <1>2, <3>1
    <3> QED
      BY <1>10, <2>2, <3>2
  <2> QED
    BY <1>3, <2>1, <2>2
<1> QED
  BY <1>2, <1>6, <1>10, <1>11

-----------------------------------------------------------------------------
(* The invariant.                                                          *)

\* A chain resumes in the epoch of its last record, or later: the applied tip is not a
\* boundary behind a punished slot when the node stops.
ResumesPastRecords ==
    [][Restart => \A ev \in ledger : EpochOf(ev.height) <= EpochOf(applied)]_vars

SeenOK(votes) ==
    \A s \in DOMAIN votes :
        votes[s].block \in Block /\ (votes[s].block # "a" => votes[s].key \in Byzantine)

PInv ==
    /\ up
    /\ tip \in Nat /\ applied \in 0 .. tip /\ committee.epoch = EpochOf(tip)
    /\ Reflects(committee, ledger) /\ IsFiniteSet(ledger)
    /\ Keys(ledger) \subseteq Byzantine
    /\ SeenOK(votesSeen)

\* replay, then advance_epoch: a committee of the applied tip's epoch that reflects the
\* ledger, and with the blocks still missing the committee of the live node.
LEMMA ReopenedIsLive ==
    ASSUME PInv, \A ev \in ledger : EpochOf(ev.height) <= EpochOf(applied)
    PROVE  LET opened == Reopened(ledger, applied)
           IN  /\ opened.ok /\ Reflects(opened.committee, ledger)
               /\ opened.committee.epoch = EpochOf(applied)
               /\ AdvancedTo(opened.committee, tip) = committee
<1> DEFINE end == Replayed(ledger, applied)
           d == AdvancedTo(end.committee, applied)
           live == AdvancedTo(d, tip)
<1>1. applied \in Nat /\ tip \in Nat /\ applied <= tip
  BY DEF PInv
<1>2. Reflects(end.committee, ledger) /\ end.ok /\ end.committee.epoch <= EpochOf(applied)
  BY <1>1, ReplayReflects DEF PInv
<1>3. Reopened(ledger, applied).committee = d /\ Reopened(ledger, applied).ok = end.ok
  BY DEF Reopened
<1> HIDE DEF end
<1>4. Reflects(d, ledger) /\ d.epoch = EpochOf(applied)
  BY <1>1, <1>2, AdvanceReflects
<1> HIDE DEF d
<1>5. Reflects(live, ledger) /\ live.epoch = EpochOf(tip)
  BY <1>1, <1>4, EpochAscends, AdvanceReflects
<1> HIDE DEF live
<1>6. live = committee
  BY <1>5, SameCommittee DEF PInv
<1> QED
  BY <1>2, <1>3, <1>4, <1>6 DEF live

\* apply_evidence.
LEMMA ApplyReflects ==
    ASSUME InEpochOnly, PInv, NEW ev \in Evidence, Arrives(ev.height), ev.key \in Byzantine,
           ApplyEvidence(ev)
    PROVE  /\ Reflects(committee', ledger') /\ committee'.epoch = committee.epoch
           /\ IsFiniteSet(ledger') /\ ledger \subseteq ledger'
           /\ Keys(ledger') \subseteq Byzantine
<1>1. EpochOf(ev.height) = committee.epoch
  BY DEF Arrives
<1>2. /\ Verifies(committee, ev) /\ ledger' = Recorded(ev)
      /\ committee' = Tombstoned(committee, ev.index)
  BY DEF ApplyEvidence, Punished
<1>3. /\ Reflects(Tombstoned(committee, ev.index), ledger \cup {ev})
      /\ Tombstoned(committee, ev.index).epoch = committee.epoch
      /\ ev.key \in committee.punished => Tombstoned(committee, ev.index) = committee
  BY <1>1, <1>2, TombstoneReflects DEF PInv
<1>4. ev.index \in DOMAIN committee.roster /\ committee.roster[ev.index] = ev.key
  <2>1. committee.epoch \in Nat
    BY DEF PInv, Reflects, CommitteeSet
  <2> QED
    BY <1>1, <1>2, <2>1 DEF Verifies, RosterFor
<1>5. CASE ev.key \in committee.punished
  <2>1. ledger' = ledger /\ committee' = committee
    BY <1>2, <1>3, <1>4, <1>5 DEF Recorded
  <2> QED
    BY <2>1 DEF PInv
<1>6. CASE ev.key \notin committee.punished
  <2>1. ledger' = ledger \cup {ev}
    BY <1>2, <1>4, <1>6 DEF Recorded
  <2>2. IsFiniteSet(ledger \cup {ev})
    BY FS_AddElement DEF PInv
  <2>3. Keys(ledger \cup {ev}) = Keys(ledger) \cup {ev.key}
    BY DEF Keys
  <2> QED
    BY <1>2, <1>3, <2>1, <2>2, <2>3 DEF PInv
<1> QED
  BY <1>5, <1>6

LEMMA InitPInv == Init => PInv
<1> SUFFICES ASSUME Init PROVE PInv
  OBVIOUS
<1>1. tip = 0 /\ applied = 0 /\ committee = GenesisCommittee /\ votesSeen = << >> /\ ledger = {} /\ up
  BY DEF Init
<1>2. EpochOf(0) = 0 /\ GenesisCommittee.epoch = 0
  BY BoundAssumption DEF EpochOf, GenesisCommittee
<1>3. Reflects(GenesisCommittee, {}) /\ IsFiniteSet({}) /\ Keys({}) = {}
  BY GenesisReflects, FS_EmptySet DEF Keys
<1>4. SeenOK(<< >>)
  BY DEF SeenOK
<1> QED
  BY <1>1, <1>2, <1>3, <1>4 DEF PInv

\* Each step keeps the invariant.
LEMMA NextPInv ==
    ASSUME InEpochOnly, PInv, [Next]_vars,
           Restart => \A ev \in ledger : EpochOf(ev.height) <= EpochOf(applied)
    PROVE  PInv'
<1>1. /\ tip \in Nat /\ applied \in 0 .. tip /\ committee.epoch = EpochOf(tip)
      /\ Reflects(committee, ledger)
  BY DEF PInv
<1>2. CASE NewTip
  <2>1. /\ tip' = tip + 1 /\ committee' = AdvancedTo(committee, tip')
        /\ UNCHANGED <<applied, votesSeen, ledger, up>>
    BY <1>2 DEF NewTip
  <2>2. tip + 1 \in Nat /\ EpochOf(tip) <= EpochOf(tip + 1)
    BY <1>1, EpochAscends
  <2>3. Reflects(AdvancedTo(committee, tip + 1), ledger)
        /\ AdvancedTo(committee, tip + 1).epoch = EpochOf(tip + 1)
    BY <1>1, <2>2, AdvanceReflects
  <2>4. applied \in 0 .. tip + 1
    BY <1>1
  <2>5. committee' = AdvancedTo(committee, tip + 1)
    BY <2>1
  <2> QED
    BY <2>1, <2>2, <2>3, <2>4, <2>5 DEF PInv
<1>3. ASSUME NEW v \in Vote, ObserveVote(v) PROVE PInv'
  <2> DEFINE slot == <<v.height, v.index>>
             ev == [height |-> v.height, index |-> v.index, key |-> v.key]
             conflict == slot \in DOMAIN votesSeen /\ votesSeen[slot].block # v.block
                                                   /\ votesSeen[slot].key = v.key
  <2>1. /\ Arrives(v.height)
        /\ v.key \in Byzantine \/ v.block = "a"
        /\ votesSeen' = IF slot \in DOMAIN votesSeen THEN votesSeen
                        ELSE [s \in DOMAIN votesSeen \cup {slot} |->
                                 IF s = slot THEN [key |-> v.key, block |-> v.block]
                                 ELSE votesSeen[s]]
        /\ IF conflict THEN ApplyEvidence(ev) ELSE UNCHANGED <<ledger, committee>>
        /\ UNCHANGED <<tip, applied, up>>
    BY <1>3 DEF ObserveVote
  <2>2. v.block \in Block /\ ev \in Evidence /\ ev.height = v.height /\ ev.key = v.key
    BY DEF Vote, Evidence
  <2>3. SeenOK(votesSeen')
    <3>1. CASE slot \in DOMAIN votesSeen
      BY <2>1, <3>1 DEF PInv
    <3>2. CASE slot \notin DOMAIN votesSeen
      <4> DEFINE new == [s \in DOMAIN votesSeen \cup {slot} |->
                            IF s = slot THEN [key |-> v.key, block |-> v.block] ELSE votesSeen[s]]
      <4>1. votesSeen' = new
        BY <2>1, <3>2
      <4>2. SeenOK(new)
        <5> SUFFICES ASSUME NEW s \in DOMAIN votesSeen \cup {slot}
                     PROVE  new[s].block \in Block /\ (new[s].block # "a" => new[s].key \in Byzantine)
          BY DEF SeenOK
        <5>1. CASE s = slot
          <6>1. new[s] = [key |-> v.key, block |-> v.block]
            BY <5>1
          <6> HIDE DEF new
          <6>2. new[s].key = v.key /\ new[s].block = v.block
            BY <6>1
          <6> QED
            BY <2>1, <2>2, <6>2
        <5>2. CASE s # slot
          <6>1. s \in DOMAIN votesSeen /\ new[s] = votesSeen[s]
            BY <5>2
          <6> HIDE DEF new
          <6> QED
            BY <6>1 DEF PInv, SeenOK
        <5> QED
          BY <5>1, <5>2
      <4> QED
        BY <4>1, <4>2
    <3> QED
      BY <3>1, <3>2
  \* Two blocks of one key: one of the votes is not for "a".
  <2>4. CASE conflict
    <3>1. v.key \in Byzantine
      BY <2>1, <2>4 DEF PInv, SeenOK
    <3>2. ApplyEvidence(ev)
      BY <2>1, <2>4
    <3>3. Arrives(ev.height) /\ ev.key \in Byzantine
      BY <2>1, <2>2, <3>1
    <3>4. ev \in Evidence
      BY <2>2
    <3> HIDE DEF ev
    <3>5. /\ Reflects(committee', ledger') /\ committee'.epoch = committee.epoch
          /\ IsFiniteSet(ledger') /\ ledger \subseteq ledger'
          /\ Keys(ledger') \subseteq Byzantine
      BY <3>2, <3>3, <3>4, ApplyReflects
    <3> QED
      BY <1>1, <2>1, <2>3, <3>5 DEF PInv
  <2>5. CASE ~ conflict
    <3>1. UNCHANGED <<ledger, committee, tip, applied, up>>
      BY <2>1, <2>5
    <3> QED
      BY <2>3, <3>1 DEF PInv
  <2> QED
    BY <2>4, <2>5
<1>4. ASSUME NEW ev \in Evidence, OnEvidence(ev) PROVE PInv'
  <2>1. /\ Arrives(ev.height) /\ ev.key \in Byzantine /\ ApplyEvidence(ev)
        /\ UNCHANGED <<tip, applied, votesSeen, up>>
    BY <1>4 DEF OnEvidence
  <2>2. /\ Reflects(committee', ledger') /\ committee'.epoch = committee.epoch
        /\ IsFiniteSet(ledger') /\ ledger \subseteq ledger'
        /\ Keys(ledger') \subseteq Byzantine
    BY <2>1, ApplyReflects
  <2> QED
    BY <1>1, <2>1, <2>2 DEF PInv
<1>5. CASE Restart
  <2>1. /\ up' = Reopened(ledger, applied).ok /\ tip' = applied
        /\ committee' = Reopened(ledger, applied).committee
        /\ votesSeen' = << >> /\ UNCHANGED <<applied, ledger>>
    BY <1>5 DEF Restart
  <2>2. /\ Reopened(ledger, applied).ok /\ Reflects(Reopened(ledger, applied).committee, ledger)
        /\ Reopened(ledger, applied).committee.epoch = EpochOf(applied)
    BY <1>5, ReopenedIsLive
  <2>3. applied \in Nat /\ applied \in 0 .. applied
    BY <1>1
  <2>4. SeenOK(<< >>)
    BY DEF SeenOK
  <2> QED
    BY <2>1, <2>2, <2>3, <2>4 DEF PInv
<1>7. CASE ApplyBody
  <2>1. applied' = applied + 1 /\ applied < tip /\ UNCHANGED <<tip, committee, votesSeen, ledger, up>>
    BY <1>7 DEF ApplyBody
  <2>2. applied + 1 \in 0 .. tip
    BY <1>1, <2>1
  <2> QED
    BY <2>1, <2>2 DEF PInv
<1>6. CASE UNCHANGED vars
  BY <1>6 DEF vars, PInv
<1> QED
  BY <1>2, <1>3, <1>4, <1>5, <1>6, <1>7 DEF Next

LEMMA PunishmentInvariant ==
    ASSUME InEpochOnly
    PROVE  Spec /\ ResumesPastRecords => []PInv
<1> DEFINE A == Restart => \A ev \in ledger : EpochOf(ev.height) <= EpochOf(applied)
<1>1. PInv /\ [Next]_vars /\ [A]_vars => PInv'
  <2> SUFFICES ASSUME PInv, [Next]_vars, [A]_vars PROVE PInv'
    OBVIOUS
  <2>1. CASE A
    BY <2>1, NextPInv
  <2>2. CASE UNCHANGED vars
    BY <2>2 DEF vars, PInv
  <2> QED
    BY <2>1, <2>2
<1> HIDE DEF A
<1>2. Spec /\ [][A]_vars => []PInv
  BY <1>1, InitPInv, PTL DEF Spec
<1> QED
  BY <1>2 DEF A, ResumesPastRecords

-----------------------------------------------------------------------------

\* A node restarted now, however far its bodies are behind its headers, opens its ledger
\* and catches up to the live committee (replay, punish.rs): rosters of all epochs,
\* tombstones and bonds.  The one condition is that of the conclusion: no record is in
\* an epoch after the applied tip's, now and at the restarts before.
THEOREM ReplayIsExact ==
    ASSUME InEpochOnly
    PROVE  Spec /\ ResumesPastRecords => []RestartReproducesCommittee
<1>1. PInv => RestartReproducesCommittee
  BY ReopenedIsLive DEF RestartReproducesCommittee
<1> QED
  BY <1>1, PunishmentInvariant, PTL

\* Honest members keep their seats in every epoch.
LEMMA HonestSeated ==
    ASSUME NEW c, NEW L, Reflects(c, L), Keys(L) \subseteq Byzantine
    PROVE  Member \ Byzantine \subseteq ToSet(c.roster)
<1> DEFINE S == {k \in Nat : k <= c.epoch =>
                   RosterIn(c, k) \in Seq(Member) /\ Member \ Byzantine \subseteq ToSet(RosterIn(c, k))}
<1>1. c.epoch \in Nat
  BY DEF Reflects, CommitteeSet
<1>2. 0 \in S
  <2>1. RosterIn(c, 0) = GenesisRoster /\ GenesisRoster \in Seq(Member) /\ Member = ToSet(GenesisRoster)
    BY RosterAssumption DEF Reflects, Member
  <2> HIDE DEF Member
  <2> QED
    BY <2>1
<1>3. ASSUME NEW k \in Nat, k \in S PROVE k + 1 \in S
  <2> SUFFICES ASSUME k + 1 <= c.epoch
               PROVE  /\ RosterIn(c, k + 1) \in Seq(Member)
                      /\ Member \ Byzantine \subseteq ToSet(RosterIn(c, k + 1))
    OBVIOUS
  <2>1. RosterIn(c, k) \in Seq(Member) /\ Member \ Byzantine \subseteq ToSet(RosterIn(c, k))
    BY <1>1, <1>3
  <2> HIDE DEF S
  <2>2. k \in 0 .. c.epoch - 1
    BY <1>1
  <2>3. RosterIn(c, k + 1) = Without(RosterIn(c, k), KeysTo(L, k))
    BY <2>2 DEF Reflects
  <2>4. KeysTo(L, k) \subseteq Byzantine
    BY DEF KeysTo, Keys
  <2>5. /\ Without(RosterIn(c, k), KeysTo(L, k)) \in Seq(Member)
        /\ ToSet(Without(RosterIn(c, k), KeysTo(L, k))) = ToSet(RosterIn(c, k)) \ KeysTo(L, k)
    BY <2>1, WithoutLeaves
  <2> QED
    BY <2>1, <2>3, <2>4, <2>5
<1> HIDE DEF S
<1>4. Nat \subseteq S
  BY <1>2, <1>3, SetInduction
<1>5. Member \ Byzantine \subseteq ToSet(RosterIn(c, c.epoch))
  BY <1>1, <1>4 DEF S
<1>6. RosterIn(c, c.epoch) = c.roster
  BY <1>1 DEF RosterIn
<1> QED
  BY <1>5, <1>6

\* Only members that signed two checkpoints of a height are ever tombstoned, lose
\* their seat or a tenth of their bond (apply_evidence), and that once.
THEOREM HonestUnpunished ==
    ASSUME InEpochOnly
    PROVE  Spec /\ ResumesPastRecords => []OnlyEquivocatorsPunished
<1>1. ASSUME PInv PROVE OnlyEquivocatorsPunished
  <2>1. Reflects(committee, ledger) /\ Keys(ledger) \subseteq Byzantine
    BY <1>1 DEF PInv
  <2>2. committee.punished \subseteq Byzantine
    BY <2>1 DEF Reflects
  <2>3. Member \ Byzantine \subseteq ToSet(committee.roster)
    BY <2>1, HonestSeated
  <2>4. \A m \in Member : committee.bond[m] =
            IF m \in committee.punished THEN Bond - Bond \div 10 ELSE Bond
    BY <2>1 DEF Reflects, BondAfter
  <2> QED
    BY <2>2, <2>3, <2>4 DEF OnlyEquivocatorsPunished
<1> QED
  BY <1>1, PunishmentInvariant, PTL

\* No record is ever removed.
LEMMA LedgerGrows ==
    ASSUME [Next]_vars
    PROVE  ledger \subseteq ledger'
<1>1. ASSUME NEW ev, ApplyEvidence(ev) PROVE ledger \subseteq ledger'
  BY <1>1 DEF ApplyEvidence, Recorded
<1>2. ASSUME NEW v \in Vote, ObserveVote(v) PROVE ledger \subseteq ledger'
  BY <1>1, <1>2 DEF ObserveVote
<1>3. ASSUME NEW ev \in Evidence, OnEvidence(ev) PROVE ledger \subseteq ledger'
  BY <1>1, <1>3 DEF OnEvidence
<1>4. ASSUME NewTip \/ ApplyBody \/ Restart PROVE ledger \subseteq ledger'
  BY <1>4 DEF NewTip, ApplyBody, Restart
<1>5. ASSUME UNCHANGED vars PROVE ledger \subseteq ledger'
  BY <1>5 DEF vars
<1> QED
  BY <1>2, <1>3, <1>4, <1>5 DEF Next

\* A tombstone outlives boundaries and restarts: the committee's tombstones are those
\* of the ledger, from which nothing is removed.
THEOREM TombstonesStay ==
    ASSUME InEpochOnly
    PROVE  Spec /\ ResumesPastRecords => TombstonesArePermanent
<1> DEFINE A == committee.punished \subseteq committee'.punished
<1>1. PInv /\ PInv' /\ [Next]_vars => [A]_vars
  <2> SUFFICES ASSUME PInv, PInv', [Next]_vars PROVE committee.punished \subseteq committee'.punished
    OBVIOUS
  <2>1. committee.punished = Keys(ledger) /\ committee'.punished = Keys(ledger')
    BY DEF PInv, Reflects
  <2>2. Keys(ledger) \subseteq Keys(ledger')
    BY LedgerGrows DEF Keys
  <2> QED
    BY <2>1, <2>2
<1> QED
  BY <1>1, PunishmentInvariant, PTL DEF Spec, TombstonesArePermanent
=============================================================================
