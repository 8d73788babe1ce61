---------------------------- MODULE SnapshotResume ----------------------------
(***************************************************************************)
(* A restart that reads a snapshot instead of replaying the whole log      *)
(* (qlab-node: open_inner, resume_from_snapshot, resume_near_tip).         *)
(*                                                                         *)
(* Everything the state machine derives from its blocks (commitment tree,  *)
(* nullifiers, anchors; the name registry) is represented by the line of   *)
(* blocks it was folded from, so that "the state of this chain" can be     *)
(* told from "the state of a branch this node left".  The node that writes *)
(* the log and the snapshots is NodeHeads: a snapshot is taken at any      *)
(* moment of its life, on any branch, and the two files it consists of     *)
(* (snapshot.bin, then names.bin) may be torn apart by a crash or a failed *)
(* write between them.                                                     *)
(*                                                                         *)
(* Simplifications: both files decode and are of this genesis (a file that *)
(* does not is the same as none); the Annulet registry and the bodies kept *)
(* for serving after a rewind are not represented.                         *)
(***************************************************************************)
EXTENDS NodeHeads

CONSTANT MaxTorn \* bound: snapshots whose second file was not written

ASSUME TornAssumption == MaxTorn \in Nat
\* insert_header refuses a header whose height is not its parent's plus one.
ASSUME HeightsAssumption ==
    \A h \in Hash \ {Genesis} : Tree[h].height = HeightIn(Tree[h].prev) + 1

VARIABLES
    tree,     \* the line the commitment tree and the nullifiers are folded from
    names,    \* the line the name registry is folded from
    snap,     \* snapshot.bin
    sidecar,  \* names.bin
    durable,  \* durable_snapshot: the height the run loop believes is on disk, or -1
    torn      \* names.bin writes that did not happen so far

snapVars == <<tree, names, snap, sidecar, durable, torn>>
resumeVars == <<nodeVars, snapVars>>

\* tip = NoHash: the file is absent.
Snapshot == [tip : Hash \cup {NoHash}, final : Hash \cup {NoHash}, tree : Seq(Hash)]
NoSnapshot == [tip |-> NoHash, final |-> NoHash, tree |-> <<>>]
\* height = -1: the file is absent.
Sidecar == [height : -1 .. MaxHeight, names : Seq(Hash)]
NoSidecar == [height |-> -1, names |-> <<Genesis>>]

ResumeTypeOK ==
    /\ NodeTypeOK
    /\ tree \in Seq(Hash) /\ names \in Seq(Hash)
    /\ snap \in Snapshot
    /\ sidecar \in Sidecar
    /\ durable \in -1 .. MaxHeight
    /\ torn \in 0 .. MaxTorn

\* SnapshotOnDisk::height, -1 for none.
SnapHeight(s) == IF s.tip = NoHash THEN -1 ELSE HeightIn(s.tip)

-----------------------------------------------------------------------------
(* Folding blocks into the derived state.                                  *)

\* apply_state appends to the derived state; rewind_to folds it again from genesis.
Refolded(derived, old, new) ==
    IF IsPrefix(old, new) THEN derived \o SubSeq(new, Len(old) + 1, Len(new)) ELSE new

\* apply_logged_block or set_finalized, with the derived state.
ResumedRecord(s, r) ==
    LET t == LoggedRecord(s, r)
    IN  [t EXCEPT !.tree = Refolded(s.tree, s.line, t.line),
                  !.names = Refolded(s.names, s.line, t.line)]

\* The near-tip tail: a block whose rewind is refused is skipped.
TailRecord(s, r) == LET t == ResumedRecord(s, r) IN IF t.ok THEN t ELSE s

-----------------------------------------------------------------------------
(* The three ways to resume.                                               *)

IsBlock(r) == r.kind = "block"
LoggedBlocks(records) == {r.hash : r \in {q \in ToSet(records) : IsBlock(q)}}
LoggedFinals(records) == {r.hash : r \in {q \in ToSet(records) : ~ IsBlock(q)}}

InPrefix(r, n) == IsBlock(r) /\ HeightIn(r.hash) <= n

\* Mutant: finalizations of blocks the snapshot holds are not replayed.
AboveSnapshot(r, n) == HeightIn(r.hash) > n

\* Blocks above the snapshot, and every finalization.
InTail(r, n) == ~ InPrefix(r, n)

\* The line from genesis to each block of the tree.
LineOf[h \in Hash] == IF h = Genesis THEN <<Genesis>> ELSE Append(LineOf[Tree[h].prev], h)

\* load_names_at: no sidecar is an empty registry; one of another height is refused.
SidecarFits(side, n) == side.height \in {-1, n}

\* restore_finalized, and the log holds the finalization.
FinalRestores(records, s, line) ==
    s.final # NoHash => s.final \in ToSet(line) /\ s.final \in LoggedFinals(records)

Start(line, s, side) ==
    [line |-> line, final |-> s.final, tree |-> s.tree, names |-> side.names, ok |-> TRUE]

\* resume_by_replay.
ByReplay(records) ==
    FoldLeft(ResumedRecord,
             [line |-> <<Genesis>>, final |-> NoHash, tree |-> <<Genesis>>,
              names |-> <<Genesis>>, ok |-> TRUE], records)

\* The prefix loop of resume_from_snapshot: the chain store the records at or
\* below the snapshot's height rebuild.
PrefixStore(records, n) ==
    FoldLeft(LAMBDA s, r : IF InPrefix(r, n) THEN LoggedRecord(s, r) ELSE s,
             [line |-> <<Genesis>>, final |-> NoHash, ok |-> TRUE], records)

\* The tail loop of resume_from_snapshot.
TailReplayed(start, records, n) ==
    FoldLeft(LAMBDA s, r : IF InTail(r, n) THEN ResumedRecord(s, r) ELSE s, start, records)

\* The tail loop of resume_near_tip.
TailSkipped(start, records, n) ==
    FoldLeft(LAMBDA s, r : IF InTail(r, n) THEN TailRecord(s, r) ELSE s, start, records)

\* Mutant: the rebuilt prefix is not compared with the snapshot's tip.
PrefixRebuilt(records, s, n) == PrefixStore(records, n).ok

\* The prefix ends on the snapshot's tip: no RewindRefused, no TipDisagreement.
PrefixAgrees(records, s, n) ==
    LET p == PrefixStore(records, n) IN p.ok /\ Last(p.line) = s.tip

\* The last logged finalization of a logged block, or NoHash.
LastFinal(records) ==
    LET logged == LoggedBlocks(records)
    IN  FoldLeft(LAMBDA f, r : IF ~ IsBlock(r) /\ r.hash \in logged THEN r.hash ELSE f,
                 NoHash, records)

\* Mutant: any finalization at or above the snapshot's height is taken as proof.
FinalityReached(records, s, n) ==
    /\ n > 0
    /\ LastFinal(records) # NoHash /\ HeightIn(LastFinal(records)) >= n
    /\ ToSet(LineOf[s.tip]) \subseteq LoggedBlocks(records) \cup {Genesis}
    /\ FinalRestores(records, s, LineOf[s.tip])

\* resume_near_tip (1), (3), (4): the log's finalizations prove the snapshot's tip.
NearTipProven(records, s, n) ==
    LET f == LastFinal(records)
    IN  /\ n > 0
        /\ f # NoHash /\ HeightIn(f) >= n
        /\ LineOf[f][n + 1] = s.tip
        /\ ToSet(LineOf[f]) \subseteq LoggedBlocks(records) \cup {Genesis}
        /\ FinalRestores(records, s, LineOf[s.tip])

\* resume_near_tip, once its proof is given, or the full replay.
NearTip(records, s, side, n) ==
    IF NearTipProven(records, s, n)
    THEN TailSkipped(Start(LineOf[s.tip], s, side), records, n)
    ELSE ByReplay(records)

\* open_inner: the state a restart resumes with; ok is FALSE when it refuses to open.
Opened(records, s, side) ==
    LET n       == SnapHeight(s)
        line    == PrefixStore(records, n).line
        resumed == TailReplayed(Start(line, s, side), records, n)
    IN  CASE s.tip = NoHash \/ ~ SidecarFits(side, n) -> ByReplay(records)
          [] s.tip # NoHash /\ SidecarFits(side, n) /\ ~ PrefixAgrees(records, s, n) ->
                NearTip(records, s, side, n)
          [] OTHER ->
                IF ~ FinalRestores(records, s, line) THEN [resumed EXCEPT !.ok = FALSE]
                ELSE IF resumed.ok THEN resumed
                ELSE NearTip(records, s, side, n)

-----------------------------------------------------------------------------
(* Writing snapshots.                                                      *)

CurrentSnapshot == [tip |-> Last(applied), final |-> stateFinal, tree |-> tree]
CurrentSidecar == [height |-> HeightOfLine(applied), names |-> names]

\* save_snapshot: snapshot.bin is replaced, then names.bin, unless the process dies
\* or the write fails between the two.
Saved(s, side, lost) ==
    /\ s = CurrentSnapshot
    /\ IF lost THEN side = sidecar /\ torn < MaxTorn /\ torn' = torn + 1
       ELSE side = CurrentSidecar /\ torn' = torn

\* maintain_snapshot: only when the applied height differs from the durable one,
\* which is noted when both writes succeeded.
MaintainSnapshot(lost) ==
    /\ HeightOfLine(applied) # durable
    /\ Saved(snap', sidecar', lost)
    /\ durable' = IF lost THEN durable ELSE HeightOfLine(applied)
    /\ UNCHANGED <<nodeVars, tree, names>>

\* The node opens again on what is on disk.
OpenOn(records, s, side) ==
    \E o \in {Opened(records, s, side)} :
        /\ Adopt(o, records)
        /\ tree' = o.tree /\ names' = o.names
        /\ snap' = s /\ sidecar' = side
        /\ durable' = SnapHeight(s)

\* The process dies.
Crash == OpenOn(log, snap, sidecar) /\ UNCHANGED torn

\* The process dies inside a drain.
CrashInDrainAfter(h) ==
    /\ h \in Known
    /\ LET held  == Buffered(h)
           kept  == Rejoined(mainChain, applied, held)
           after == Drained(kept, Grown(blocks, kept, held), held)
       IN  \E n \in 1 .. Len(after.records) - 1 :
              OpenOn(log \o SubSeq(after.records, 1, n), snap, sidecar)
    /\ UNCHANGED torn

\* run_until ends: the snapshot is flushed whatever its height, and the node starts
\* again.
Shutdown(lost) ==
    \E s \in {CurrentSnapshot}, side \in {sidecar, CurrentSidecar} :
        Saved(s, side, lost) /\ OpenOn(log, s, side)

-----------------------------------------------------------------------------

ResumeInit ==
    /\ NodeInit
    /\ tree = <<Genesis>> /\ names = <<Genesis>>
    /\ snap = NoSnapshot /\ sidecar = NoSidecar
    /\ durable = -1
    /\ torn = 0

\* A block handler, with the derived state it leaves.
Folds ==
    /\ tree' = Refolded(tree, applied, applied')
    /\ names' = Refolded(names, applied, applied')
    /\ UNCHANGED <<snap, sidecar, durable, torn>>

ResumeNext ==
    \/ \E h \in Hash \ {Genesis} : SubmitHeader(h) /\ UNCHANGED snapVars
    \/ \E h \in Hash \ {Genesis} : IngestBlock(h) /\ Folds
    \/ \E cp \in FinalLine : IngestVotes(cp) /\ UNCHANGED snapVars
    \/ \E lost \in BOOLEAN : MaintainSnapshot(lost)
    \/ \E lost \in BOOLEAN : Shutdown(lost)
    \/ Crash
    \/ \E h \in Hash \ {Genesis} : CrashInDrainAfter(h)

ResumeSpec == ResumeInit /\ [][ResumeNext]_resumeVars

-----------------------------------------------------------------------------
(* Properties.                                                             *)

\* The commitment tree and the nullifiers are those of the applied chain, whatever
\* branch the snapshot was taken on ("derived state for the wrong branch, and
\* nothing downstream would notice", resume_from_snapshot).
StateOfItsChain == tree = applied

\* A resume reaches what the log's replay reaches, with the same finalized head; it
\* may only be ahead of it (open_inner: "identical to a from-genesis replay").  So it is
\* at the first restart; after one that went ahead, not always (README, section 3).
ResumeReachesReplay ==
    [][restarts' # restarts =>
          LET r == Replayed(log')
          IN  r.ok => IsPrefix(r.line, applied') /\ r.final = stateFinal']_resumeVars

\* "A snapshot that the log does not corroborate is a REJECTION, not an error: the
\* full replay below is always correct" (open_inner): a node whose disk never failed
\* can be started again.
OpensAgain == Opened(log, snap, sidecar).ok

\* No rewind (rewind_path, RewindError::PastFinalized), crash or restart, from a
\* snapshot or not, undoes a block at or below the durable finalized head.  This too
\* holds up to a second restart.
ResumeKeepsFinality == DP!Spec

-----------------------------------------------------------------------------
(* A claim of the code's comments that does not hold (README, section 3).  *)

\* The registry is that of the applied chain: a sidecar that does not belong beside
\* the snapshot "must be detectable, not guessed across" (NamesSidecar).
NamesOfItsChain == names = applied
=============================================================================
