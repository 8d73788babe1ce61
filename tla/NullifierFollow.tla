--------------------------- MODULE NullifierFollow ---------------------------
(***************************************************************************)
(* The landed nullifiers of the Annulet proving service                    *)
(* (qumbra-prover-service, annulet_v3.rs and nullifier_store.rs): a thread *)
(* polls the pinned node and extends, rolls back or rebuilds the set, which*)
(* an append-only file keeps across restarts.                              *)
(*                                                                         *)
(* Every read of the node is a step of its own, and the node's chain may   *)
(* change between any two of them.  A file append and the change of the    *)
(* set in memory it announces are one step: admission reads only memory,   *)
(* and a crash between the two leaves what a crash after both leaves.  A   *)
(* crash inside an append leaves some of its lines; the torn last line is  *)
(* cut away on opening.  Time is left out but for the one slot after which *)
(* a set is stale.                                                         *)
(***************************************************************************)
EXTENDS Integers, FiniteSets, FiniteSetsExt, SequencesExt

CONSTANTS
    Tree,           \* the node's blocks: [Block -> [height, prev, nullifiers]]
    Genesis,        \* the block at height 0: it spends nothing and is not in Tree
    Moves,          \* the pairs <<from, to>> by which the node's tip may grow
    ReorgWindow,    \* REORG_WINDOW
    HeadersPage,    \* HEADERS_PAGE
    MaxFalls,       \* bound: times the node's tip falls back to its parent
    MaxFailedPolls, \* bound: polls that fail for want of an answer or of a write
    MaxRestarts     \* bound: crashes of the service

Block == DOMAIN Tree
Height(b) == IF b = Genesis THEN 0 ELSE Tree[b].height

\* The branch that ends in b, from height 1 on, and what its blocks spend.
BranchTo[b \in Block \cup {Genesis}] ==
    IF b = Genesis THEN <<>> ELSE Append(BranchTo[Tree[b].prev], b)
NullifiersTo(b) == UNION {Tree[a].nullifiers : a \in ToSet(BranchTo[b])}

ASSUME TreeAssumption ==
    /\ Genesis \notin Block
    /\ \A b \in Block : /\ Tree[b].prev \in Block \cup {Genesis}
                        /\ Height(b) \in Nat \ {0} /\ Height(b) = Height(Tree[b].prev) + 1
\* "The double-spend rule puts a nullifier in at most one block" of a chain.
ASSUME SpentOnceAssumption == \A b \in Block : Tree[b].nullifiers \cap NullifiersTo(Tree[b].prev) = {}
ASSUME MovesAssumption == Moves \subseteq (Block \cup {Genesis}) \X Block
ASSUME FollowBounds ==
    /\ ReorgWindow \in Nat /\ HeadersPage \in Nat \ {0}
    /\ MaxFalls \in Nat /\ MaxFailedPolls \in Nat /\ MaxRestarts \in Nat

VARIABLES
    nodeTip,   \* the tip of the chain the node serves
    falls,
    set,       \* Followed.set: [landed, height, window], the window oldest first
    caughtUp,  \* Followed.caught_up_at: "never", "fresh" (within a slot) or "stale"
    poll,      \* the poll under way: its stage, the tip it read, the page it holds
    store,     \* the file: [header, lines]
    up,        \* FALSE when opening the file refused the start-up
    failures, restarts

followVars == <<nodeTip, falls, set, caughtUp, poll, store, up, failures, restarts>>

\* GET /v1/headers and /v1/nullifiers: the main-chain blocks of from .. to.
Served(from, to) == SubSeq(BranchTo[nodeTip], from, Min({to, Height(nodeTip)}))

-----------------------------------------------------------------------------
(* Replayed: the landed set and its window; the file and its replay.       *)

EmptySet == [landed |-> {}, height |-> 0, window |-> <<>>]
Corrupt == [landed |-> {}, height |-> -1, window |-> <<>>]
FreshStore == [header |-> TRUE, lines |-> <<>>]
NoPoll == [stage |-> "idle", tip |-> 0, links |-> <<>>, page |-> <<>>]

BlockLine(b, nullifiers) == [height |-> Tree[b].height, id |-> b, nullifiers |-> nullifiers]
RollbackLine(a) == [rollback |-> a]
IsRollback(line) == "rollback" \in DOMAIN line

\* Replayed::push: the window keeps the last ReorgWindow + 1 blocks.
Push(s, line) ==
    LET window == Append(s.window, line)
    IN [landed |-> s.landed \cup line.nullifiers,
        height |-> line.height,
        window |-> IF Len(window) > ReorgWindow + 1 THEN Tail(window) ELSE window]

\* Where Replayed::roll_back_to moves the set, and what it makes of it.
CanRollBack(s, a) ==
    a <= s.height /\ a + 1 >= (IF s.window = <<>> THEN s.height + 1 ELSE Head(s.window).height)
RollBackTo(s, a) ==
    LET keep == Max({0} \cup {i \in DOMAIN s.window : s.window[i].height <= a})
    IN [landed |-> s.landed \ UNION {s.window[i].nullifiers : i \in keep + 1 .. Len(s.window)},
        height |-> a,
        window |-> SubSeq(s.window, 1, keep)]

\* One line of NullifierStore::open: a rollback outside the window or a height out of
\* order is `store-corrupt`, and refuses the start-up.
ReplayLine(r, line) ==
    CASE r # Corrupt /\ IsRollback(line) /\ CanRollBack(r, line.rollback) ->
            RollBackTo(r, line.rollback)
      [] r # Corrupt /\ ~ IsRollback(line) /\ line.height = r.height + 1 -> Push(r, line)
      [] OTHER -> Corrupt

\* NullifierStore::open: a file without its header line is refused too.
Replay(file) ==
    IF file.header THEN FoldLeft(ReplayLine, EmptySet, file.lines) ELSE Corrupt

FollowInit ==
    /\ nodeTip = Genesis /\ falls = 0
    /\ set = EmptySet /\ caughtUp = "never" /\ poll = NoPoll
    /\ store = FreshStore /\ up = TRUE
    /\ failures = 0 /\ restarts = 0

-----------------------------------------------------------------------------
(* The node.                                                               *)

\* Fork choice on an Annulet net: a longer branch takes over.
ChainMoves(b) ==
    /\ <<nodeTip, b>> \in Moves /\ Height(b) > Height(nodeTip)
    /\ nodeTip' = b
    /\ UNCHANGED <<falls, set, caughtUp, poll, store, up, failures, restarts>>

\* The node is restarted, or replaced by one that is a block behind.
ChainFalls ==
    /\ nodeTip # Genesis /\ falls < MaxFalls
    /\ nodeTip' = Tree[nodeTip].prev
    /\ falls' = falls + 1
    /\ UNCHANGED <<set, caughtUp, poll, store, up, failures, restarts>>

-----------------------------------------------------------------------------
(* NullifierFollow::poll.                                                  *)

Next1 == set.height + 1
PageEnd == Min({poll.tip, Next1 + HeadersPage - 1})

\* poll, step 1: the tip.  reconcile keeps an empty set.
PollTip ==
    /\ up /\ poll.stage = "idle"
    /\ poll' = [NoPoll EXCEPT !.stage = IF set.height = 0 THEN "extend" ELSE "reconcile",
                              !.tip = Height(nodeTip)]
    /\ UNCHANGED <<nodeTip, falls, set, caughtUp, store, up, failures, restarts>>

\* reconcile: is the followed block still the node's?
Reconcile ==
    /\ poll.stage = "reconcile"
    /\ poll' = [poll EXCEPT !.stage =
          IF poll.tip >= set.height /\ Served(set.height, set.height) = <<Last(set.window).id>>
          THEN "extend" ELSE "walk"]
    /\ UNCHANGED <<nodeTip, falls, set, caughtUp, store, up, failures, restarts>>

\* reconcile: the heights of the window, at most `top`, whose block the node still
\* serves; height 0 when the window reaches down to the first block.
Top == Min({set.height, poll.tip})
CommonHeights ==
    IF set.window = <<>> \/ Head(set.window).height > Top THEN {}
    ELSE {w.height : w \in {v \in ToSet(set.window) :
                               v.height <= Top /\ Served(v.height, v.height) = <<v.id>>}}
         \cup (IF Head(set.window).height = 1 THEN {0} ELSE {})

\* reconcile: back to the common block, the file first.
RollBack ==
    /\ poll.stage = "walk" /\ CommonHeights # {}
    /\ LET a == Max(CommonHeights)
       IN /\ store' = [store EXCEPT !.lines = Append(@, RollbackLine(a))]
          /\ set' = RollBackTo(set, a)
    /\ poll' = [poll EXCEPT !.stage = "extend"]
    /\ UNCHANGED <<nodeTip, falls, caughtUp, up, failures, restarts>>

\* Mutant: a poll that finds no common block only reports it.
RebuildReported ==
    /\ poll.stage = "walk" /\ CommonHeights = {}
    /\ caughtUp' = "never" /\ poll' = NoPoll
    /\ UNCHANGED <<nodeTip, falls, set, store, up, failures, restarts>>

\* reconcile: no common block in the window: the file and the set are emptied, and
\* the poll ends in `reorg-deeper-than`.
Rebuild ==
    /\ poll.stage = "walk" /\ CommonHeights = {}
    /\ store' = FreshStore /\ set' = EmptySet
    /\ caughtUp' = "never" /\ poll' = NoPoll
    /\ UNCHANGED <<nodeTip, falls, up, failures, restarts>>

\* poll, step 3: the headers of the next page.
ReadHeaders ==
    /\ poll.stage = "extend" /\ Next1 <= poll.tip
    /\ poll' = [poll EXCEPT !.stage = "links", !.links = Served(Next1, PageEnd)]
    /\ UNCHANGED <<nodeTip, falls, set, caughtUp, store, up, failures, restarts>>

\* poll: each block's `prev` is the id before it.
Linked(links) ==
    \A i \in DOMAIN links :
        IF i > 1 THEN Tree[links[i]].prev = links[i - 1]
        ELSE set.window # <<>> => Tree[links[i]].prev = Last(set.window).id

\* poll: the nullifiers of the same heights, paired with the headers read before.
ReadNullifiers ==
    /\ poll.stage = "links"
    /\ LET blocks == Served(Next1, PageEnd)
           n == Len(blocks)
           paired == [i \in 1 .. n |-> BlockLine(poll.links[i], Tree[blocks[i]].nullifiers)]
       IN poll' = IF n > 0 /\ Len(poll.links) >= n /\ Linked(SubSeq(poll.links, 1, n))
                  THEN [poll EXCEPT !.stage = "page", !.links = <<>>, !.page = paired]
                  ELSE NoPoll
    /\ UNCHANGED <<nodeTip, falls, set, caughtUp, store, up, failures, restarts>>

\* Mutant: the last header is not read again.
UnchangedAssumed == TRUE

\* poll: the page's last header again.
Unchanged == Served(Last(poll.page).height, Last(poll.page).height) = <<Last(poll.page).id>>

\* poll: a page whose last header still stands is appended to the file, then followed.
Extend ==
    /\ poll.stage = "page"
    /\ IF Unchanged
       THEN /\ store' = [store EXCEPT !.lines = @ \o poll.page]
            /\ set' = FoldLeft(Push, set, poll.page)
            /\ poll' = [poll EXCEPT !.stage = "extend", !.page = <<>>]
       ELSE poll' = NoPoll /\ UNCHANGED <<store, set>>
    /\ UNCHANGED <<nodeTip, falls, caughtUp, up, failures, restarts>>

\* poll: the tip is reached; the set was current when the tip was asked for.
CatchUp ==
    /\ poll.stage = "extend" /\ Next1 > poll.tip
    /\ caughtUp' = "fresh" /\ poll' = NoPoll
    /\ UNCHANGED <<nodeTip, falls, set, store, up, failures, restarts>>

\* NullifierStore::reset empties the file and then writes its header: what it leaves
\* when it stops half-way, if this poll is to call it.
HalfReset ==
    IF poll.stage = "walk" /\ CommonHeights = {}
    THEN {[header |-> FALSE, lines |-> <<>>], FreshStore} ELSE {}

\* A read goes unanswered, an append fails and is cut back, or a reset fails.
PollFails ==
    /\ poll.stage # "idle" /\ failures < MaxFailedPolls
    /\ store' \in {store} \cup HalfReset
    /\ poll' = NoPoll
    /\ failures' = failures + 1
    /\ UNCHANGED <<nodeTip, falls, set, caughtUp, up, restarts>>

\* readiness and check: more than a slot since the tip was read, and admission answers
\* `nullifiers-stale`.
GoesStale ==
    /\ caughtUp = "fresh" /\ caughtUp' = "stale"
    /\ UNCHANGED <<nodeTip, falls, set, poll, store, up, failures, restarts>>

-----------------------------------------------------------------------------
(* Crashes.                                                                *)

\* What a crash can leave in the file: some lines of the page being appended, or a
\* reset half done.
Durable ==
    {store} \cup HalfReset
    \cup (IF poll.stage = "page" /\ Unchanged
          THEN {[store EXCEPT !.lines = @ \o SubSeq(poll.page, 1, k)] : k \in 1 .. Len(poll.page)}
          ELSE {})

\* V3Config::from_values, NullifierFollow::with_store: a start over `file`.
StartsOver(file) ==
    /\ store' = file
    /\ up' = (Replay(file) # Corrupt)
    /\ set' = IF up' THEN Replay(file) ELSE EmptySet
    /\ caughtUp' = "never" /\ poll' = NoPoll

FollowCrash ==
    /\ up /\ restarts < MaxRestarts
    /\ \E file \in Durable : StartsOver(file)
    /\ restarts' = restarts + 1
    /\ UNCHANGED <<nodeTip, falls, failures>>

\* `store-corrupt`: the operator moves the file aside and starts the service again.
MoveAside ==
    /\ ~up
    /\ StartsOver(FreshStore)
    /\ UNCHANGED <<nodeTip, falls, failures, restarts>>

PollStep ==
    \/ PollTip \/ Reconcile \/ RollBack \/ Rebuild
    \/ ReadHeaders \/ ReadNullifiers \/ Extend \/ CatchUp

FollowNext ==
    \/ \E b \in Block : ChainMoves(b)
    \/ ChainFalls
    \/ PollStep
    \/ PollFails \/ GoesStale
    \/ FollowCrash \/ MoveAside

FollowSpec == FollowInit /\ [][FollowNext]_followVars

\* follow: the thread polls for as long as the service runs, and every request it makes
\* has a timeout.  Nothing is assumed of the operator or of the node.
FairFollowSpec == FollowSpec /\ WF_followVars(PollStep)

-----------------------------------------------------------------------------
(* Properties.                                                             *)

FollowedTip == IF set.window = <<>> THEN Genesis ELSE Last(set.window).id

\* A page whose headers were read on one branch and whose nullifiers on another.
SplitPage ==
    poll.stage = "page" /\ \E i \in DOMAIN poll.page :
        poll.page[i].nullifiers # Tree[poll.page[i].id].nullifiers

\* A hypothesis about the node: once it has left the branch of a split page's headers,
\* its chain does not come back to that branch before the page's last check.
LeavesForGood ==
    [][SplitPage /\ Last(poll.page).id \notin ToSet(BranchTo[nodeTip])
          => Last(poll.page).id \notin ToSet(BranchTo[nodeTip'])]_followVars

\* The landed set is the nullifiers of one branch, the one that ends in the followed
\* block: headers and nullifiers read from two chains are never paired, and a rollback
\* removes exactly the blocks that left the chain.  The file replays to the same set;
\* after a failed write it may have been emptied, or be refused, but is never a lie.
\* Excluded is a node whose chain leaves a page's branch and returns to it within that
\* page's reads (LeavesForGood; the run's Moves), which pairs the two unnoticed.
FollowsOneBranch ==
    up => /\ set.height = Height(FollowedTip)
          /\ set.landed = NullifiersTo(FollowedTip)
          /\ Replay(store) \in {set} \cup (IF failures > 0 THEN {EmptySet, Corrupt} ELSE {})

\* A service that stays up reaches the node's chain once that chain settles, and says
\* ready again and again: no reorganization, failed poll, crash or refused file leaves
\* the follow where each poll undoes or repeats the one before.
FollowCatchesUp ==
    /\ <>[](up => FollowedTip = nodeTip)
    /\ []<>(up => caughtUp = "fresh")
=============================================================================
