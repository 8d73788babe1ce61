----------------------------- MODULE BodyFetch ------------------------------
(***************************************************************************)
(* How a node obtains the block bodies of its main chain (qlab-p2p,        *)
(* node.rs and adapter.rs).                                                *)
(*                                                                         *)
(* Header sync fixes the main chain; every tick the node asks its peers    *)
(* for the lowest bodies it lacks, a window at a time.  An ask is answered *)
(* by the body, declined (a bare header or NotFound), or left to time out; *)
(* compact announcements and BlockTxn bring bodies too.  A body is held in *)
(* pending until the state machine reaches its parent, and judged again    *)
(* then: one that is refused is dropped.  When fork choice has left the    *)
(* branch the state machine is on, the state machine rewinds, once it      *)
(* holds the first body of the main chain past the fork.                   *)
(*                                                                         *)
(* Simplifications.                                                        *)
(*  - Headers are valid, finality does not move, and fork choice is the    *)
(*    heaviest known header (ChainState has the rule itself).              *)
(*  - Body bytes are not counted, only bodies; a peer's frame allowance    *)
(*    is either enough for a whole tick or nothing.                        *)
(*  - Time is counted in ticks.  A peer may answer an ask while it stands; *)
(*    a later answer is no different from an announcement.                 *)
(*  - A banned peer is gone for good; no other connection is lost.         *)
(*  - The state that judges a held body is not represented: the body of a  *)
(*    block in Refusable may be refused whenever its turn comes.           *)
(*  - Own blocks, the V6 sections, and the ask ledger kept for operators   *)
(*    are left out.                                                        *)
(***************************************************************************)
EXTENDS Integers, Sequences, FiniteSets, FiniteSetsExt, SequencesExt

CONSTANTS
    Genesis,
    Tree,            \* every other block: its prev, height and total work
    PeerSeq,         \* the peers, in the order of the peer table
    Honest,          \* peers that hold and serve every body, and send nothing else
    NoPeer,          \* Option::None
    Refusable,       \* blocks whose body ingest_block takes and apply_block_gated may
                     \* refuse (a spent nullifier is looked for only there)
    Throttled,       \* peers whose frame allowance may be spent in some ticks
    Timeout,         \* BODY_REQUEST_TIMEOUT_MS, in ticks
    MaxInFlight,     \* MAX_BODIES_IN_FLIGHT
    MaxInFlightCatchup, \* MAX_BODIES_IN_FLIGHT_CATCHUP
    CatchupLag,      \* CATCHUP_LAG_BLOCKS
    PendingMax,      \* MAX_PENDING_BODIES
    PendingHeights,  \* MAX_PENDING_BODY_HEIGHTS
    RewindDepth,     \* MAX_REWIND_DEPTH
    ServedMax,       \* MAX_SERVED_BODIES
    RRCycle          \* bound: body_rr starts over here, at a multiple of any number of peers

Others == DOMAIN Tree
Blocks == Others \cup {Genesis}
Peers == ToSet(PeerSeq)

Height(b) == IF b = Genesis THEN 0 ELSE Tree[b].height
Work(b) == IF b = Genesis THEN 0 ELSE Tree[b].work

\* A header is validated against its parent: its height is one more, its total work
\* is more.
ASSUME BodyTreeAssumption ==
    /\ Genesis \notin Others
    /\ Tree \in [Others -> [prev : Blocks, height : Nat \ {0}, work : Nat \ {0}]]
    /\ \A b \in Others : /\ Tree[b].height = Height(Tree[b].prev) + 1
                         /\ Tree[b].work > Work(Tree[b].prev)
    /\ \A b, c \in Others : b # c => Tree[b].work # Tree[c].work
ASSUME RefusableAssumption == Refusable \subseteq Others
ASSUME BodyPeerAssumption ==
    IsInjective(PeerSeq) /\ Honest \cup Throttled \subseteq Peers /\ NoPeer \notin Peers
ASSUME BodyLimitAssumption ==
    /\ {Timeout, MaxInFlight, MaxInFlightCatchup, PendingMax, ServedMax} \subseteq Nat \ {0}
    /\ {CatchupLag, PendingHeights, RewindDepth} \subseteq Nat
    /\ MaxInFlight <= MaxInFlightCatchup
    /\ RRCycle \in Nat \ {0} /\ \A n \in 1 .. Len(PeerSeq) : RRCycle % n = 0

VARIABLES
    known,    \* the headers of fork choice
    applied,  \* the state machine's tip
    pending,  \* pending_bodies
    cache,    \* blocks: the body-serving cache
    asks,     \* body_reqs and body_declines, and the time of the last ask
    rr,       \* body_rr
    ready,    \* the ready peers
    since     \* history: ticks since the last ask of a body, up to Timeout - 1

bodies == <<known, applied, pending, cache>>
bodyVars == <<bodies, asks, rr, ready, since>>

Ancestors[b \in Blocks] == IF b = Genesis THEN {b} ELSE {b} \cup Ancestors[Tree[b].prev]

Highest(B) == CHOOSE b \in B : \A c \in B : Height(c) <= Height(b)

\* Fork choice over the known headers k.
Tip(k) == CHOOSE b \in k : \A c \in k : Work(c) <= Work(b)
MainChain(k) == Ancestors[Tip(k)]

Unasked == [peer |-> NoPeer, age |-> 2 * Timeout, declined |-> {}]
InFlight(a) == {b \in Others : a[b].peer # NoPeer}

BodyTypeOK ==
    /\ Genesis \in known /\ known \subseteq Blocks
    /\ \A b \in known : Ancestors[b] \subseteq known
    /\ Ancestors[applied] \subseteq known
    /\ pending \subseteq known \ Ancestors[applied]
    /\ Cardinality(pending) <= PendingMax
    /\ cache \subseteq known /\ Cardinality(cache) <= ServedMax
    /\ asks \in [Others -> [peer : Peers \cup {NoPeer}, age : 0 .. 2 * Timeout,
                            declined : SUBSET Peers]]
    /\ \A b \in InFlight(asks) : asks[b].age < Timeout
    /\ Cardinality(InFlight(asks)) <= MaxInFlightCatchup
    /\ rr \in 0 .. RRCycle - 1
    /\ ready \subseteq Peers
    /\ since \in [Others -> 0 .. Timeout - 1]

-----------------------------------------------------------------------------
(* Holding and applying bodies.                                            *)

\* state_fork_point: the highest applied block on the main chain.
ForkPoint(k, s) == Highest(Ancestors[s] \cap MainChain(k))

HasStoredBody(b) == b \in Ancestors[applied]

\* is_body_worth_holding, for the state tip s.
WorthHolding(b, s) ==
    /\ b # Genesis /\ b \notin Ancestors[s]
    /\ Height(b) <= Height(s) + PendingHeights
    /\ Height(b) + RewindDepth > Height(s)

\* buffer_body: over the cap, the highest body goes.
BufferBody(pend, b) ==
    LET P == pend \cup {b}
    IN  IF ~ WorthHolding(b, applied) THEN pend
        ELSE IF Cardinality(P) <= PendingMax THEN P ELSE P \ {Highest(P)}

\* Mutant: rewind as soon as fork choice has left the branch.
RejoinAtOnce(k, pend) == ForkPoint(k, applied)

\* rejoin_main_chain: rewind to the fork, if the main-chain body past it is held.
RejoinMainChain(k, pend) ==
    LET fork == ForkPoint(k, applied)
    IN  IF \E b \in pend \cap MainChain(k) : Height(b) = Height(fork) + 1
        THEN fork ELSE applied

\* The drain's loop: the tips the state machine can reach from s by applying held
\* bodies until none extends its tip, when it refuses those in refused, which are
\* dropped as their turn comes.  Of two siblings the lower hash has the first turn.
Drained(pend, refused, s) ==
    {t \in pend \cup {s} :
        /\ s \in Ancestors[t]
        /\ Ancestors[t] \ Ancestors[s] \subseteq pend \ refused
        /\ \A b \in refused : s \in Ancestors[Tree[b].prev] /\ Tree[b].prev \in Ancestors[t]
        /\ \A b \in pend \ refused : Tree[b].prev # t}

\* ingest_block's last step, buffer_body and drain_pending_bodies, on body b and
\* the headers k.
HoldAndApply(k, b) ==
    \E pend \in {BufferBody(pending, b)} :
      \E refused \in SUBSET (pend \cap Refusable) :
        \E t \in Drained(pend, refused, RejoinMainChain(k, pend)) :
          /\ applied' = t
          /\ pending' = {c \in pend \ refused : WorthHolding(c, t)}

\* Mutant: no cap.
CachedUncapped(b) == cache \cup {b}

\* insert_body on the serving cache: over the cap, the lowest body goes.
Cached(b) ==
    LET C == cache \cup {b}
        lowest == CHOOSE c \in C : \A d \in C : Height(c) <= Height(d)
    IN  IF Cardinality(C) <= ServedMax THEN C ELSE C \ {lowest}

\* What ingest_block can find of a body: "ok"; "unjudged", when the state it has
\* applied cannot judge it, and only the header is taken; "bad", never from an
\* honest peer.
Verdicts(p) == IF p \in Honest THEN {"ok", "unjudged"} ELSE {"bad"}

\* complete_block: a body with an unknown parent is dropped, one with a new header
\* is cached for serving, and the sender of a bad one is charged.
CompleteBlock(p, b, verdict) ==
    \/ /\ verdict = "bad"
       /\ ready' \in {ready, ready \ {p}}
       /\ UNCHANGED bodies
    \/ /\ verdict # "bad" /\ Tree[b].prev \notin known
       /\ UNCHANGED <<bodies, ready>>
    \/ /\ verdict = "unjudged" /\ Tree[b].prev \in known
       /\ known' = known \cup {b}
       /\ UNCHANGED <<applied, pending, cache, ready>>
    \/ /\ verdict = "ok" /\ Tree[b].prev \in known
       /\ known' = known \cup {b}
       /\ cache' = IF b \in known THEN cache ELSE Cached(b)
       /\ UNCHANGED ready
       /\ HoldAndApply(known', b)

-----------------------------------------------------------------------------
(* Asking for bodies.                                                      *)

\* missing_body_hashes, before it is cut to max: main-chain blocks, up to the top the
\* pending window allows, that are neither applied nor pending.
MissingBodies(max) ==
    {b \in MainChain(known) \ (Ancestors[applied] \cup pending) :
        Height(b) <= IF Cardinality(pending) + MaxInFlightCatchup <= PendingMax
                     THEN Height(applied) + PendingHeights
                     ELSE Height(ForkPoint(known, applied)) + max}

\* The n lowest of the blocks B of one branch.
Lowest(n, B) == {b \in B : Cardinality({c \in B : Height(c) < Height(b)}) < n}

\* body_window_for the state's lag.
BodyWindow ==
    IF Height(Tip(known)) - Height(applied) <= CatchupLag THEN MaxInFlight ELSE MaxInFlightCatchup

\* One tick of time: expired asks lose their slot and their declines, and declines
\* of a body that is no longer asked for are forgotten in time (prune_body_asks).
Aged(a) ==
    LET age == Min({a.age + 1, 2 * Timeout})
    IN  IF age >= (IF a.peer = NoPeer THEN 2 ELSE 1) * Timeout THEN Unasked
        ELSE [a EXCEPT !.age = age]

\* The ready peers, in the order of the peer table.
ReadyTable == SelectSeq(PeerSeq, LAMBDA p : p \in ready)

\* The peer for the i-th wanted body: from rr + i round the ready peers, the first
\* with allowance that has not declined it, else the first with allowance.
Chosen(i, declined, spent) ==
    LET Turn(s) == ReadyTable[((rr + i + s) % Len(ReadyTable)) + 1]
        FirstOf(P) == {Turn(s) : s \in {t \in 0 .. Len(ReadyTable) - 1 :
                         Turn(t) \in P /\ \A u \in 0 .. t - 1 : Turn(u) \notin P}}
    IN  IF ready \subseteq declined \cup spent THEN FirstOf(ready \ spent)
        ELSE FirstOf(ready \ (declined \cup spent))

\* The bodies to ask for, beside the asks a in flight.
Wanted(a) ==
    Lowest(BodyWindow - Cardinality(InFlight(a)),
           Lowest(BodyWindow, MissingBodies(BodyWindow)) \ InFlight(a))

\* The peer to ask for b, as a set: none, when nobody has the allowance.
Target(b, wanted, a, spent) ==
    Chosen(Cardinality({c \in wanted : Height(c) < Height(b)}), a[b].declined, spent)

\* The ask goes out to one of P.
SentTo(P, a) == [a EXCEPT !.peer = CHOOSE p \in P : TRUE, !.age = 0]

\* request_missing_bodies, the last step of a tick.
Tick ==
    \E spent \in SUBSET Throttled, old \in {[b \in Others |-> Aged(asks[b])]} :
    \E wanted \in {Wanted(old)} :
    \E target \in {[b \in wanted |-> Target(b, wanted, old, spent)]} :
    \E sent \in {{b \in wanted : target[b] # {}}} :
      /\ asks' = [b \in Others |-> IF b \in sent THEN SentTo(target[b], old[b]) ELSE old[b]]
      /\ rr' = IF wanted = {} \/ ready = {} THEN rr ELSE (rr + 1) % RRCycle
      /\ since' = [b \in Others |-> IF b \in sent THEN 0 ELSE Min({since[b] + 1, Timeout - 1})]
      /\ UNCHANGED <<bodies, ready>>

\* The history, when a ready peer may be gone: its asks count no longer.
CountAfresh == IF ready' = ready THEN since ELSE [b \in Others |-> Timeout - 1]

\* The ask is satisfied: its slot and its declines go.
Satisfied(b) ==
    /\ asks' = [asks EXCEPT ![b] = Unasked]
    /\ since' = [CountAfresh EXCEPT ![b] =
                   IF b \in cache' \cup Ancestors[applied'] \cup pending' THEN Timeout - 1 ELSE @]

\* note_body_decline: remembered while the body is asked for; the target's own
\* decline frees the slot if some ready peer has not declined.
NoteBodyDecline(b, p) ==
    LET a == asks[b]
        declined == a.declined \cup {p}
    IN  IF a.peer = NoPeer THEN a
        ELSE [a EXCEPT !.declined = declined,
                       !.peer = IF a.peer = p /\ ~ ready \subseteq declined THEN NoPeer ELSE @]

-----------------------------------------------------------------------------
(* Answers and announcements.                                              *)

\* Mutant: the serving cache counts as well.
StoredOrCached(b) == HasStoredBody(b) \/ b \in cache

\* The early return of on_block_announce: the state machine has the body.
AlreadyHave(b) == HasStoredBody(b)

\* Mutant: the ask is satisfied by any answer.
Arrived(b) == TRUE

\* Its last check: the body is cached, applied or pending now.
HeldNow(b) == b \in cache' \/ b \in Ancestors[applied'] \/ b \in pending'

\* on_block_announce, when the block can be put together at once.
OnAnnounce(p, b, verdict) ==
    /\ p \in ready
    /\ IF AlreadyHave(b)
       THEN UNCHANGED <<bodies, ready>> /\ Satisfied(b)
       ELSE /\ CompleteBlock(p, b, verdict)
            /\ IF HeldNow(b) THEN Satisfied(b) ELSE UNCHANGED asks /\ since' = CountAfresh
    /\ UNCHANGED rr

\* The same, as the answer to an ask.
OnBody(p, b, verdict) == asks[b].peer = p /\ OnAnnounce(p, b, verdict)

\* An announcement some of whose transactions are not in the mempool: they are
\* asked for, and only the last check looks at the ask.
OnCompact(p, b) ==
    /\ p \in ready
    /\ UNCHANGED <<bodies, rr, ready>>
    /\ HeldNow(b)
    /\ Satisfied(b)

\* on_block_txn: such an announcement is complete, at any time later.  Unless the
\* body is asked for this is no different from OnAnnounce.
OnBlockTxn(p, b, verdict) ==
    /\ p \in ready
    /\ asks[b] # Unasked
    /\ CompleteBlock(p, b, verdict)
    /\ since' = CountAfresh
    /\ UNCHANGED <<asks, rr>>

\* on_header, relayed or in answer to an ask: on the wire the two are the same.
OnHeader(p, b) ==
    /\ p \in ready
    /\ asks' = [asks EXCEPT ![b] = NoteBodyDecline(b, p)]
    /\ known' = IF Tree[b].prev \in known THEN known \cup {b} ELSE known
    /\ UNCHANGED <<applied, pending, cache, rr, ready, since>>

BodyInit ==
    /\ known = {Genesis} /\ applied = Genesis
    /\ pending = {} /\ cache = {}
    /\ asks = [b \in Others |-> Unasked]
    /\ rr = 0
    /\ ready = Peers
    /\ since = [b \in Others |-> Timeout - 1]

BodyNext ==
    \/ Tick
    \/ \E p \in Peers, b \in Others :
          \/ \E v \in Verdicts(p) : OnAnnounce(p, b, v) \/ OnBlockTxn(p, b, v)
          \/ OnCompact(p, b)
          \/ OnHeader(p, b)

BodySpec == BodyInit /\ [][BodyNext]_bodyVars

\* The run loop ticks; an honest peer answers again and again, and a body that
\* cannot be judged now can be judged later.
FairBodySpec ==
    /\ BodySpec
    /\ SF_bodyVars(Tick)
    /\ \A p \in Honest : SF_bodyVars(\E b \in Others : OnBody(p, b, "ok"))

\* Besides, the block at the tip is announced again and again (as are, in the
\* network, the blocks that follow it).
AnnouncedBodySpec ==
    /\ FairBodySpec
    /\ \A p \in Honest : SF_bodyVars(\E b \in {Tip(known)} \cap Others : OnAnnounce(p, b, "ok"))

-----------------------------------------------------------------------------
(* Properties.                                                             *)

\* "A rewind here can only discard blocks that fork choice has already stopped
\* counting", and "every rewind is followed in the same drain_pending_bodies pass by at
\* least one application" (rejoin_main_chain), unless the next body of the main chain,
\* for which it was taken, is refused: then that body is not held any more either.
RewindsApply ==
    [][applied \notin Ancestors[applied'] =>
          LET fork == ForkPoint(known', applied)
          IN  /\ fork \in Ancestors[applied']
              /\ applied' = fork =>
                    \E b \in Refusable \cap MainChain(known') :
                       Tree[b].prev = fork /\ b \notin pending']_bodyVars

\* A step that asks p for b.
AskedNow(b, p) ==
    /\ asks'[b].peer = p /\ asks'[b].age = 0
    /\ asks[b].peer = NoPeer \/ asks[b].age > 0

\* "At most one GetData per peer per BODY_REQUEST_TIMEOUT_MS" (note_body_decline) and
\* "at most one re-ask per block per 15 s" (on_block_announce): however answers,
\* declines, refused bodies and late answers interleave, a body is asked for again
\* within the timeout only because a peer has declined it and another ready one has
\* not, and it is that other one that is asked, if it has the allowance.  Left out: a
\* body that is found in the serving cache, whose ask ends although it is not held.
PacedRetries ==
    [][\A b \in Others, p \in Peers :
          /\ AskedNow(b, p)
          /\ since[b] < Timeout - 1
          => /\ asks[b].declined # {}
             /\ ~ ready \subseteq asks[b].declined
             /\ p \in asks[b].declined => ready \ asks[b].declined \subseteq Throttled]_bodyVars

\* The blocks of the main chain below the first body that may be refused.
SoundChain(k) == {b \in MainChain(k) : Ancestors[b] \cap Refusable = {}}

\* The state machine ends up on the main chain, whatever was rewound (for nothing,
\* too), declined, refused, lost or cached on the way: no body an honest peer holds stays
\* missing, up to one that the state machine may refuse (request_missing_bodies,
\* on_block_announce).
FetchCompletes == <>[](SoundChain(known) \subseteq Ancestors[applied])

-----------------------------------------------------------------------------
(* Claims of the code's comments that do not hold (README, section 3).     *)

\* "Every rewind is followed in the same drain_pending_bodies pass by at least one
\* application" (rejoin_main_chain), without exception.
EveryRewindApplies ==
    [][applied \notin Ancestors[applied'] => applied' \notin Ancestors[applied]]_bodyVars

\* "A body whose header is in this node's chain is applied as soon as the state tip
\* reaches its parent" (ingest_block): once every body of the main chain is held,
\* the state machine is at its tip.
HeldBodiesApply == MainChain(known) \subseteq Ancestors[applied] \cup pending => applied = Tip(known)
=============================================================================
