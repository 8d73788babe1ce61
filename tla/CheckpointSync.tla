--------------------------- MODULE CheckpointSync ---------------------------
(***************************************************************************)
(* How a joining node learns headers (qlab-p2p, node.rs and sync.rs).      *)
(*                                                                         *)
(* Ordinary sync asks the tallest peer for headers above a locator and     *)
(* validates each one.  A joiner first asks one peer for its latest        *)
(* finalized checkpoint; once a quorum attests one ahead of the tip, the   *)
(* headers up to it are collected in a buffer outside the validated chain, *)
(* checked by hash linkage only, from whatever peer carries them.  When    *)
(* the buffer lands on the attested hash the whole span is admitted and    *)
(* finalized at once; when it cannot, the session ends for good and        *)
(* ordinary sync takes over.                                               *)
(*                                                                         *)
(* The joiner is sequential.  A message is handled header by header: msg   *)
(* is the message in hand and span the span being admitted, and no other   *)
(* action runs until both are done.                                        *)
(*                                                                         *)
(* Simplifications.                                                        *)
(*  - Honest peers do not reorganise: an answer is determined by the       *)
(*    highest block of the locator that is on the peer's chain.            *)
(*  - Scores are left out: a penalty may ban or not.                       *)
(*  - Catch-up checkpoint queries and vote gossip are OnVotes.             *)
(*  - Bodies and the state machine are left out (NodeHeads), and so is the *)
(*    halt height.                                                         *)
(***************************************************************************)
EXTENDS ChainState, FiniteSets, FiniteSetsExt, SequencesExt

CONSTANTS
    Tree,        \* every other header: its prev, height, difficulty, time and validity
    Peers,       \* the joiner's peers
    NoPeer,      \* Option::None
    Serves,      \* the main chain of each honest peer, genesis first
    Claim,       \* the tip height each peer claims in its handshake
    Attested,    \* checkpoint blocks a quorum signs; all on one branch
    TallySlack,  \* TALLY_TIP_SLACK: votes this far above the tip are counted
    BatchMax,    \* MAX_HEADERS_PER_BATCH
    SpanMax,     \* MAX_CHECKPOINT_SYNC_HEADERS
    StallMax,    \* MAX_CHECKPOINT_SYNC_STALLED_BATCHES
    MaxDrops     \* bound: connections lost

ASSUME TreeAssumption ==
    Tree \in [Hash \ {Genesis} -> [prev : Hash, height : 1 .. MaxHeight,
                                   difficulty : Difficulties, time : Nat, valid : BOOLEAN]]
ASSUME PeerAssumption ==
    /\ NoPeer \notin Peers
    /\ DOMAIN Serves \subseteq Peers
    /\ \A p \in DOMAIN Serves : Serves[p] \in Seq(Hash) /\ Serves[p][1] = Genesis
    /\ Claim \in [Peers -> Nat]
ASSUME AttestedAssumption == Attested \subseteq Hash \ {Genesis}
ASSUME SyncLimitAssumption ==
    /\ {BatchMax, SpanMax, StallMax} \subseteq Nat \ {0}
    /\ {TallySlack, MaxDrops} \subseteq Nat

VARIABLES
    latest,     \* FinalityTracker::latest, the block, or NoHash
    session,    \* checkpoint_sync: a sequence of zero or one sessions
    fallback,   \* checkpoint_sync_fallback
    eagerDone,  \* eager_checkpoint_done
    query,      \* cp_queries: the peer of the eager query in flight, or NoPeer
    phase,      \* SyncPhase
    asked,      \* GetHeaders on their way to honest peers, or their answers back
    peers,      \* the peer table
    msg,        \* the message in hand: a sequence of zero or one
    span,       \* the checkpoint span being admitted
    drops       \* connections lost so far

syncVars == <<session, fallback, eagerDone, query, phase, asked>>
joinVars == <<chainVars, latest, syncVars, peers, msg, span, drops>>

Honest == DOMAIN Serves
HeightIn(h) == IF h = Genesis THEN 0 ELSE Tree[h].height
TimeOf(h) == IF h = Genesis THEN 0 ELSE Tree[h].time

Session == [cp : Hash, base : Hash, headers : Seq(Hash), peer : Peers,
            stalled : 0 .. StallMax - 1]
Message == [kind : {"headers", "header", "block"}, peer : Peers, rest : Seq(Hash),
            full : BOOLEAN, accepted : BOOLEAN, buffered : BOOLEAN, dropped : BOOLEAN]

JoinTypeOK ==
    /\ TypeOK
    /\ latest \in Hash \cup {NoHash}
    /\ Len(session) <= 1
    /\ \A i \in DOMAIN session :
          /\ session[i] \in Session
          /\ Len(session[i].headers) < HeightIn(session[i].cp) - HeightIn(session[i].base)
    /\ fallback \in BOOLEAN /\ eagerDone \in BOOLEAN
    /\ query \in Peers \cup {NoPeer}
    /\ phase \in [kind : {"Unknown", "Awaiting", "Behind", "Synced"}, peer : Peers \cup {NoPeer}]
    /\ asked \subseteq [peer : Honest, from : Nat]
    /\ peers \in [Peers -> {"ready", "banned", "gone"}]
    /\ Len(msg) <= 1 /\ \A i \in DOMAIN msg : msg[i] \in Message
    /\ span \in Seq(Hash)
    /\ drops \in 0 .. MaxDrops

-----------------------------------------------------------------------------
(* The session.                                                            *)

Ready(p) == peers[p] = "ready"
Idle == msg = <<>> /\ span = <<>>

\* frontier_hash: the last buffered header, or the base.
Frontier(s) == IF s.headers = <<>> THEN s.base ELSE Last(s.headers)

\* frontier_hash of the session, if there is one.
FrontierSet(sess) == {Frontier(sess[i]) : i \in DOMAIN sess}

\* Mutant: height equality only.
AtHeightOf(h, cp) == HeightIn(h) = HeightIn(cp)

\* header_hash == checkpoint.block_hash, at the checkpoint's height.
LandsOn(h, cp) == h = cp

\* The header extends the buffered frontier.
LinksTo(h, s) == HeightIn(h) = HeightIn(Frontier(s)) + 1 /\ Tree[h].prev = Frontier(s)

-----------------------------------------------------------------------------
(* Asking for headers.                                                     *)

\* build_locator_with_frontier on a main chain, and where answer_get_headers
\* starts for it: the peer's highest block among the frontier and the chain.
AnswersFrom(p, chain, sess) ==
    Max({i - 1 : i \in {j \in DOMAIN Serves[p] :
                          Serves[p][j] \in ToSet(chain) \cup FrontierSet(sess)}})

GetHeaders(left, p, chain, sess) ==
    IF p \in Honest THEN left \cup {[peer |-> p, from |-> AnswersFrom(p, chain, sess)]}
    ELSE left

\* answer_get_headers: at most BatchMax headers of the peer's main chain.
Answer(p, from) == SubSeq(Serves[p], from + 2, Min({from + 1 + BatchMax, Len(Serves[p])}))

Awaiting(p) == [kind |-> "Awaiting", peer |-> p]
At(kind) == [kind |-> kind, peer |-> NoPeer]

\* best_height: the highest claim of a ready peer, -1 when there is none.
BestHeight == Max({-1} \cup {Claim[p] : p \in {q \in Peers : Ready(q)}})

\* tallest_ready_peer: the serving peer, else the peer of the eager query (q),
\* else a ready peer with the highest claim.
SyncPeers(q) ==
    LET serving == {session[i].peer : i \in DOMAIN session} \cap {p \in Peers : Ready(p)}
    IN  IF serving # {} THEN serving
        ELSE IF q # NoPeer /\ Ready(q) THEN {q}
        ELSE {p \in Peers : Ready(p) /\ Claim[p] = BestHeight}

\* request_finalized_checkpoint, eager: who may be asked now, given that an
\* earlier query may have expired.
EagerQuery(q) ==
    IF /\ q = NoPeer /\ ~ eagerDone /\ session = <<>> /\ ~ fallback
       /\ BestHeight > TipHeight
    THEN {p \in Peers : Ready(p)} ELSE {q}

\* tick, after the frames: request_finalized_checkpoint, then maybe_start_sync.
Tick ==
    /\ Idle
    /\ \E old \in {query, NoPeer} : \E q \in EagerQuery(old) :
          /\ query' = q
          /\ IF phase.kind = "Awaiting" THEN UNCHANGED <<phase, asked>>
             ELSE IF BestHeight = -1 THEN phase' = At("Unknown") /\ UNCHANGED asked
             ELSE IF BestHeight > TipHeight
             THEN \E p \in SyncPeers(q) : phase' = Awaiting(p) /\ asked' = GetHeaders(asked, p, mainChain, session)
             ELSE phase' = At("Synced") /\ UNCHANGED asked
    /\ UNCHANGED <<chainVars, latest, session, fallback, eagerDone, peers, msg, span, drops>>

-----------------------------------------------------------------------------
(* Checkpoints.                                                            *)

\* chain.set_finalized(cp): refused when the header is unknown or off the head.
AdvanceChainHead(cp) ==
    IF CanFinalize(cp) THEN SetFinalized(cp) ELSE UNCHANGED chainVars

Advances(cp) == latest # NoHash => HeightIn(cp) > HeightIn(latest)

\* begin_checkpoint_sync, after the tracker and fork choice have moved.
Begun(cp, p) ==
    IF session # <<>> \/ fallback \/ HeightIn(cp) <= HeightIn(tip')
    THEN [session |-> session, fallback |-> fallback]
    ELSE IF HeightIn(cp) - HeightIn(tip') > SpanMax
    THEN [session |-> <<>>, fallback |-> TRUE]
    ELSE [session |-> <<[cp |-> cp, base |-> tip', headers |-> <<>>, peer |-> p, stalled |-> 0]>>,
          fallback |-> FALSE]

\* on_checkpoint with the answer to the eager query: the requested object is
\* absorbed past the tally window, and arms the session when it is the tracker's
\* checkpoint now.
OnCheckpoint(p, cp) ==
    /\ Idle
    /\ query = p /\ Ready(p)
    /\ query' = NoPeer
    /\ eagerDone' = TRUE
    /\ IF Advances(cp) THEN latest' = cp /\ AdvanceChainHead(cp)
       ELSE UNCHANGED <<latest, chainVars>>
    /\ LET s == IF latest' = cp THEN Begun(cp, p) ELSE [session |-> session, fallback |-> fallback]
       IN  session' = s.session /\ fallback' = s.fallback
    /\ UNCHANGED <<phase, asked, peers, msg, span, drops>>

\* on_not_found, or an answer that does not verify.
OnNoCheckpoint(p) ==
    /\ Idle
    /\ query = p /\ Ready(p)
    /\ query' = NoPeer
    /\ eagerDone' = TRUE
    /\ UNCHANGED <<chainVars, latest, session, fallback, phase, asked, peers, msg, span, drops>>

\* Votes gossiped or served to a catch-up query, inside the tally window.
OnVotes(cp) ==
    /\ Idle
    /\ Advances(cp)
    /\ HeightIn(cp) <= TipHeight + TallySlack
    /\ latest' = cp
    /\ AdvanceChainHead(cp)
    /\ UNCHANGED <<syncVars, peers, msg, span, drops>>

-----------------------------------------------------------------------------
(* Messages that carry headers.                                            *)

\* A message of one object ends with it; a batch still has its own end.
InHand(m) == IF m.rest = <<>> /\ m.kind # "headers" THEN <<>> ELSE <<m>>

\* The message's header is dealt with, and some of the counters the handler keeps
\* leave zero: that is all that is asked of them.
Done(m, counters) ==
    InHand([m EXCEPT !.rest = Tail(@), !.accepted = @ \/ "accepted" \in counters,
                     !.buffered = @ \/ "buffered" \in counters,
                     !.dropped = @ \/ "dropped" \in counters])

\* Nothing more of the message is read.
Stopped(m) == InHand([m EXCEPT !.rest = <<>>])

Penalized(p) == {peers, [peers EXCEPT ![p] = "banned"]}

\* submit_header and the handler's reaction to its outcome: on_headers stops at
\* a header that does not connect or is invalid, the single-object handlers turn
\* to the sender for its ancestors or charge it.
Ordinary(m, h, left) ==
    /\ UNCHANGED <<latest, session, fallback, eagerDone, query, span, drops>>
    /\ \/ /\ h \in Known
          /\ msg' = Done(m, {})
          /\ asked' = left /\ UNCHANGED <<chainVars, phase, peers>>
       \/ /\ h \notin Known /\ Tree[h].prev \notin Known
          /\ msg' = Stopped(m)
          /\ IF m.kind = "headers" THEN asked' = left /\ UNCHANGED phase
             ELSE phase' = Awaiting(m.peer) /\ asked' = GetHeaders(left, m.peer, mainChain, session)
          /\ UNCHANGED <<chainVars, peers>>
       \/ /\ h \notin Known /\ Tree[h].prev \in Known /\ ~ Tree[h].valid
          /\ msg' = Stopped(m)
          /\ peers' \in IF m.kind = "headers" THEN {peers} ELSE Penalized(m.peer)
          /\ asked' = left /\ UNCHANGED <<chainVars, phase>>
       \/ /\ Tree[h].valid
          /\ InsertHeader(h, Tree[h].prev, Tree[h].height, Tree[h].difficulty)
          /\ msg' = Done(m, {"accepted"})
          /\ asked' = left /\ UNCHANGED <<phase, peers>>

\* Mutant: headers learned meanwhile do not matter.
AdmissibleAgain(hs) ==
    /\ latest # NoHash
    /\ LandsOn(Last(hs), latest)
    /\ \E i \in DOMAIN mainChain : mainChain[i] = Tree[Head(hs)].prev

\* The checks of ingest_finalized_headers, all before the first insertion.
Admissible(hs) ==
    /\ latest # NoHash
    /\ LandsOn(Last(hs), latest)
    /\ \E i \in DOMAIN mainChain : mainChain[i] = Tree[Head(hs)].prev
    /\ \A i \in DOMAIN hs : hs[i] \notin Known

\* Where the session ends without admission.
Fallback(m) ==
    /\ session' = <<>>
    /\ fallback' = TRUE
    /\ msg' = IF m.kind = "headers" THEN Stopped(m) ELSE <<m>>

\* ingest_checkpoint_sync_header, on a header at or below the checkpoint.
Collect(m, s, h, left) ==
    /\ asked' = left
    /\ UNCHANGED <<chainVars, latest, eagerDone, query, phase, drops>>
    /\ \/ /\ ~ LinksTo(h, s)
          /\ msg' = Done(m, {"dropped"})
          /\ UNCHANGED <<session, fallback, span, peers>>
       \/ /\ LinksTo(h, s) /\ TimeOf(h) < TimeOf(Frontier(s))
          /\ msg' = Done(m, {"dropped"})
          /\ peers' \in Penalized(m.peer)
          /\ UNCHANGED <<session, fallback, span>>
       \/ /\ LinksTo(h, s) /\ TimeOf(h) >= TimeOf(Frontier(s))
          /\ HeightIn(h) < HeightIn(s.cp)
          /\ session' = <<[s EXCEPT !.headers = Append(@, h), !.peer = m.peer]>>
          /\ msg' = Done(m, {"accepted", "buffered"})
          /\ UNCHANGED <<fallback, span, peers>>
       \/ /\ LinksTo(h, s) /\ TimeOf(h) >= TimeOf(Frontier(s))
          /\ HeightIn(h) = HeightIn(s.cp)
          /\ IF LandsOn(h, s.cp) /\ Admissible(Append(s.headers, h))
             THEN /\ session' = <<>>
                  /\ span' = Append(s.headers, h)
                  /\ msg' = Done(m, {"accepted", "buffered"})
                  /\ UNCHANGED <<fallback, peers>>
             ELSE /\ Fallback(m)
                  /\ peers' \in IF LandsOn(h, s.cp) THEN {peers} ELSE Penalized(m.peer)
                  /\ UNCHANGED span

\* While a session accumulates, headers at or below its checkpoint are the
\* buffer's; announced blocks do not pass through it.
ForBuffer(m, h) ==
    session # <<>> /\ m.kind # "block" /\ HeightIn(h) <= HeightIn(session[1].cp)

\* One header of a message; left is what is still asked for.
Handle(m, left) ==
    LET h == Head(m.rest)
    IN  IF ForBuffer(m, h) THEN Collect(m, session[1], h, left) ELSE Ordinary(m, h, left)

\* A message arrives and its first header is handled.
Deliver(kind, p, hs, left) ==
    /\ Idle
    /\ Ready(p)
    /\ LET m == [kind |-> kind, peer |-> p, rest |-> hs, full |-> Len(hs) = BatchMax,
                 accepted |-> FALSE, buffered |-> FALSE, dropped |-> FALSE]
       IN  IF hs # <<>> THEN Handle(m, left)
           ELSE /\ msg' = <<m>>
                /\ asked' = left
                /\ UNCHANGED <<chainVars, latest, session, fallback, eagerDone, query, phase,
                               peers, span, drops>>

\* on_headers, on an honest peer's answer.
OnAnswer(p, from) ==
    /\ [peer |-> p, from |-> from] \in asked
    /\ Deliver("headers", p, Answer(p, from), asked \ {[peer |-> p, from |-> from]})

\* on_headers with whatever a faulty peer sends, asked for or not.
OnFaultyHeaders(p, hs) == p \notin Honest /\ Deliver("headers", p, hs, asked)

\* A peer relays a header (on_header) or announces a block (on_block_announce); an
\* honest one only blocks of its chain.
OnRelay(kind, p, h) ==
    /\ p \in Honest => h \in ToSet(Serves[p])
    /\ h # Genesis
    /\ Deliver(kind, p, <<h>>, asked)

\* The next header of the message in hand.
HandleHeader ==
    /\ msg # <<>> /\ span = <<>>
    /\ msg[1].rest # <<>>
    /\ Handle(msg[1], asked)

\* A failed insertion or finality mark in ingest_finalized_headers: Rejected.
SpanFailed == fallback' = TRUE /\ span' = <<>> /\ UNCHANGED chainVars

\* ingest_finalized_headers: the next header of the span, proof of work skipped.
AdmitHeader ==
    /\ span # <<>>
    /\ Len(span) > 1 \/ Head(span) \notin Known
    /\ LET h == Head(span)
       IN  IF h \notin Known /\ Tree[h].prev \in Known
           THEN /\ InsertHeader(h, Tree[h].prev, Tree[h].height, Tree[h].difficulty)
                /\ span' = IF Len(span) > 1 THEN Tail(span) ELSE span
                /\ UNCHANGED fallback
           ELSE SpanFailed
    /\ UNCHANGED <<latest, session, eagerDone, query, phase, asked, peers, msg, drops>>

\* Its end, once the last header is in: set_finalized on the checkpoint.
FinalizeSpan ==
    /\ Len(span) = 1 /\ Head(span) \in Known
    /\ IF CanFinalize(latest)
       THEN SetFinalized(latest) /\ span' = <<>> /\ UNCHANGED fallback
       ELSE SpanFailed
    /\ UNCHANGED <<latest, session, eagerDone, query, phase, asked, peers, msg, drops>>

\* Mutant: a batch that brings nothing new is not counted.
StallForgiven(m) == UNCHANGED <<session, fallback>>

\* The stall count at the end of a batch: reset by progress, and too many batches
\* in a row that only repeat or contradict the buffer end the session.
StallCounted(m) ==
    IF session = <<>> \/ ~ (m.buffered \/ m.dropped) THEN UNCHANGED <<session, fallback>>
    ELSE IF m.buffered
    THEN session' = <<[session[1] EXCEPT !.stalled = 0]>> /\ UNCHANGED fallback
    ELSE IF session[1].stalled + 1 >= StallMax
    THEN session' = <<>> /\ fallback' = TRUE
    ELSE session' = <<[session[1] EXCEPT !.stalled = @ + 1]>> /\ UNCHANGED fallback

\* The end of a handler.  After a batch: the stall count, then the next request
\* to the same peer or the phase that the claims of the ready peers give.
EndMessage ==
    /\ msg # <<>> /\ span = <<>>
    /\ msg[1].rest = <<>>
    /\ msg' = <<>>
    /\ LET m == msg[1]
       IN  IF m.kind # "headers" THEN UNCHANGED <<session, fallback, phase, asked>>
           ELSE /\ StallCounted(m)
                /\ IF m.full /\ BestHeight > TipHeight /\ m.accepted
                   THEN /\ phase' = Awaiting(m.peer)
                        /\ asked' = GetHeaders(asked, m.peer, mainChain, session')
                   ELSE /\ phase' = At(IF BestHeight = -1 THEN "Unknown"
                                       ELSE IF BestHeight > TipHeight THEN "Behind" ELSE "Synced")
                        /\ UNCHANGED asked
    /\ UNCHANGED <<chainVars, latest, eagerDone, query, peers, span, drops>>

-----------------------------------------------------------------------------
(* Connections.                                                            *)

\* maintain, on a connection the transport has lost: the peer and what was on
\* its way are gone, and a request to it is no longer awaited.
LosePeer(p) ==
    /\ Idle
    /\ peers[p] # "gone"
    /\ drops < MaxDrops
    /\ drops' = drops + 1
    /\ peers' = [peers EXCEPT ![p] = "gone"]
    /\ asked' = {r \in asked : r.peer # p}
    /\ phase' = IF phase = Awaiting(p) THEN At("Unknown") ELSE phase
    /\ UNCHANGED <<chainVars, latest, session, fallback, eagerDone, query, msg, span>>

\* A peer completes a new handshake.
PeerReady(p) ==
    /\ Idle
    /\ peers[p] = "gone"
    /\ peers' = [peers EXCEPT ![p] = "ready"]
    /\ UNCHANGED <<chainVars, latest, syncVars, msg, span, drops>>

\* The difficulty of genesis plays no part.
JoinInit ==
    /\ Init
    /\ blocks[Genesis].work = Min(Difficulties)
    /\ latest = NoHash
    /\ session = <<>> /\ fallback = FALSE /\ eagerDone = FALSE /\ query = NoPeer
    /\ phase = At("Unknown")
    /\ asked = {}
    /\ peers = [p \in Peers |-> "ready"]
    /\ msg = <<>> /\ span = <<>>
    /\ drops = 0

\* Batches a faulty peer may send: a longer one amounts to several of these.
FaultyBatches == {<<>>} \cup {<<h>> : h \in Hash \ {Genesis}}

JoinNext ==
    \/ Tick
    \/ \E p \in Peers, cp \in Attested : OnCheckpoint(p, cp)
    \/ \E p \in Peers : OnNoCheckpoint(p)
    \/ \E cp \in Attested : OnVotes(cp)
    \/ \E p \in Honest, from \in 0 .. MaxHeight : OnAnswer(p, from)
    \/ \E p \in Peers \ Honest, hs \in FaultyBatches : OnFaultyHeaders(p, hs)
    \/ \E p \in Peers, h \in Hash, kind \in {"header", "block"} : OnRelay(kind, p, h)
    \/ HandleHeader
    \/ AdmitHeader
    \/ FinalizeSpan
    \/ EndMessage
    \/ \E p \in Peers : LosePeer(p)
    \/ \E p \in Peers : PeerReady(p)

JoinSpec == JoinInit /\ [][JoinNext]_joinVars

\* The run loop handles every message to its end and ticks again and again; a lost
\* honest peer comes back, answers what it is asked, and announces the blocks it
\* mines, of which there is always one above every checkpoint.
FairJoinSpec ==
    /\ JoinSpec
    /\ WF_joinVars(HandleHeader \/ AdmitHeader \/ FinalizeSpan \/ EndMessage)
    /\ SF_joinVars(Tick)
    /\ \A p \in Honest : /\ SF_joinVars(PeerReady(p))
                         /\ SF_joinVars(\E from \in 0 .. MaxHeight : OnAnswer(p, from))
                         /\ SF_joinVars(OnRelay("header", p, Last(Serves[p])))

-----------------------------------------------------------------------------
(* Properties.                                                             *)

\* Only headers that pass validation, or that the attested hash commits to, enter
\* the chain: no header whose proof of work was never checked is ever known,
\* however a faulty peer extends the buffer (ingest_finalized_headers).
NoForgedHeader == \A h \in Known \ {Genesis} : Tree[h].valid

\* "Every fallible structural check ran above, before the validated chain was
\* touched" (ingest_finalized_headers): an admission that has begun inserts every
\* header of the span and marks the checkpoint final.
AdmissionCompletes ==
    [][span # <<>> /\ span' = <<>> => finalized' = latest /\ fallback' = fallback]_joinVars

\* Neither stale answers, nor a forged frontier, nor a lost or silent peer keeps the
\* joiner from the honest chain: its tip ends up there (the progress-or-die rule
\* of on_headers and the orphan kick of on_header).
Joins == \A p \in Honest : <>[](tip = Last(Serves[p]))
=============================================================================
