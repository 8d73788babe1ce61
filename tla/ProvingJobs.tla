----------------------------- MODULE ProvingJobs -----------------------------
(***************************************************************************)
(* The jobs of the Annulet proving service on a format-34 net              *)
(* (qumbra-prover-service, annulet.rs): clients upload bundles, one        *)
(* dispatcher proves them one at a time and hands the proved transactions  *)
(* to the node, and the service's fee is recorded in the paid ledger.      *)
(*                                                                         *)
(* The steps are the critical sections of the job state's mutex and the    *)
(* calls made outside it: the proof, the POST to the node and the ledger   *)
(* append.  The check against the landed nullifiers (NullifierFollow) may  *)
(* return anything here, so that it is made before the lock does not       *)
(* matter.  The upload's size, form, signature and fee are checked earlier *)
(* still and are left out: a bundle that fails them ends as an upload that *)
(* breaks off.  The result TTL is left out too: a finished job may expire  *)
(* at any time, and every handler drops expired jobs first.                *)
(***************************************************************************)
EXTENDS Integers, FiniteSets, FiniteSetsExt, SequencesExt

CONSTANTS
    Client,         \* client-IP keys
    Bundle,         \* proving bundles, one per intent
    Nullifiers,     \* [Bundle -> set of nullifiers]
    NoBundle,
    QueueCapacity,  \* AnnuletConfig::queue_capacity
    RetainedMax,    \* MAX_ANNULET_JOBS
    MaxFailures     \* bound: bundles whose ledger append fails

ASSUME JobsAssumption ==
    /\ NoBundle \notin Bundle
    /\ QueueCapacity \in Nat \ {0} /\ RetainedMax \in Nat \ {0} /\ MaxFailures \in Nat
\* Capabilities: 32 random bytes.  One that no record and no thread of the service
\* refers to any more stands for a new one.
Cap == 1 .. RetainedMax + 1

VARIABLES
    jobs,       \* State.jobs, and with it by_intent: [cap -> [bundle, who, phase, cancel]]
    pending,    \* State.pending
    reading,    \* State.reading: the clients with an upload under way
    worker,     \* the dispatcher: its stage and the job it is on
    ledger,     \* the bundles whose output-3 opening is in the paid ledger
    logged      \* the bundles whose opening could only be logged

vars == <<jobs, pending, reading, worker, ledger, logged>>

Ended == {"refused", "failed", "cancelled"}   \* without a transaction
Terminal == Ended \cup {"submitted"}
Live(job) == job.phase \notin Terminal

IdleWorker == [stage |-> "idle", cap |-> 0, bundle |-> NoBundle]

Without(f, S) == [c \in DOMAIN f \ S |-> f[c]]

\* State::in_flight and State::nullifier_claimed.
InFlight(js, x) == \E c \in DOMAIN js : js[c].who = x /\ Live(js[c])
Claimed(js, b) ==
    \E c \in DOMAIN js : js[c].phase \notin Ended /\ Nullifiers[js[c].bundle] \cap Nullifiers[b] # {}

Init ==
    /\ jobs = <<>> /\ pending = <<>>
    /\ reading = {}
    /\ worker = IdleWorker
    /\ ledger = {} /\ logged = {}

-----------------------------------------------------------------------------
(* Requests.                                                               *)

\* authorize_ip: one live job and one upload per client.
AuthorizeIp(x) ==
    /\ ~InFlight(jobs, x) /\ x \notin reading
    /\ reading' = reading \cup {x}
    /\ UNCHANGED <<jobs, pending, worker, ledger, logged>>

\* The upload is cut off, too large, or refused before the nullifiers are looked at:
\* the Admission is dropped.
UploadEnds(x) ==
    /\ x \in reading
    /\ reading' = reading \ {x}
    /\ UNCHANGED <<jobs, pending, worker, ledger, logged>>

\* by_intent: the retained job of b, if any.
OfIntent(b) == {c \in DOMAIN jobs : jobs[c].bundle = b}

\* submit: a known intent is its submitter's own job or a conflict, unless it ended
\* without a transaction: then the job is forgotten and the bundle looked at afresh.
Answered(x, b) ==
    \E c \in OfIntent(b) : jobs[c].who # x \/ jobs[c].phase \notin Ended
Retained(x, b) == IF Answered(x, b) THEN jobs ELSE Without(jobs, OfIntent(b))

\* submit: what stands against queueing b.
Refused(x, b, landed, js) ==
    \/ landed
    \/ Claimed(js, b)
    \/ InFlight(js, x)
    \/ Cardinality(DOMAIN js) >= RetainedMax
    \/ Len(pending) >= QueueCapacity

NewJob(b, x) == [bundle |-> b, who |-> x, phase |-> "queued", cancel |-> FALSE]

\* submit: answered with the known job, refused, or queued; `landed` is that a
\* nullifier of b has landed, or that the follow cannot tell.
Submit(x, b, landed) ==
    /\ x \in reading
    /\ LET js == Retained(x, b)
           cap == Min(Cap \ (DOMAIN js \cup {worker.cap}))
       IN IF Answered(x, b) \/ Refused(x, b, landed, js)
          THEN jobs' = js /\ UNCHANGED pending
          ELSE /\ jobs' = [c \in DOMAIN js \cup {cap} |->
                              IF c = cap THEN NewJob(b, x) ELSE js[c]]
               /\ pending' = Append(pending, cap)
    /\ reading' = reading \ {x}
    /\ UNCHANGED <<worker, ledger, logged>>

\* Mutant: the end is left to the dispatcher, which never sees a job out of the queue.
CancelFlagged(c) ==
    /\ c \in DOMAIN jobs /\ jobs[c].phase \in {"queued", "proving"}
    /\ jobs' = [jobs EXCEPT ![c].cancel = TRUE]
    /\ pending' = RemoveFirst(pending, c)
    /\ UNCHANGED <<reading, worker, ledger, logged>>

\* cancel: a queued or proving job; a queued one leaves the queue at once.
Cancel(c) ==
    /\ c \in DOMAIN jobs /\ jobs[c].phase \in {"queued", "proving"}
    /\ jobs' = [jobs EXCEPT ![c].phase = "cancelled", ![c].cancel = TRUE]
    /\ pending' = RemoveFirst(pending, c)
    /\ UNCHANGED <<reading, worker, ledger, logged>>

\* cleanup: a finished job is dropped when its TTL has passed.
Expires(c) == jobs[c].phase \in Terminal
Cleanup(c) ==
    /\ c \in DOMAIN jobs /\ Expires(c)
    /\ jobs' = Without(jobs, {c})
    /\ UNCHANGED <<pending, reading, worker, ledger, logged>>

-----------------------------------------------------------------------------
(* dispatch: one job at a time.                                            *)

\* Mutant: the cancel flag is not read again.
MayProceedIfKept(c) == c \in DOMAIN jobs

\* The job's record is there and its cancel flag, which the record shares with the
\* work item, is not set.
MayProceed(c) == c \in DOMAIN jobs /\ ~jobs[c].cancel

\* The next item; one whose job is gone or cancelled is skipped.
Take ==
    /\ worker.stage = "idle" /\ pending # <<>>
    /\ LET c == Head(pending)
       IN IF MayProceed(c)
          THEN /\ jobs' = [jobs EXCEPT ![c].phase = "proving"]
               /\ worker' = [stage |-> "proving", cap |-> c, bundle |-> jobs[c].bundle]
          ELSE UNCHANGED <<jobs, worker>>
    /\ pending' = Tail(pending)
    /\ UNCHANGED <<reading, ledger, logged>>

\* The child's answer, or its timeout or its end on cancellation.  The job is gone,
\* or was cancelled under the proof: nothing is submitted.
Proved(outcome) ==
    /\ worker.stage = "proving"
    /\ IF MayProceed(worker.cap)
       THEN /\ jobs' = [jobs EXCEPT ![worker.cap].phase = outcome]
            /\ worker' = IF outcome = "submitting" THEN [worker EXCEPT !.stage = "posting"]
                         ELSE IdleWorker
       ELSE worker' = IdleWorker /\ UNCHANGED jobs
    /\ UNCHANGED <<pending, reading, ledger, logged>>

\* finish: a cancelled job stays so, unless its transaction was submitted.
Finish(phase) ==
    /\ jobs' = IF worker.cap \in DOMAIN jobs
                  /\ (jobs[worker.cap].phase # "cancelled" \/ phase = "submitted")
               THEN [jobs EXCEPT ![worker.cap].phase = phase] ELSE jobs
    /\ worker' = IdleWorker

\* Mutant: the job reads `submitted` without a ledger entry.
PostAcceptedUnpaid ==
    /\ worker.stage = "posting"
    /\ worker' = [worker EXCEPT !.stage = "paid"]
    /\ UNCHANGED <<jobs, pending, reading, ledger, logged>>

\* POST /v1/tx: accepted (or a duplicate of an accepted one).
PostAccepted ==
    /\ worker.stage = "posting"
    /\ worker' = [worker EXCEPT !.stage = "accepted"]
    /\ UNCHANGED <<jobs, pending, reading, ledger, logged>>

\* POST /v1/tx: refused, or no answer, which need not mean that the node refused.
PostFails ==
    /\ worker.stage = "posting"
    /\ Finish("failed")
    /\ UNCHANGED <<pending, reading, ledger, logged>>

\* The opening, taken from the retained job, is appended and fsynced; a failed
\* append is logged.
AppendPaid ==
    /\ worker.stage = "accepted"
    /\ IF worker.cap \in DOMAIN jobs
       THEN \/ ledger' = ledger \cup {worker.bundle} /\ UNCHANGED logged
            \/ /\ Cardinality(logged \cup {worker.bundle}) <= MaxFailures
               /\ logged' = logged \cup {worker.bundle}
               /\ UNCHANGED ledger
       ELSE UNCHANGED <<ledger, logged>>
    /\ worker' = [worker EXCEPT !.stage = "paid"]
    /\ UNCHANGED <<jobs, pending, reading>>

\* The relay is told, and the job reads `submitted`.
FinishSubmitted ==
    /\ worker.stage = "paid"
    /\ Finish("submitted")
    /\ UNCHANGED <<pending, reading, ledger, logged>>

\* A restart: jobs, queue and uploads are lost, the ledger is not.  A line torn by
\* the crash is closed on opening and holds no entry.
Restart ==
    /\ jobs' = <<>> /\ pending' = <<>>
    /\ reading' = {} /\ worker' = IdleWorker
    /\ UNCHANGED <<ledger, logged>>

Dispatch ==
    \/ Take
    \/ \E o \in {"submitting", "refused", "failed"} : Proved(o)
    \/ PostAccepted \/ PostFails \/ AppendPaid \/ FinishSubmitted

Next ==
    \/ \E x \in Client :
          \/ AuthorizeIp(x) \/ UploadEnds(x)
          \/ \E b \in Bundle, landed \in BOOLEAN : Submit(x, b, landed)
    \/ \E c \in DOMAIN jobs : Cancel(c) \/ Cleanup(c)
    \/ Dispatch
    \/ Restart

Spec == Init /\ [][Next]_vars

\* The dispatcher thread runs, the prover's child is timed out and the node's
\* connection has a deadline, so none of its steps is put off for ever.
FairSpec == Spec /\ WF_vars(Dispatch)

-----------------------------------------------------------------------------
(* Properties.                                                             *)

\* "Whoever holds it can cancel the job", and no nullifier is claimed twice: what is
\* handed to the node belongs to a retained job that reads `submitting`, never to
\* one whose client was told it is cancelled, and no two jobs that may still land
\* spend one nullifier, however cancels, expiries and retries fall.
SubmissionsAreClaimed ==
    /\ worker.stage \in {"posting", "accepted", "paid"} =>
          worker.cap \in DOMAIN jobs /\ jobs[worker.cap].phase = "submitting"
    /\ \A c, d \in DOMAIN jobs :
          c # d /\ jobs[c].phase \notin Ended /\ jobs[d].phase \notin Ended =>
             Nullifiers[jobs[c].bundle] \cap Nullifiers[jobs[d].bundle] = {}

\* "An accepted submission's output-3 opening is appended to the paid ledger and
\* fsynced before the job reads `submitted`" (annulet.rs), or its failure logged: by
\* the time the dispatcher lets go of an accepted job, the fee is on record.
PaidBeforeSubmitted ==
    /\ worker.stage = "paid" => worker.bundle \in ledger \cup logged
    /\ \A c \in DOMAIN jobs : jobs[c].phase = "submitted" => jobs[c].bundle \in ledger \cup logged

\* A job that was admitted ends, whatever is cancelled, fails or expires around it.
EveryJobEnds ==
    \A c \in Cap : c \in DOMAIN jobs ~> (c \in DOMAIN jobs => jobs[c].phase \in Terminal)

-----------------------------------------------------------------------------
(* A claim of the code's comments that does not hold (README, section 3).  *)

\* "The job URL is a capability ... valid for the result TTL after the job ends"
\* (annulet.rs): only its expiry takes a finished job away.
JobUrlLasts ==
    [][\A c \in DOMAIN jobs \ DOMAIN jobs' : Cleanup(c) \/ Restart]_vars
=============================================================================
