------------------------- MODULE ProverServiceProofs -------------------------
(***************************************************************************)
(* Proofs about the proving service: its jobs (ProvingJobs), for every set *)
(* of clients, bundles and nullifiers and every limit, and its set of      *)
(* landed nullifiers (NullifierFollow), for every tree of blocks, window   *)
(* and page size.                                                          *)
(*                                                                         *)
(* The jobs.  The record of the job the dispatcher is on is either as the  *)
(* dispatcher left it, or cancelled with its flag set, or gone; once the   *)
(* dispatcher has read the flag and written `submitting`, no client call   *)
(* touches the record any more.  That needs the queue: what is in it is    *)
(* queued, once, so a job is never taken twice.  A capability is never     *)
(* reused while the dispatcher refers to it, so the record is that job's.  *)
(*                                                                         *)
(* The landed nullifiers.  FollowInv is inductive: the set is the one of a *)
(* block t with the last blocks of t's branch in its window (Follows), the *)
(* file replays to that set, and the page in the poll's hands extends t.   *)
(* A page is not known to pair headers and nullifiers of one branch; but   *)
(* if it does not, then the node had left the branch of its headers when   *)
(* it was paired (a header on the node's branch fixes all before it), and  *)
(* under LeavesForGood the page's last check fails.  A rollback is exact   *)
(* because no branch spends a nullifier twice.  Every prefix of a page     *)
(* replays to a set of one branch, which is what a crash leaves.           *)
(***************************************************************************)
EXTENDS ProvingJobs, NullifierFollow, SequenceTheorems, FiniteSetTheorems, NaturalsInduction,
        WellFoundedInduction, TLAPS

Job == [bundle : Bundle, who : Client, cancel : BOOLEAN,
        phase : {"queued", "proving", "submitting"} \cup Terminal]

JobsTyped ==
    /\ DOMAIN jobs \subseteq Cap
    /\ \A c \in DOMAIN jobs : jobs[c] \in Job
    /\ reading \subseteq Client

\* What is in the queue is a retained job that is queued, and is there once.
QueueOK ==
    /\ pending \in Seq(Cap)
    /\ \A i \in DOMAIN pending : pending[i] \in DOMAIN jobs /\ jobs[pending[i]].phase = "queued"
    /\ \A i, j \in DOMAIN pending : pending[i] = pending[j] => i = j

\* The record of the dispatcher's job, while it proves and once it submits.
WorkerOK ==
    /\ worker.stage \in {"idle", "proving", "posting", "accepted", "paid"}
    /\ worker = [stage |-> worker.stage, cap |-> worker.cap, bundle |-> worker.bundle]
    /\ worker.stage = "proving" /\ worker.cap \in DOMAIN jobs =>
          /\ jobs[worker.cap].bundle = worker.bundle
          /\ \/ jobs[worker.cap].phase = "proving" /\ ~ jobs[worker.cap].cancel
             \/ jobs[worker.cap].phase = "cancelled" /\ jobs[worker.cap].cancel
    /\ worker.stage \in {"posting", "accepted", "paid"} =>
          /\ worker.cap \in DOMAIN jobs
          /\ jobs[worker.cap].phase = "submitting"
          /\ jobs[worker.cap].bundle = worker.bundle

\* No two jobs that may still land spend one nullifier.
ClaimsDisjoint ==
    \A c, d \in DOMAIN jobs :
       c # d /\ jobs[c].phase \notin Ended /\ jobs[d].phase \notin Ended =>
          Nullifiers[jobs[c].bundle] \cap Nullifiers[jobs[d].bundle] = {}

\* The inductive invariant.
IInv == JobsTyped /\ QueueOK /\ WorkerOK /\ ClaimsDisjoint /\ PaidBeforeSubmitted

-----------------------------------------------------------------------------
(* A new job.                                                              *)

\* A non-empty set of naturals contains its minimum.
LEMMA MinIsMember == ASSUME NEW S \in SUBSET Nat, S # {} PROVE Min(S) \in S
<1>1. PICK x \in S : \A y \in S : ~ (<<y, x>> \in OpToRel(<, Nat))
  BY NatLessThanWellFounded, WFMin
<1>2. ASSUME NEW y \in S PROVE x =< y
  <2>1. y \in Nat /\ x \in Nat
    OBVIOUS
  <2>2. ~ (<<y, x>> \in OpToRel(<, Nat))
    BY <1>1
  <2>3. ~ (y < x)
    BY <2>1, <2>2 DEF OpToRel
  <2> QED
    BY <2>1, <2>3
<1>3. \E z \in S : \A y \in S : z =< y
  BY <1>2
<1> QED
  BY <1>3 DEF Min

\* With a job's place free there is a capability that nothing refers to.
LEMMA FreshCap ==
    ASSUME NEW D \in SUBSET Cap, Cardinality(D) < RetainedMax, NEW w
    PROVE  Min(Cap \ (D \cup {w})) \in Cap \ (D \cup {w})
<1>1. RetainedMax \in Nat /\ IsFiniteSet(Cap) /\ Cardinality(Cap) = RetainedMax + 1 /\ Cap \subseteq Nat
  BY JobsAssumption, FS_Interval DEF Cap
<1>2. IsFiniteSet(D) /\ Cardinality(D) \in Nat
  BY <1>1, FS_Subset, FS_CardinalityType
<1>3. /\ IsFiniteSet(D \cup {w}) /\ Cardinality(D \cup {w}) <= Cardinality(D) + 1
      /\ Cardinality(D \cup {w}) \in Nat
  <2>1. /\ IsFiniteSet(D \cup {w})
        /\ Cardinality(D \cup {w}) = IF w \in D THEN Cardinality(D) ELSE Cardinality(D) + 1
    BY <1>2, FS_AddElement
  <2> QED
    BY <1>2, <2>1
<1>4. Cap \ (D \cup {w}) # {}
  <2> SUFFICES ASSUME Cap \subseteq D \cup {w} PROVE FALSE
    OBVIOUS
  <2>1. Cardinality(Cap) <= Cardinality(D \cup {w})
    BY <1>3, FS_Subset
  <2> QED
    BY <1>1, <1>2, <1>3, <2>1
<1> QED
  BY <1>1, <1>4, MinIsMember

-----------------------------------------------------------------------------
(* The steps.                                                              *)

LEMMA InitIInv == Init => IInv
<1> SUFFICES ASSUME Init PROVE IInv
  OBVIOUS
<1>1. JobsTyped /\ QueueOK
  BY DEF Init, JobsTyped, QueueOK
<1>2. WorkerOK /\ ClaimsDisjoint /\ PaidBeforeSubmitted
  BY DEF Init, WorkerOK, ClaimsDisjoint, PaidBeforeSubmitted, IdleWorker
<1> QED
  BY <1>1, <1>2 DEF IInv

\* authorize_ip and an upload that ends change only who is uploading.
LEMMA UploadStep ==
    ASSUME IInv, NEW x \in Client, AuthorizeIp(x) \/ UploadEnds(x) PROVE IInv'
<1>1. reading' \subseteq Client /\ UNCHANGED <<jobs, pending, worker, ledger, logged>>
  BY DEF IInv, JobsTyped, AuthorizeIp, UploadEnds
<1> QED
  BY <1>1 DEF IInv, JobsTyped, QueueOK, WorkerOK, ClaimsDisjoint, PaidBeforeSubmitted

\* Dropping finished jobs, as a resubmission and the cleanup do, concerns neither
\* the queue nor what the dispatcher is submitting.
LEMMA WithoutOK ==
    ASSUME IInv, NEW S, \A c \in S \cap DOMAIN jobs : jobs[c].phase \in Terminal,
           NEW js, js = Without(jobs, S)
    PROVE  /\ DOMAIN js \subseteq DOMAIN jobs
           /\ \A c \in DOMAIN js : js[c] = jobs[c]
           /\ \A i \in DOMAIN pending : pending[i] \in DOMAIN js
           /\ worker.stage \in {"posting", "accepted", "paid"} => worker.cap \in DOMAIN js
<1>1. /\ DOMAIN js = DOMAIN jobs \ S
      /\ \A c \in DOMAIN js : js[c] = jobs[c]
  BY DEF Without
<1>2. "queued" \notin Terminal /\ "submitting" \notin Terminal
  BY DEF Terminal, Ended
<1> QED
  BY <1>1, <1>2 DEF IInv, QueueOK, WorkerOK

\* A step that only drops such jobs.
LEMMA DropStep ==
    ASSUME IInv, DOMAIN jobs' \subseteq DOMAIN jobs, \A c \in DOMAIN jobs' : jobs'[c] = jobs[c],
           \A i \in DOMAIN pending : pending[i] \in DOMAIN jobs',
           worker.stage \in {"posting", "accepted", "paid"} => worker.cap \in DOMAIN jobs',
           reading' \subseteq reading, UNCHANGED <<pending, worker, ledger, logged>>
    PROVE  IInv'
<1>1. JobsTyped'
  BY DEF IInv, JobsTyped
<1>2. QueueOK'
  BY DEF IInv, QueueOK
<1>3. WorkerOK'
  BY DEF IInv, WorkerOK
<1>4. ClaimsDisjoint' /\ PaidBeforeSubmitted'
  BY DEF IInv, ClaimsDisjoint, PaidBeforeSubmitted
<1> QED
  BY <1>1, <1>2, <1>3, <1>4 DEF IInv

LEMMA CleanupStep == ASSUME IInv, NEW c \in DOMAIN jobs, Cleanup(c) PROVE IInv'
<1>1. \A d \in {c} \cap DOMAIN jobs : jobs[d].phase \in Terminal
  BY DEF Cleanup, Expires
<1> QED
  BY <1>1, WithoutOK, DropStep DEF Cleanup

LEMMA SubmitStep ==
    ASSUME IInv, NEW x \in Client, NEW b \in Bundle, NEW landed \in BOOLEAN, Submit(x, b, landed)
    PROVE  IInv'
<1> DEFINE js == Retained(x, b)
           cap == Min(Cap \ (DOMAIN js \cup {worker.cap}))
<1>1. /\ DOMAIN js \subseteq DOMAIN jobs
      /\ \A c \in DOMAIN js : js[c] = jobs[c]
      /\ \A i \in DOMAIN pending : pending[i] \in DOMAIN js
      /\ worker.stage \in {"posting", "accepted", "paid"} => worker.cap \in DOMAIN js
  <2>1. CASE Answered(x, b)
    BY <2>1 DEF Retained, IInv, QueueOK, WorkerOK
  <2>2. CASE ~ Answered(x, b)
    <3>1. \A c \in OfIntent(b) \cap DOMAIN jobs : jobs[c].phase \in Terminal
      BY <2>2 DEF Answered, Terminal
    <3>2. js = Without(jobs, OfIntent(b))
      BY <2>2 DEF Retained
    <3> QED
      BY <3>1, <3>2, WithoutOK
  <2> QED
    BY <2>1, <2>2
<1>2. reading' \subseteq reading /\ UNCHANGED <<worker, ledger, logged>>
  BY DEF Submit
<1>3. CASE jobs' = js /\ UNCHANGED pending
  <2> HIDE DEF js
  <2> QED
    BY <1>1, <1>2, <1>3, DropStep
<1>4. CASE /\ ~ Refused(x, b, landed, js)
           /\ jobs' = [c \in DOMAIN js \cup {cap} |-> IF c = cap THEN NewJob(b, x) ELSE js[c]]
           /\ pending' = Append(pending, cap)
  <2> HIDE DEF js
  <2>1. cap \in Cap /\ cap \notin DOMAIN js /\ cap # worker.cap
    <3>1. Cardinality(DOMAIN js) < RetainedMax
      <4>1. DOMAIN js \subseteq Cap /\ RetainedMax \in Nat /\ IsFiniteSet(Cap)
        BY <1>1, JobsAssumption, FS_Interval DEF IInv, JobsTyped, Cap
      <4>2. Cardinality(DOMAIN js) \in Nat
        BY <4>1, FS_Subset, FS_CardinalityType
      <4> QED
        BY <4>1, <4>2, <1>4 DEF Refused
    <3>2. DOMAIN js \in SUBSET Cap
      BY <1>1 DEF IInv, JobsTyped
    <3> QED
      BY <3>1, <3>2, FreshCap
  <2> HIDE DEF cap
  <2>2. /\ DOMAIN jobs' = DOMAIN js \cup {cap}
        /\ jobs'[cap] = NewJob(b, x)
        /\ \A c \in DOMAIN js : jobs'[c] = jobs[c]
    BY <1>1, <1>4, <2>1
  <2>3. JobsTyped'
    <3>1. NewJob(b, x) \in Job
      BY DEF NewJob, Job
    <3> QED
      BY <1>1, <1>2, <2>1, <2>2, <3>1 DEF IInv, JobsTyped
  <2>4. QueueOK'
    <3>1. pending \in Seq(Cap) /\ Len(pending) \in Nat /\ DOMAIN pending = 1 .. Len(pending)
      BY DEF IInv, QueueOK
    <3>2. /\ pending' \in Seq(Cap) /\ DOMAIN pending' = 1 .. Len(pending) + 1
          /\ \A i \in 1 .. Len(pending) : pending'[i] = pending[i]
          /\ pending'[Len(pending) + 1] = cap
      BY <1>4, <2>1, <3>1, AppendProperties
    <3>3. jobs'[cap].phase = "queued"
      BY <2>2 DEF NewJob
    <3>4. \A i \in DOMAIN pending : pending[i] # cap
      BY <1>1, <2>1
    <3>5. ASSUME NEW i \in DOMAIN pending'
          PROVE  pending'[i] \in DOMAIN jobs' /\ jobs'[pending'[i]].phase = "queued"
      <4>1. CASE i \in DOMAIN pending
        BY <4>1, <3>1, <3>2, <1>1, <2>2 DEF IInv, QueueOK
      <4>2. CASE i = Len(pending) + 1
        BY <4>2, <3>2, <3>3, <2>2
      <4> QED
        BY <3>1, <3>2, <4>1, <4>2
    <3>6. ASSUME NEW i \in DOMAIN pending', NEW j \in DOMAIN pending', pending'[i] = pending'[j]
          PROVE  i = j
      BY <3>1, <3>2, <3>4, <3>6 DEF IInv, QueueOK
    <3> QED
      BY <3>2, <3>5, <3>6 DEF QueueOK
  <2>5. WorkerOK'
    BY <1>1, <1>2, <2>1, <2>2 DEF IInv, WorkerOK
  <2>6. ClaimsDisjoint'
    <3>1. \A c \in DOMAIN js : jobs[c].phase \notin Ended => Nullifiers[jobs[c].bundle] \cap Nullifiers[b] = {}
      BY <1>1, <1>4 DEF Refused, Claimed
    <3>2. jobs'[cap].bundle = b
      BY <2>2 DEF NewJob
    <3> QED
      BY <1>1, <2>1, <2>2, <3>1, <3>2 DEF IInv, ClaimsDisjoint
  <2>7. PaidBeforeSubmitted'
    BY <1>1, <1>2, <2>2 DEF IInv, PaidBeforeSubmitted, NewJob
  <2> QED
    BY <2>3, <2>4, <2>5, <2>6, <2>7 DEF IInv
<1> QED
  BY <1>3, <1>4 DEF Submit

\* remove(i) at the first position of c: what is left is of the queue, in its order.
LEMMA RemovedOK ==
    ASSUME QueueOK, NEW c \in DOMAIN jobs
    PROVE  LET q == RemoveFirst(pending, c)
           IN  /\ q \in Seq(Cap)
               /\ \A i \in DOMAIN q : \E j \in DOMAIN pending : q[i] = pending[j]
               /\ \A i, j \in DOMAIN q : q[i] = q[j] => i = j
               /\ \A i \in DOMAIN q : q[i] # c
<1> DEFINE q == RemoveFirst(pending, c)
           n == Len(pending)
           I == {i \in 1 .. n : pending[i] = c}
<1>1. pending \in Seq(Cap) /\ n \in Nat /\ DOMAIN pending = 1 .. n
  BY DEF QueueOK
<1>2. CASE I = {}
  <2>1. q = pending
    BY <1>2 DEF RemoveFirst
  <2> QED
    BY <1>1, <1>2, <2>1 DEF QueueOK
<1>3. CASE I # {}
  <2> DEFINE k == Min(I)
  <2>1. k \in I
    <3>1. I \in SUBSET Nat
      OBVIOUS
    <3> QED
      BY <1>3, <3>1, MinIsMember
  <2>2. q = SubSeq(pending, 1, k - 1) \o SubSeq(pending, k + 1, n)
    BY <1>3 DEF RemoveFirst, RemoveAt, SelectInSeq
  <2> DEFINE l == SubSeq(pending, 1, k - 1)
             r == SubSeq(pending, k + 1, n)
  <2> HIDE DEF I
  <2>3. k \in 1 .. n /\ pending[k] = c
    BY <2>1 DEF I
  <2> HIDE DEF k
  <2>4. /\ l \in Seq(Cap) /\ Len(l) = k - 1
        /\ \A i \in 1 .. k - 1 : l[i] = pending[i]
    BY <1>1, <2>3
  <2>5. /\ r \in Seq(Cap) /\ Len(r) = n - k
        /\ \A i \in 1 .. n - k : r[i] = pending[k + i]
    <3>1. \A i \in k + 1 .. n : pending[i] \in Cap
      BY <1>1, <2>3
    <3>2. k + 1 \in Int /\ n \in Int
      BY <1>1, <2>3
    <3> HIDE DEF n
    <3>3. /\ r \in Seq(Cap)
          /\ Len(r) = IF k + 1 <= n THEN n - (k + 1) + 1 ELSE 0
          /\ \A i \in 1 .. n - (k + 1) + 1 : r[i] = pending[k + 1 + i - 1]
      BY <3>1, <3>2, SubSeqProperties
    <3>4. n - (k + 1) + 1 = n - k /\ \A i \in 1 .. n - k : k + 1 + i - 1 = k + i
      BY <1>1, <2>3
    <3> QED
      BY <3>3, <3>4, <1>1, <2>3
  <2> HIDE DEF l, r
  <2>6. /\ q \in Seq(Cap) /\ Len(q) = n - 1 /\ DOMAIN q = 1 .. n - 1
        /\ \A i \in 1 .. n - 1 : q[i] = IF i <= k - 1 THEN l[i] ELSE r[i - (k - 1)]
    <3>1. q = l \o r
      BY <2>2 DEF l, r
    <3> HIDE DEF q
    <3>2. /\ q \in Seq(Cap) /\ Len(q) = (k - 1) + (n - k)
          /\ \A i \in 1 .. (k - 1) + (n - k) : q[i] = IF i <= k - 1 THEN l[i] ELSE r[i - (k - 1)]
      <4> HIDE DEF n
      <4>1. /\ l \o r \in Seq(Cap) /\ Len(l \o r) = Len(l) + Len(r)
            /\ \A i \in 1 .. Len(l) + Len(r) :
                  (l \o r)[i] = IF i <= Len(l) THEN l[i] ELSE r[i - Len(l)]
        BY <2>4, <2>5, ConcatProperties
      <4> QED
        BY <4>1, <3>1, <2>4, <2>5
    <3>3. (k - 1) + (n - k) = n - 1
      BY <1>1, <2>3
    <3> HIDE DEF n
    <3> QED
      BY <3>2, <3>3, <1>1
  <2> HIDE DEF q
  <2>7. \A i \in 1 .. n - 1 : q[i] = pending[IF i < k THEN i ELSE i + 1]
    <3> SUFFICES ASSUME NEW i \in 1 .. n - 1 PROVE q[i] = pending[IF i < k THEN i ELSE i + 1]
      OBVIOUS
    <3>1. CASE i < k
      BY <3>1, <2>3, <2>4, <2>6, <1>1
    <3>2. CASE ~ (i < k)
      <4>1. i - (k - 1) \in 1 .. n - k /\ k + (i - (k - 1)) = i + 1
        BY <3>2, <2>3, <1>1
      <4> HIDE DEF n
      <4>2. q[i] = r[i - (k - 1)]
        BY <3>2, <2>3, <2>6, <1>1
      <4> QED
        BY <3>2, <4>1, <4>2, <2>5
    <3> QED
      BY <3>1, <3>2
  <2>8. \A i, j \in DOMAIN pending : pending[i] = pending[j] => i = j
    BY DEF QueueOK
  <2>9. \A i \in DOMAIN q : \E j \in DOMAIN pending : q[i] = pending[j] /\ j # k /\ j = IF i < k THEN i ELSE i + 1
    BY <1>1, <2>3, <2>6, <2>7
  <2>10. \A i \in DOMAIN q : q[i] # c
    BY <1>1, <2>3, <2>8, <2>9
  <2>11. \A i, j \in DOMAIN q : q[i] = q[j] => i = j
    BY <1>1, <2>3, <2>6, <2>8, <2>9
  <2> QED
    BY <2>6, <2>9, <2>10, <2>11 DEF q
<1> QED
  BY <1>2, <1>3

\* The record c as a step leaves it: its phase, and perhaps its cancel flag, written.
Written(c, phase) ==
    /\ DOMAIN jobs' = DOMAIN jobs
    /\ \A d \in DOMAIN jobs \ {c} : jobs'[d] = jobs[d]
    /\ jobs'[c] \in Job /\ jobs'[c].phase = phase
    /\ jobs'[c].bundle = jobs[c].bundle /\ jobs'[c].who = jobs[c].who

LEMMA PhaseWritten ==
    ASSUME IInv, NEW c \in DOMAIN jobs, NEW phase \in {"queued", "proving", "submitting"} \cup Terminal,
           jobs' = [jobs EXCEPT ![c].phase = phase]
    PROVE  Written(c, phase) /\ jobs'[c].cancel = jobs[c].cancel
<1>1. jobs[c] \in Job
  BY DEF IInv, JobsTyped
<1>2. jobs'[c] = [jobs[c] EXCEPT !.phase = phase]
  OBVIOUS
<1>3. /\ jobs'[c] \in Job /\ jobs'[c].phase = phase /\ jobs'[c].cancel = jobs[c].cancel
      /\ jobs'[c].bundle = jobs[c].bundle /\ jobs'[c].who = jobs[c].who
  BY <1>1, <1>2 DEF Job
<1> QED
  BY <1>3 DEF Written

\* Such a step keeps the claims apart, unless it revives a job, and the fees
\* recorded, unless it is the job's submission.
LEMMA WrittenOK ==
    ASSUME IInv, NEW c \in DOMAIN jobs, NEW phase, Written(c, phase),
           phase \in Ended \/ jobs[c].phase \notin Ended,
           phase # "submitted" \/ jobs[c].bundle \in ledger' \cup logged',
           ledger \subseteq ledger', logged \subseteq logged', reading' = reading
    PROVE  /\ JobsTyped' /\ ClaimsDisjoint'
           /\ \A d \in DOMAIN jobs' : jobs'[d].phase = "submitted" =>
                 jobs'[d].bundle \in ledger' \cup logged'
<1>1. JobsTyped'
  BY DEF IInv, JobsTyped, Written
<1>2. ClaimsDisjoint'
  <2> SUFFICES ASSUME NEW d \in DOMAIN jobs, NEW e \in DOMAIN jobs, d # e,
                      jobs'[d].phase \notin Ended, jobs'[e].phase \notin Ended
               PROVE  Nullifiers[jobs'[d].bundle] \cap Nullifiers[jobs'[e].bundle] = {}
    BY DEF ClaimsDisjoint, Written
  <2>1. \A f \in {d, e} : jobs'[f].bundle = jobs[f].bundle /\ jobs[f].phase \notin Ended
    BY DEF Written
  <2> QED
    BY <2>1 DEF IInv, ClaimsDisjoint
<1>3. ASSUME NEW d \in DOMAIN jobs', jobs'[d].phase = "submitted"
      PROVE  jobs'[d].bundle \in ledger' \cup logged'
  <2>1. CASE d = c
    BY <1>3, <2>1 DEF Written
  <2>2. CASE d # c
    BY <1>3, <2>2 DEF Written, IInv, PaidBeforeSubmitted
  <2> QED
    BY <2>1, <2>2
<1> QED
  BY <1>1, <1>2, <1>3

LEMMA CancelStep == ASSUME IInv, NEW c \in DOMAIN jobs, Cancel(c) PROVE IInv'
<1>1. jobs[c] \in Job /\ jobs[c].phase \in {"queued", "proving"}
  BY DEF IInv, JobsTyped, Cancel
<1>2. jobs'[c] = [[jobs[c] EXCEPT !.phase = "cancelled"] EXCEPT !.cancel = TRUE]
  BY DEF Cancel
<1>3. Written(c, "cancelled") /\ jobs'[c].cancel
  <2>1. /\ jobs'[c] \in Job /\ jobs'[c].phase = "cancelled" /\ jobs'[c].cancel
        /\ jobs'[c].bundle = jobs[c].bundle /\ jobs'[c].who = jobs[c].who
    BY <1>1, <1>2 DEF Job, Terminal, Ended
  <2> QED
    BY <2>1 DEF Written, Cancel
<1>4. UNCHANGED <<reading, worker, ledger, logged>> /\ pending' = RemoveFirst(pending, c)
  BY DEF Cancel
<1>5. JobsTyped' /\ ClaimsDisjoint' /\ PaidBeforeSubmitted'
  <2>1. "cancelled" \in Ended
    BY DEF Ended
  <2>2. /\ JobsTyped' /\ ClaimsDisjoint'
        /\ \A d \in DOMAIN jobs' : jobs'[d].phase = "submitted" =>
              jobs'[d].bundle \in ledger' \cup logged'
    BY <1>3, <1>4, <2>1, WrittenOK
  <2> QED
    BY <2>2, <1>4 DEF IInv, PaidBeforeSubmitted
<1>6. QueueOK'
  <2>1. /\ pending' \in Seq(Cap)
        /\ \A i \in DOMAIN pending' : \E j \in DOMAIN pending : pending'[i] = pending[j]
        /\ \A i, j \in DOMAIN pending' : pending'[i] = pending'[j] => i = j
        /\ \A i \in DOMAIN pending' : pending'[i] # c
    BY <1>4, RemovedOK DEF IInv
  <2> QED
    BY <1>3, <2>1 DEF IInv, QueueOK, Written
<1>7. WorkerOK'
  <2>1. worker.stage \in {"posting", "accepted", "paid"} => worker.cap # c
    BY <1>1 DEF IInv, WorkerOK
  <2> QED
    BY <1>3, <1>4, <2>1 DEF IInv, WorkerOK, Written
<1> QED
  BY <1>5, <1>6, <1>7 DEF IInv

-----------------------------------------------------------------------------
(* The dispatcher.                                                         *)

\* A job leaves the queue from its head.
LEMMA PopOK ==
    ASSUME QueueOK, pending # <<>>
    PROVE  /\ Head(pending) \in DOMAIN jobs /\ jobs[Head(pending)].phase = "queued"
           /\ Tail(pending) \in Seq(Cap)
           /\ \A i \in DOMAIN Tail(pending) :
                 \E j \in DOMAIN pending : Tail(pending)[i] = pending[j] /\ j = i + 1
           /\ \A i \in DOMAIN Tail(pending) : Tail(pending)[i] # Head(pending)
<1>1. pending \in Seq(Cap) /\ Len(pending) \in Nat \ {0} /\ DOMAIN pending = 1 .. Len(pending)
  BY DEF QueueOK
<1>2. /\ Tail(pending) \in Seq(Cap) /\ DOMAIN Tail(pending) = 1 .. Len(pending) - 1
      /\ \A i \in 1 .. Len(pending) - 1 : Tail(pending)[i] = pending[i + 1]
      /\ Head(pending) = pending[1]
  BY <1>1
<1>3. \A i \in 1 .. Len(pending) - 1 : i + 1 \in 1 .. Len(pending) /\ i + 1 # 1
  BY <1>1
<1> QED
  BY <1>1, <1>2, <1>3 DEF QueueOK

LEMMA TakeStep == ASSUME IInv, Take PROVE IInv'
<1> DEFINE c == Head(pending)
<1>1. QueueOK /\ pending # <<>> /\ worker.stage = "idle" /\ UNCHANGED <<reading, ledger, logged>>
  BY DEF IInv, Take
<1>2. /\ c \in DOMAIN jobs /\ jobs[c].phase = "queued"
      /\ pending' \in Seq(Cap)
      /\ \A i \in DOMAIN pending' : \E j \in DOMAIN pending : pending'[i] = pending[j] /\ j = i + 1
      /\ \A i \in DOMAIN pending' : pending'[i] # c
  BY <1>1, PopOK DEF Take
<1>3. \A i, j \in DOMAIN pending' : pending'[i] = pending'[j] => i = j
  <2> SUFFICES ASSUME NEW i \in DOMAIN pending', NEW j \in DOMAIN pending', pending'[i] = pending'[j]
               PROVE  i = j
    OBVIOUS
  <2>1. i + 1 \in DOMAIN pending /\ j + 1 \in DOMAIN pending /\ pending[i + 1] = pending[j + 1]
    BY <1>2
  <2>2. i + 1 = j + 1 /\ i \in Int /\ j \in Int
    BY <2>1, <1>1, <1>2 DEF QueueOK
  <2> QED
    BY <2>2
<1> HIDE DEF c
<1>4. CASE UNCHANGED <<jobs, worker>>
  <2>1. QueueOK'
    BY <1>2, <1>3, <1>4 DEF IInv, QueueOK
  <2> QED
    BY <1>1, <1>4, <2>1 DEF IInv, JobsTyped, WorkerOK, ClaimsDisjoint, PaidBeforeSubmitted
<1>5. CASE /\ MayProceed(c)
           /\ jobs' = [jobs EXCEPT ![c].phase = "proving"]
           /\ worker' = [stage |-> "proving", cap |-> c, bundle |-> jobs[c].bundle]
  <2>1. Written(c, "proving") /\ jobs'[c].cancel = jobs[c].cancel
    BY <1>2, <1>5, PhaseWritten
  <2>2. /\ JobsTyped' /\ ClaimsDisjoint'
        /\ \A d \in DOMAIN jobs' : jobs'[d].phase = "submitted" =>
              jobs'[d].bundle \in ledger' \cup logged'
    <3>1. jobs[c].phase \notin Ended
      BY <1>2 DEF Ended
    <3> QED
      BY <1>1, <1>2, <2>1, <3>1, WrittenOK
  <2>3. QueueOK'
    BY <1>2, <1>3, <2>1 DEF IInv, QueueOK, Written
  <2>4. WorkerOK'
    BY <1>5, <2>1 DEF WorkerOK, Written, MayProceed
  <2>5. PaidBeforeSubmitted'
    BY <1>5, <2>2 DEF PaidBeforeSubmitted
  <2> QED
    BY <2>2, <2>3, <2>4, <2>5 DEF IInv
<1> QED
  BY <1>4, <1>5 DEF Take, c

\* A step of the dispatcher that writes the record of its job, which is not queued.
LEMMA DispatchWrites ==
    ASSUME IInv, worker.cap \in DOMAIN jobs, jobs[worker.cap].phase \in {"proving", "submitting"},
           NEW phase \in {"submitting"} \cup Terminal,
           jobs' = [jobs EXCEPT ![worker.cap].phase = phase],
           phase # "submitted" \/ jobs[worker.cap].bundle \in ledger \cup logged,
           UNCHANGED <<pending, reading, ledger, logged>>
    PROVE  /\ JobsTyped' /\ QueueOK' /\ ClaimsDisjoint' /\ Written(worker.cap, phase)
           /\ \A d \in DOMAIN jobs' : jobs'[d].phase = "submitted" =>
                 jobs'[d].bundle \in ledger' \cup logged'
<1>1. Written(worker.cap, phase)
  BY PhaseWritten
<1>2. jobs[worker.cap].phase \notin Ended
  BY DEF Ended
<1>3. QueueOK'
  BY <1>1 DEF IInv, QueueOK, Written
<1> QED
  BY <1>1, <1>2, <1>3, WrittenOK

LEMMA ProvedStep ==
    ASSUME IInv, NEW o \in {"submitting", "refused", "failed"}, Proved(o) PROVE IInv'
<1>1. worker.stage = "proving" /\ UNCHANGED <<pending, reading, ledger, logged>>
  BY DEF Proved
<1>2. CASE MayProceed(worker.cap)
  <2>1. /\ worker.cap \in DOMAIN jobs /\ jobs[worker.cap].phase = "proving"
        /\ jobs[worker.cap].bundle = worker.bundle
    BY <1>1, <1>2 DEF MayProceed, IInv, WorkerOK
  <2>2. /\ jobs' = [jobs EXCEPT ![worker.cap].phase = o]
        /\ worker' = IF o = "submitting" THEN [worker EXCEPT !.stage = "posting"] ELSE IdleWorker
    BY <1>2 DEF Proved
  <2>3. /\ JobsTyped' /\ QueueOK' /\ ClaimsDisjoint' /\ Written(worker.cap, o)
        /\ \A d \in DOMAIN jobs' : jobs'[d].phase = "submitted" =>
              jobs'[d].bundle \in ledger' \cup logged'
    <3>1. o \in {"submitting"} \cup Terminal /\ o # "submitted"
      BY DEF Terminal, Ended
    <3> QED
      BY <1>1, <2>1, <2>2, <3>1, DispatchWrites
  <2>4. WorkerOK' /\ worker'.stage # "paid"
    <3>1. CASE o = "submitting"
      <4>1. worker' = [stage |-> "posting", cap |-> worker.cap, bundle |-> worker.bundle]
        BY <2>2, <3>1 DEF IInv, WorkerOK
      <4> QED
        BY <2>1, <2>3, <3>1, <4>1 DEF WorkerOK, Written
    <3>2. CASE o # "submitting"
      BY <2>2, <3>2 DEF WorkerOK, IdleWorker
    <3> QED
      BY <3>1, <3>2
  <2> QED
    BY <2>3, <2>4 DEF IInv, PaidBeforeSubmitted
<1>3. CASE ~ MayProceed(worker.cap)
  <2>1. worker' = IdleWorker /\ UNCHANGED jobs
    BY <1>3 DEF Proved
  <2>2. WorkerOK'
    BY <2>1 DEF WorkerOK, IdleWorker
  <2> QED
    BY <1>1, <2>1, <2>2 DEF IInv, JobsTyped, QueueOK, ClaimsDisjoint, PaidBeforeSubmitted, IdleWorker
<1> QED
  BY <1>2, <1>3

\* finish, on the job the dispatcher submitted.
LEMMA FinishStep ==
    ASSUME IInv, worker.stage \in {"posting", "accepted", "paid"},
           NEW phase \in {"failed", "submitted"}, Finish(phase),
           phase # "submitted" \/ worker.bundle \in ledger \cup logged,
           UNCHANGED <<pending, reading, ledger, logged>>
    PROVE  IInv'
<1>1. /\ worker.cap \in DOMAIN jobs /\ jobs[worker.cap].phase = "submitting"
      /\ jobs[worker.cap].bundle = worker.bundle
  BY DEF IInv, WorkerOK
<1>2. jobs' = [jobs EXCEPT ![worker.cap].phase = phase] /\ worker' = IdleWorker
  BY <1>1 DEF Finish
<1>3. /\ JobsTyped' /\ QueueOK' /\ ClaimsDisjoint'
      /\ \A d \in DOMAIN jobs' : jobs'[d].phase = "submitted" =>
            jobs'[d].bundle \in ledger' \cup logged'
  <2>1. phase \in {"submitting"} \cup Terminal
    BY DEF Terminal, Ended
  <2> QED
    BY <1>1, <1>2, <2>1, DispatchWrites
<1>4. WorkerOK'
  BY <1>2 DEF WorkerOK, IdleWorker
<1> QED
  BY <1>2, <1>3, <1>4 DEF IInv, PaidBeforeSubmitted, IdleWorker

LEMMA PostAcceptedStep == ASSUME IInv, PostAccepted PROVE IInv'
<1>1. /\ worker' = [stage |-> "accepted", cap |-> worker.cap, bundle |-> worker.bundle]
      /\ worker.stage = "posting" /\ UNCHANGED <<jobs, pending, reading, ledger, logged>>
  BY DEF PostAccepted, IInv, WorkerOK
<1>2. WorkerOK'
  BY <1>1 DEF IInv, WorkerOK
<1> QED
  BY <1>1, <1>2 DEF IInv, JobsTyped, QueueOK, ClaimsDisjoint, PaidBeforeSubmitted

LEMMA AppendPaidStep == ASSUME IInv, AppendPaid PROVE IInv'
<1>1. /\ worker' = [stage |-> "paid", cap |-> worker.cap, bundle |-> worker.bundle]
      /\ worker.stage = "accepted" /\ UNCHANGED <<jobs, pending, reading>>
  BY DEF AppendPaid, IInv, WorkerOK
<1>2. worker.cap \in DOMAIN jobs
  BY <1>1 DEF IInv, WorkerOK
<1>3. ledger \cup logged \subseteq ledger' \cup logged' /\ worker.bundle \in ledger' \cup logged'
  BY <1>2 DEF AppendPaid
<1>4. WorkerOK'
  BY <1>1 DEF IInv, WorkerOK
<1>5. PaidBeforeSubmitted'
  BY <1>1, <1>3 DEF IInv, PaidBeforeSubmitted
<1> QED
  BY <1>1, <1>4, <1>5 DEF IInv, JobsTyped, QueueOK, ClaimsDisjoint

LEMMA RestartStep == ASSUME IInv, Restart PROVE IInv'
<1>1. JobsTyped' /\ QueueOK'
  BY DEF Restart, JobsTyped, QueueOK
<1>2. WorkerOK' /\ ClaimsDisjoint' /\ PaidBeforeSubmitted'
  BY DEF Restart, WorkerOK, ClaimsDisjoint, PaidBeforeSubmitted, IdleWorker
<1> QED
  BY <1>1, <1>2 DEF IInv

-----------------------------------------------------------------------------
(* The theorems.                                                           *)

LEMMA Inductive == IInv /\ [Next]_vars => IInv'
<1> SUFFICES ASSUME IInv, [Next]_vars PROVE IInv'
  OBVIOUS
<1>1. ASSUME NEW x \in Client, AuthorizeIp(x) \/ UploadEnds(x) PROVE IInv'
  BY <1>1, UploadStep
<1>2. ASSUME NEW x \in Client, NEW b \in Bundle, NEW landed \in BOOLEAN, Submit(x, b, landed)
      PROVE  IInv'
  BY <1>2, SubmitStep
<1>3. ASSUME NEW c \in DOMAIN jobs, Cancel(c) \/ Cleanup(c) PROVE IInv'
  BY <1>3, CancelStep, CleanupStep
<1>4. CASE Dispatch
  <2>1. CASE Take
    BY <2>1, TakeStep
  <2>2. ASSUME NEW o \in {"submitting", "refused", "failed"}, Proved(o) PROVE IInv'
    BY <2>2, ProvedStep
  <2>3. CASE PostAccepted
    BY <2>3, PostAcceptedStep
  <2>4. CASE PostFails
    BY <2>4, FinishStep DEF PostFails
  <2>5. CASE AppendPaid
    BY <2>5, AppendPaidStep
  <2>6. CASE FinishSubmitted
    <3>1. worker.bundle \in ledger \cup logged
      BY <2>6 DEF FinishSubmitted, IInv, PaidBeforeSubmitted
    <3> QED
      BY <2>6, <3>1, FinishStep DEF FinishSubmitted
  <2> QED
    BY <1>4, <2>1, <2>2, <2>3, <2>4, <2>5, <2>6 DEF Dispatch
<1>5. CASE Restart
  BY <1>5, RestartStep
<1>6. CASE UNCHANGED vars
  BY <1>6 DEF vars, IInv, JobsTyped, QueueOK, WorkerOK, ClaimsDisjoint, PaidBeforeSubmitted
<1> QED
  BY <1>1, <1>2, <1>3, <1>4, <1>5, <1>6 DEF Next

\* What is handed to the node belongs to a retained job that reads `submitting`,
\* never to a cancelled one, and live jobs never share a nullifier (submit, cancel
\* and dispatch of annulet.rs).
THEOREM OnlyClaimedSubmitted == Spec => []SubmissionsAreClaimed
<1>1. IInv => SubmissionsAreClaimed
  BY DEF IInv, WorkerOK, ClaimsDisjoint, SubmissionsAreClaimed
<1> QED
  BY InitIInv, Inductive, <1>1, PTL DEF Spec

\* The fee of a job that reads `submitted` is in the paid ledger, or its failed
\* append is logged (dispatch of annulet.rs).
THEOREM FeeOnRecord == Spec => []PaidBeforeSubmitted
<1>1. IInv => PaidBeforeSubmitted
  BY DEF IInv
<1> QED
  BY InitIInv, Inductive, <1>1, PTL DEF Spec

-----------------------------------------------------------------------------
(* Induction.                                                              *)

\* Induction over the naturals, in a form that needs no operator argument.
LEMMA SetInduction ==
    ASSUME NEW S, 0 \in S, \A n \in Nat : n \in S => n + 1 \in S
    PROVE  Nat \subseteq S
<1> DEFINE T == Nat \ S
<1> SUFFICES ASSUME T # {} PROVE FALSE
  OBVIOUS
<1>1. PICK x \in T : \A y \in T : ~ (<<y, x>> \in OpToRel(<, Nat))
  BY NatLessThanWellFounded, WFMin
<1>2. x \in Nat /\ x # 0 /\ x - 1 \in Nat /\ (x - 1) + 1 = x /\ x - 1 < x
  OBVIOUS
<1>3. x - 1 \in T
  BY <1>2
<1>4. <<x - 1, x>> \in OpToRel(<, Nat)
  BY <1>2 DEF OpToRel
<1> QED
  BY <1>1, <1>3, <1>4

\* A non-empty bounded set of naturals has a highest member, and Max is it.
LEMMA MaxIsMember ==
    ASSUME NEW n \in Nat, NEW S, S \subseteq 0 .. n, S # {}
    PROVE  Max(S) \in S /\ \A j \in S : j <= Max(S)
<1> DEFINE T == {n - i : i \in S}
<1>1. T \subseteq Nat
  OBVIOUS
<1>2. T # {}
  OBVIOUS
<1>3. PICK x \in T : \A y \in T : ~ (<<y, x>> \in OpToRel(<, Nat))
  BY <1>1, <1>2, WFMin, NatLessThanWellFounded
<1>4. ASSUME NEW y \in T PROVE x <= y
  <2>1. y \in Nat /\ x \in Nat
    BY <1>1
  <2>2. ~ (<<y, x>> \in OpToRel(<, Nat))
    BY <1>3
  <2>3. ~ (y < x)
    <3> HIDE DEF T
    <3> QED
      BY <2>1, <2>2 DEF OpToRel
  <2> QED
    BY <2>1, <2>3
<1>5. PICK i \in S : x = n - i
  OBVIOUS
<1>6. ASSUME NEW j \in S PROVE i >= j
  <2>1. n - j \in T
    OBVIOUS
  <2>2. x <= n - j
    BY <2>1, <1>4
  <2> QED
    BY <1>5, <2>2
<1>7. Max(S) \in S /\ \A j \in S : Max(S) >= j
  BY <1>6 DEF Max
<1> HIDE DEF T
<1>8. \A j \in S : j \in Int
  OBVIOUS
<1> QED
  BY <1>7, <1>8

LEMMA TopOfRange ==
    ASSUME NEW n \in Nat
    PROVE  /\ Max(1 .. n + 1) = n + 1 /\ 1 .. n + 1 # {}
           /\ (1 .. n + 1) \ {n + 1} = 1 .. n
<1>1. n + 1 \in Nat /\ 1 .. n + 1 \subseteq 0 .. n + 1 /\ n + 1 \in 1 .. n + 1
  OBVIOUS
<1>2. Max(1 .. n + 1) \in 1 .. n + 1 /\ n + 1 <= Max(1 .. n + 1)
  BY <1>1, MaxIsMember
<1> QED
  BY <1>1, <1>2

-----------------------------------------------------------------------------
(* Branches.                                                               *)

Chain == Block \cup {Genesis}

LEMMA Heights ==
    /\ \A b \in Chain : Height(b) \in Nat
    /\ Height(Genesis) = 0
    /\ \A b \in Block : /\ Tree[b].prev \in Chain /\ b # Genesis /\ Height(b) = Tree[b].height
                        /\ Height(b) \in Nat \ {0} /\ Height(b) = Height(Tree[b].prev) + 1
    /\ \A b \in Chain : Height(b) = 0 => b = Genesis
<1>1. Height(Genesis) = 0
  BY DEF Height
<1>2. \A b \in Block : /\ Tree[b].prev \in Chain /\ b # Genesis /\ Height(b) = Tree[b].height
                       /\ Height(b) \in Nat \ {0} /\ Height(b) = Height(Tree[b].prev) + 1
  BY TreeAssumption DEF Chain, Height
<1> QED
  BY <1>1, <1>2 DEF Chain

\* f tabulates the branches that end at height n or below.
Branches(f, n) ==
    f = [b \in {c \in Chain : Height(c) <= n} |->
            IF b = Genesis THEN <<>> ELSE Append(f[Tree[b].prev], b)]

LEMMA BranchesGrow ==
    ASSUME NEW n \in Nat, NEW f, Branches(f, n)
    PROVE  \E g : Branches(g, n + 1)
<1> DEFINE g == [b \in {c \in Chain : Height(c) <= n + 1} |->
                    IF b = Genesis THEN <<>> ELSE Append(f[Tree[b].prev], b)]
<1>1. ASSUME NEW b \in Chain, Height(b) <= n PROVE g[b] = f[b]
  <2>1. b \in {c \in Chain : Height(c) <= n} /\ b \in {c \in Chain : Height(c) <= n + 1}
    BY <1>1, Heights
  <2>2. f[b] = IF b = Genesis THEN <<>> ELSE Append(f[Tree[b].prev], b)
    BY <2>1 DEF Branches
  <2> QED
    BY <2>1, <2>2
<1>2. ASSUME NEW b \in {c \in Chain : Height(c) <= n + 1}, b # Genesis
      PROVE  g[b] = Append(g[Tree[b].prev], b)
  <2>1. b \in Block /\ Tree[b].prev \in Chain /\ Height(Tree[b].prev) <= n
    BY <1>2, Heights DEF Chain
  <2>2. g[Tree[b].prev] = f[Tree[b].prev]
    BY <1>1, <2>1
  <2> QED
    BY <1>2, <2>2
<1>3. \A b \in {c \in Chain : Height(c) <= n + 1} :
         g[b] = IF b = Genesis THEN <<>> ELSE Append(g[Tree[b].prev], b)
  BY <1>2
<1>4. Branches(g, n + 1)
  BY <1>3 DEF Branches
<1> QED
  BY <1>4

LEMMA BranchesExist == \A n \in Nat : \E f : Branches(f, n)
<1> DEFINE S == {n \in Nat : \E f : Branches(f, n)}
<1>1. 0 \in S
  <2> DEFINE f == [b \in {Genesis} |-> <<>>]
  <2>1. {c \in Chain : Height(c) <= 0} = {Genesis}
    BY Heights DEF Chain
  <2>2. Branches(f, 0)
    BY <2>1 DEF Branches
  <2> QED
    BY <2>2
<1>2. \A n \in Nat : n \in S => n + 1 \in S
  BY BranchesGrow
<1> HIDE DEF S
<1>3. Nat \subseteq S
  BY <1>1, <1>2, SetInduction
<1> QED
  BY <1>3 DEF S

LEMMA BranchesAgree ==
    ASSUME NEW n \in Nat, NEW m \in Nat, NEW f, NEW g, Branches(f, n), Branches(g, m)
    PROVE  \A b \in Chain : Height(b) <= n /\ Height(b) <= m => f[b] = g[b]
<1> DEFINE P(k) == \A b \in Chain : Height(b) <= k /\ Height(b) <= n /\ Height(b) <= m => f[b] = g[b]
           S == {k \in Nat : P(k)}
<1>0. \A b \in Chain : Height(b) <= n /\ Height(b) <= m =>
         /\ f[b] = IF b = Genesis THEN <<>> ELSE Append(f[Tree[b].prev], b)
         /\ g[b] = IF b = Genesis THEN <<>> ELSE Append(g[Tree[b].prev], b)
  BY DEF Branches
<1>1. 0 \in S
  <2>1. \A b \in Chain : Height(b) <= 0 => b = Genesis
    BY Heights
  <2> QED
    BY <1>0, <2>1
<1>2. ASSUME NEW k \in Nat, P(k) PROVE P(k + 1)
  <2> SUFFICES ASSUME NEW b \in Chain, Height(b) <= k + 1, Height(b) <= n, Height(b) <= m
               PROVE  f[b] = g[b]
    OBVIOUS
  <2>1. CASE b = Genesis
    BY <1>0, <2>1
  <2>2. CASE b # Genesis
    <3>1. /\ b \in Block /\ Tree[b].prev \in Chain /\ Height(Tree[b].prev) <= k
          /\ Height(Tree[b].prev) <= n /\ Height(Tree[b].prev) <= m
      BY <2>2, Heights DEF Chain
    <3>2. f[Tree[b].prev] = g[Tree[b].prev]
      BY <1>2, <3>1
    <3> QED
      BY <1>0, <2>2, <3>2
  <2> QED
    BY <2>1, <2>2
<1>3. \A k \in Nat : k \in S => k + 1 \in S
  BY <1>2
<1> HIDE DEF S
<1>4. Nat \subseteq S
  BY <1>1, <1>3, SetInduction
<1>5. \A k \in Nat : P(k)
  BY <1>4 DEF S
<1> QED
  BY <1>5, Heights

\* BranchTo satisfies the equation that defines it: every branch ends at genesis.
LEMMA BranchEquation ==
    BranchTo = [b \in Chain |-> IF b = Genesis THEN <<>> ELSE Append(BranchTo[Tree[b].prev], b)]
<1> DEFINE At(n) == CHOOSE f : Branches(f, n)
           F == [b \in Chain |-> At(Height(b))[b]]
<1>1. \A n \in Nat : Branches(At(n), n)
  BY BranchesExist
<1> HIDE DEF At
<1>2. ASSUME NEW b \in Chain
      PROVE  F[b] = IF b = Genesis THEN <<>> ELSE Append(F[Tree[b].prev], b)
  <2>1. Height(b) \in Nat /\ Branches(At(Height(b)), Height(b))
    BY <1>1, Heights
  <2>2. At(Height(b))[b] = IF b = Genesis THEN <<>> ELSE Append(At(Height(b))[Tree[b].prev], b)
    <3> DEFINE f == At(Height(b))
    <3>1. b \in {c \in Chain : Height(c) <= Height(b)} /\ Branches(f, Height(b))
      BY <2>1
    <3> HIDE DEF f, F
    <3>2. f[b] = IF b = Genesis THEN <<>> ELSE Append(f[Tree[b].prev], b)
      BY <3>1 DEF Branches
    <3> QED
      BY <3>2 DEF f
  <2>3. ASSUME b # Genesis PROVE F[Tree[b].prev] = At(Height(b))[Tree[b].prev]
    <3> DEFINE p == Tree[b].prev
    <3>1. p \in Chain /\ Height(p) \in Nat /\ Height(p) <= Height(b)
      BY <2>3, Heights DEF Chain
    <3> HIDE DEF p
    <3>2. Branches(At(Height(p)), Height(p))
      BY <1>1, <3>1
    <3>3. At(Height(p))[p] = At(Height(b))[p]
      BY <2>1, <3>1, <3>2, BranchesAgree
    <3>4. F[p] = At(Height(p))[p]
      BY <3>1
    <3> HIDE DEF F
    <3> QED
      BY <3>3, <3>4 DEF p
  <2> QED
    BY <2>2, <2>3
<1>3. F = [b \in Chain |-> IF b = Genesis THEN <<>> ELSE Append(F[Tree[b].prev], b)]
  BY <1>2
<1> HIDE DEF F
<1>4. BranchTo = CHOOSE f : f = [b \in Chain |-> IF b = Genesis THEN <<>> ELSE Append(f[Tree[b].prev], b)]
  BY DEF BranchTo, Chain
<1> QED
  BY <1>3, <1>4

\* The branch that ends in b has one block per height, b last, and begins with the
\* branch of each of its blocks.
BranchOK(b) ==
    /\ BranchTo[b] \in Seq(Block) /\ Len(BranchTo[b]) = Height(b)
    /\ b # Genesis => BranchTo[b][Height(b)] = b
    /\ \A i \in 1 .. Height(b) :
          /\ BranchTo[b][i] \in Block /\ Height(BranchTo[b][i]) = i
          /\ \A j \in 1 .. i : BranchTo[BranchTo[b][i]][j] = BranchTo[b][j]

LEMMA BranchShape == \A b \in Chain : BranchOK(b)
<1> DEFINE P(n) == \A b \in Chain : Height(b) <= n => BranchOK(b)
           S == {n \in Nat : P(n)}
<1>0. BranchTo[Genesis] = <<>>
  BY BranchEquation DEF Chain
<1>1. 0 \in S
  <2>1. \A b \in Chain : Height(b) <= 0 => b = Genesis
    BY Heights
  <2>2. BranchOK(Genesis)
    BY <1>0, Heights DEF BranchOK
  <2> QED
    BY <2>1, <2>2
<1>2. ASSUME NEW n \in Nat, P(n) PROVE P(n + 1)
  <2> SUFFICES ASSUME NEW b \in Chain, Height(b) <= n + 1, b # Genesis PROVE BranchOK(b)
    <3>1. BranchOK(Genesis)
      BY <1>0, Heights DEF BranchOK
    <3> QED
      BY <3>1
  <2> DEFINE p == Tree[b].prev
             s == BranchTo[p]
             h == Height(p)
  <2>1. b \in Block /\ p \in Chain /\ h \in Nat /\ Height(b) = h + 1 /\ h <= n
    BY Heights DEF Chain
  <2>2. BranchOK(p)
    BY <1>2, <2>1
  <2>3. BranchTo[b] = Append(s, b)
    BY BranchEquation
  <2>4. s \in Seq(Block) /\ Len(s) = h
    BY <2>2 DEF BranchOK
  <2>5. \A i \in 1 .. h : /\ s[i] \in Block /\ Height(s[i]) = i
                          /\ \A j \in 1 .. i : BranchTo[s[i]][j] = s[j]
    BY <2>2 DEF BranchOK
  <2> HIDE DEF p, s, h
  <2>6. /\ Append(s, b) \in Seq(Block) /\ Len(Append(s, b)) = h + 1 /\ Append(s, b)[h + 1] = b
        /\ \A i \in 1 .. h : Append(s, b)[i] = s[i]
    BY <2>1, <2>4, AppendProperties
  <2>7. \A i \in 1 .. h + 1 : i \in 1 .. h \/ i = h + 1
    BY <2>1
  <2>8. ASSUME NEW i \in 1 .. h + 1
        PROVE  /\ BranchTo[b][i] \in Block /\ Height(BranchTo[b][i]) = i
               /\ \A j \in 1 .. i : BranchTo[BranchTo[b][i]][j] = BranchTo[b][j]
    <3>1. CASE i = h + 1
      BY <2>1, <2>3, <2>6, <3>1
    <3>2. CASE i \in 1 .. h
      <4>1. BranchTo[b][i] = s[i] /\ \A j \in 1 .. i : j \in 1 .. h /\ BranchTo[b][j] = s[j]
        BY <2>1, <2>3, <2>6, <3>2
      <4> QED
        BY <2>5, <3>2, <4>1
    <3> QED
      BY <2>7, <3>1, <3>2
  <2> QED
    BY <2>1, <2>3, <2>6, <2>8 DEF BranchOK
<1>3. \A n \in Nat : n \in S => n + 1 \in S
  BY <1>2
<1> HIDE DEF S
<1>4. Nat \subseteq S
  BY <1>1, <1>3, SetInduction
<1>5. \A n \in Nat : P(n)
  BY <1>4 DEF S
<1> QED
  BY <1>5, Heights

\* The parent of a block on a branch is the block below it on the branch.
LEMMA ParentOnBranch ==
    ASSUME NEW b \in Chain, NEW i \in 1 .. Height(b)
    PROVE  Tree[BranchTo[b][i]].prev = IF i = 1 THEN Genesis ELSE BranchTo[b][i - 1]
<1> DEFINE c == BranchTo[b][i]
           p == Tree[c].prev
<1>1. c \in Block /\ Height(c) = i /\ \A j \in 1 .. i : BranchTo[c][j] = BranchTo[b][j]
  BY BranchShape DEF BranchOK
<1> HIDE DEF c
<1>2. p \in Chain /\ Height(p) \in Nat /\ i = Height(p) + 1 /\ c # Genesis /\ c \in Chain
  BY <1>1, Heights DEF Chain
<1>3. CASE Height(p) = 0
  BY <1>2, <1>3, Heights DEF c
<1>4. CASE Height(p) # 0
  <2>1. BranchTo[c] = Append(BranchTo[p], c)
    BY <1>2, BranchEquation
  <2> HIDE DEF p
  <2>2. p # Genesis /\ Height(p) \in 1 .. Height(p) /\ Height(p) \in 1 .. i /\ i - 1 = Height(p)
    BY <1>2, <1>4, Heights
  <2>3. BranchTo[p] \in Seq(Block) /\ Len(BranchTo[p]) = Height(p) /\ BranchTo[p][Height(p)] = p
    BY <1>2, <2>2, BranchShape DEF BranchOK
  <2>4. Append(BranchTo[p], c)[Height(p)] = BranchTo[p][Height(p)]
    BY <1>1, <2>2, <2>3, AppendProperties
  <2>5. BranchTo[b][Height(p)] = p
    BY <1>1, <2>1, <2>2, <2>3, <2>4
  <2> QED
    BY <2>2, <2>5, <1>2 DEF p, c
<1> QED
  BY <1>3, <1>4

\* A block is on a branch at its height only.
LEMMA OnBranch ==
    ASSUME NEW t \in Chain, NEW b \in ToSet(BranchTo[t])
    PROVE  Height(b) \in 1 .. Height(t) /\ BranchTo[t][Height(b)] = b /\ b \in Block
<1>1. BranchTo[t] \in Seq(Block) /\ Len(BranchTo[t]) = Height(t)
  BY BranchShape DEF BranchOK
<1>2. PICK i \in 1 .. Height(t) : b = BranchTo[t][i]
  BY <1>1 DEF ToSet
<1> QED
  BY <1>2, BranchShape DEF BranchOK

-----------------------------------------------------------------------------
(* What a branch spends.                                                   *)

LEMMA SpentTo ==
    ASSUME NEW t \in Chain, NEW x
    PROVE  x \in NullifiersTo(t) <=> \E i \in 1 .. Height(t) : x \in Tree[BranchTo[t][i]].nullifiers
<1>1. DOMAIN BranchTo[t] = 1 .. Height(t)
  BY BranchShape DEF BranchOK
<1> QED
  BY <1>1 DEF NullifiersTo, ToSet

\* Each block adds what it spends.
LEMMA SpentByNext ==
    ASSUME NEW b \in Block
    PROVE  NullifiersTo(b) = NullifiersTo(Tree[b].prev) \cup Tree[b].nullifiers
<1> DEFINE p == Tree[b].prev
           h == Height(p)
<1>1. b \in Chain /\ b # Genesis /\ p \in Chain /\ h \in Nat /\ Height(b) = h + 1
  BY Heights DEF Chain
<1>2. BranchTo[b] = Append(BranchTo[p], b)
  BY <1>1, BranchEquation
<1>3. BranchTo[p] \in Seq(Block) /\ Len(BranchTo[p]) = h
  BY <1>1, BranchShape DEF BranchOK
<1> HIDE DEF p, h
<1>4. BranchTo[b][h + 1] = b /\ \A i \in 1 .. h : BranchTo[b][i] = BranchTo[p][i]
  BY <1>1, <1>2, <1>3, AppendProperties
<1>5. \A i \in 1 .. h + 1 : i \in 1 .. h \/ i = h + 1
  BY <1>1
<1>6. h + 1 \in 1 .. h + 1 /\ \A i \in 1 .. h : i \in 1 .. h + 1
  BY <1>1
<1>7. \A x : x \in NullifiersTo(b) <=> \E i \in 1 .. h + 1 : x \in Tree[BranchTo[b][i]].nullifiers
  BY <1>1, SpentTo
<1>8. \A x : x \in NullifiersTo(p) <=> \E i \in 1 .. h : x \in Tree[BranchTo[p][i]].nullifiers
  BY <1>1, SpentTo DEF h
<1>9. \A x : x \in NullifiersTo(b) <=> x \in NullifiersTo(p) \/ x \in Tree[b].nullifiers
  BY <1>4, <1>5, <1>6, <1>7, <1>8
<1> QED
  BY <1>9 DEF p

\* The block of a branch at height a.
BlockAt(t, a) == IF a = 0 THEN Genesis ELSE BranchTo[t][a]

LEMMA AtHeight ==
    ASSUME NEW t \in Chain, NEW a \in 0 .. Height(t)
    PROVE  /\ BlockAt(t, a) \in Chain /\ Height(BlockAt(t, a)) = a
           /\ \A j \in 1 .. a : BranchTo[BlockAt(t, a)][j] = BranchTo[t][j]
<1>1. CASE a = 0
  BY <1>1, Heights DEF BlockAt, Chain
<1>2. CASE a # 0
  <2>1. a \in 1 .. Height(t) /\ BlockAt(t, a) = BranchTo[t][a]
    BY <1>2 DEF BlockAt
  <2> QED
    BY <2>1, BranchShape DEF BranchOK, Chain
<1> QED
  BY <1>1, <1>2

\* No two blocks of a branch spend the same nullifier.
LEMMA SpentApart ==
    ASSUME NEW t \in Chain, NEW i \in 1 .. Height(t), NEW j \in 1 .. Height(t), i < j
    PROVE  Tree[BranchTo[t][i]].nullifiers \cap Tree[BranchTo[t][j]].nullifiers = {}
<1> DEFINE c == BranchTo[t][j]
           p == Tree[c].prev
<1>0. Height(t) \in Nat /\ i \in Nat /\ j \in Nat /\ j - 1 \in 1 .. Height(t) /\ j # 1 /\ i \in 1 .. j - 1
  BY Heights
<1>1. c \in Block /\ p = BranchTo[t][j - 1]
  BY <1>0, ParentOnBranch, BranchShape DEF BranchOK
<1>2. p \in Block /\ Height(p) = j - 1 /\ BranchTo[p][i] = BranchTo[t][i]
  BY <1>0, <1>1, BranchShape DEF BranchOK
<1>3. Tree[c].nullifiers \cap NullifiersTo(p) = {}
  BY <1>1, SpentOnceAssumption
<1> HIDE DEF c, p
<1>4. p \in Chain /\ i \in 1 .. Height(p)
  BY <1>0, <1>2 DEF Chain
<1>5. \A x \in Tree[BranchTo[t][i]].nullifiers : x \in NullifiersTo(p)
  BY <1>2, <1>4, SpentTo
<1> QED
  BY <1>3, <1>5 DEF c

\* roll_back_to is exact: without what the blocks above a spend, the nullifiers of a
\* branch are those of its block at height a.
LEMMA SpentBelow ==
    ASSUME NEW t \in Chain, NEW a \in 0 .. Height(t)
    PROVE  NullifiersTo(BlockAt(t, a)) =
             NullifiersTo(t) \ UNION {Tree[BranchTo[t][i]].nullifiers : i \in a + 1 .. Height(t)}
<1> DEFINE N(i) == Tree[BranchTo[t][i]].nullifiers
           h == Height(t)
<1>1. h \in Nat /\ a \in Nat /\ a <= h
  BY Heights
<1>2. \A x : x \in NullifiersTo(t) <=> \E i \in 1 .. h : x \in N(i)
  BY SpentTo
<1>3. \A x : x \in NullifiersTo(BlockAt(t, a)) <=> \E i \in 1 .. a : x \in N(i)
  <2>1. BlockAt(t, a) \in Chain /\ Height(BlockAt(t, a)) = a /\ \A j \in 1 .. a : BranchTo[BlockAt(t, a)][j] = BranchTo[t][j]
    BY AtHeight
  <2> QED
    BY <2>1, SpentTo
<1>4. \A i, j \in 1 .. h : i < j => N(i) \cap N(j) = {}
  BY SpentApart
<1>5. \A x : x \in UNION {N(i) : i \in a + 1 .. h} <=> \E i \in a + 1 .. h : x \in N(i)
  OBVIOUS
<1> HIDE DEF N, h
<1>6. ASSUME NEW x
      PROVE  x \in NullifiersTo(BlockAt(t, a)) <=>
               x \in NullifiersTo(t) /\ ~ \E i \in a + 1 .. h : x \in N(i)
  <2>1. ASSUME x \in NullifiersTo(BlockAt(t, a))
        PROVE  x \in NullifiersTo(t) /\ ~ \E i \in a + 1 .. h : x \in N(i)
    <3>1. PICK i \in 1 .. a : x \in N(i)
      BY <1>3, <2>1
    <3>2. i \in 1 .. h
      BY <1>1
    <3>3. \A j \in a + 1 .. h : j \in 1 .. h /\ i < j
      BY <1>1
    <3> QED
      BY <1>2, <1>4, <3>1, <3>2, <3>3
  <2>2. ASSUME x \in NullifiersTo(t), ~ \E i \in a + 1 .. h : x \in N(i)
        PROVE  x \in NullifiersTo(BlockAt(t, a))
    <3>1. PICK i \in 1 .. h : x \in N(i)
      BY <1>2, <2>2
    <3>2. i \in 1 .. a
      BY <1>1, <2>2, <3>1
    <3> QED
      BY <1>3, <3>1, <3>2
  <2> QED
    BY <2>1, <2>2
<1>7. NullifiersTo(BlockAt(t, a)) = NullifiersTo(t) \ UNION {N(i) : i \in a + 1 .. h}
  BY <1>5, <1>6
<1> QED
  BY <1>7 DEF N, h

-----------------------------------------------------------------------------
(* The set that follows a branch.                                          *)

RightLine(b) == BlockLine(b, Tree[b].nullifiers)
RightLines == {RightLine(b) : b \in Block}

\* The set at t, with the last n blocks of its branch in the window.
WindowAt(t, h, n) == [i \in 1 .. n |-> RightLine(BranchTo[t][h - n + i])]
SetAt(t, n) ==
    [landed |-> NullifiersTo(t), height |-> Height(t), window |-> WindowAt(t, Height(t), n)]

\* Only the empty set has an empty window.
Follows(s, t, n) == t \in Chain /\ n \in 0 .. Height(t) /\ (n = 0 => t = Genesis) /\ s = SetAt(t, n)

TipOf(s) == IF s.window = <<>> THEN Genesis ELSE Last(s.window).id

\* w holds the last n blocks of the branch to t.
WindowOK(w, t, n) ==
    /\ w \in Seq(RightLines) /\ Len(w) = n /\ DOMAIN w = 1 .. n
    /\ n = 0 => w = <<>>
    /\ \A i \in 1 .. n : /\ Height(t) - n + i \in 1 .. Height(t)
                         /\ w[i] = RightLine(BranchTo[t][Height(t) - n + i])
                         /\ w[i].height = Height(t) - n + i
                         /\ w[i].id = BranchTo[t][Height(t) - n + i]
                         /\ w[i].nullifiers = Tree[BranchTo[t][Height(t) - n + i]].nullifiers

LEMMA WindowShape ==
    ASSUME NEW t \in Chain, NEW n \in 0 .. Height(t)
    PROVE  WindowOK(SetAt(t, n).window, t, n)
<1> DEFINE h == Height(t)
           w == [i \in 1 .. n |-> RightLine(BranchTo[t][h - n + i])]
<1>1. h \in Nat /\ n \in Nat /\ n <= h /\ \A i \in 1 .. n : h - n + i \in 1 .. h
  BY Heights
<1>2. \A j \in 1 .. h : BranchTo[t][j] \in Block /\ Tree[BranchTo[t][j]].height = j
  BY BranchShape, Heights DEF BranchOK
<1>3. \A i \in 1 .. n : w[i] = RightLine(BranchTo[t][h - n + i])
  OBVIOUS
<1>4. \A i \in 1 .. n : w[i] \in RightLines
  BY <1>1, <1>2, <1>3 DEF RightLines
<1>5. w \in Seq(RightLines) /\ Len(w) = n /\ DOMAIN w = 1 .. n
  BY <1>1, <1>4
<1>6. \A j \in 1 .. h : /\ RightLine(BranchTo[t][j]).height = j
                        /\ RightLine(BranchTo[t][j]).id = BranchTo[t][j]
                        /\ RightLine(BranchTo[t][j]).nullifiers = Tree[BranchTo[t][j]].nullifiers
  BY <1>2 DEF RightLine, BlockLine
<1>7. SetAt(t, n).window = w
  BY DEF SetAt, WindowAt
<1> HIDE DEF w
<1>8. n = 0 => w = <<>>
  BY <1>5
<1>9. \A i \in 1 .. n : /\ h - n + i \in 1 .. h /\ w[i] = RightLine(BranchTo[t][h - n + i])
                       /\ w[i].height = h - n + i
                       /\ w[i].id = BranchTo[t][h - n + i]
                       /\ w[i].nullifiers = Tree[BranchTo[t][h - n + i]].nullifiers
  BY <1>1, <1>3, <1>6
<1> QED
  BY <1>5, <1>7, <1>8, <1>9 DEF WindowOK

\* The followed block is the last one of the window.
LEMMA TipOfFollowed ==
    ASSUME NEW s, NEW t, NEW n, Follows(s, t, n)
    PROVE  TipOf(s) = t /\ s.height = Height(t) /\ s.landed = NullifiersTo(t) /\ t \in Chain
<1>1. t \in Chain /\ n \in 0 .. Height(t) /\ s = SetAt(t, n) /\ Height(t) \in Nat
  BY Heights DEF Follows
<1>2. s.height = Height(t) /\ s.landed = NullifiersTo(t)
  BY <1>1 DEF SetAt
<1>3. CASE n = 0
  <2>1. s.window = <<>>
    BY <1>1, <1>3, WindowShape DEF WindowOK
  <2> QED
    BY <1>1, <1>2, <1>3, <2>1 DEF Follows, TipOf
<1>4. CASE n # 0
  <2>1. n \in 1 .. n /\ Height(t) - n + n = Height(t) /\ Height(t) # 0
    BY <1>1, <1>4
  <2>2. s.window # <<>> /\ Len(s.window) = n /\ s.window[n].id = BranchTo[t][Height(t)]
    <3>1. WindowOK(s.window, t, n)
      BY <1>1, WindowShape
    <3>2. Len(s.window) = n /\ s.window[n].id = BranchTo[t][Height(t) - n + n]
      BY <2>1, <3>1 DEF WindowOK
    <3> QED
      BY <1>4, <2>1, <3>2
  <2>3. BranchTo[t][Height(t)] = t
    BY <1>1, <2>1, BranchShape, Heights DEF BranchOK
  <2> QED
    BY <1>1, <1>2, <2>2, <2>3 DEF TipOf, Last
<1> QED
  BY <1>3, <1>4

LEMMA EmptyFollows == Follows(EmptySet, Genesis, 0)
<1>1. Genesis \in Chain /\ Height(Genesis) = 0 /\ 0 \in 0 .. 0
  BY Heights DEF Chain
<1>2. NullifiersTo(Genesis) = {}
  BY <1>1, SpentTo
<1>3. SetAt(Genesis, 0).window = <<>>
  BY <1>1, WindowShape DEF WindowOK
<1> QED
  BY <1>1, <1>2, <1>3 DEF Follows, EmptySet, SetAt

\* Replayed::push follows a child of the followed block.
LEMMA PushFollows ==
    ASSUME NEW s, NEW t, NEW n, Follows(s, t, n), NEW b \in Block, Tree[b].prev = t
    PROVE  \E m \in Nat : Follows(Push(s, RightLine(b)), b, m)
<1> DEFINE h == Height(t)
           l == RightLine(b)
           w == s.window
           at(j) == RightLine(BranchTo[b][j])
<1>1. /\ t \in Chain /\ n \in 0 .. h /\ s = SetAt(t, n) /\ h \in Nat /\ n \in Nat /\ n <= h
      /\ b \in Chain /\ b # Genesis /\ Height(b) = h + 1 /\ s.landed = NullifiersTo(t)
  BY Heights, TipOfFollowed DEF Follows, Chain
<1>2. BranchTo[b][h + 1] = b /\ \A j \in 1 .. h : BranchTo[b][j] = BranchTo[t][j]
  <2>1. BranchTo[b] = Append(BranchTo[t], b) /\ BranchTo[t] \in Seq(Block) /\ Len(BranchTo[t]) = h
    BY <1>1, BranchEquation, BranchShape DEF BranchOK
  <2> QED
    BY <2>1, AppendProperties
<1>3. l.nullifiers = Tree[b].nullifiers /\ l.height = h + 1
  BY <1>1, Heights DEF RightLine, BlockLine
<1>4. w \in Seq(RightLines) /\ Len(w) = n /\ \A i \in 1 .. n : w[i] = at(h - n + i)
  <2>1. \A i \in 1 .. n : h - n + i \in 1 .. h
    BY <1>1
  <2>2. WindowOK(w, t, n)
    BY <1>1, WindowShape
  <2> QED
    BY <1>2, <2>1, <2>2 DEF WindowOK
<1>5. l \in RightLines /\ l = at(h + 1)
  BY <1>2 DEF RightLines
<1> DEFINE v == Append(w, l)
           long == IF n + 1 > ReorgWindow + 1 THEN Tail(v) ELSE v
           m == Len(long)
<1> HIDE DEF l, w, h, at
<1>6. /\ v \in Seq(RightLines) /\ Len(v) = n + 1
      /\ \A i \in 1 .. n : v[i] = w[i]
      /\ v[n + 1] = l
  BY <1>4, <1>5, AppendProperties
<1>7. \A i \in 1 .. n + 1 : v[i] = at(h - n + i)
  <2>1. \A i \in 1 .. n + 1 : i \in 1 .. n \/ (i = n + 1 /\ h - n + i = h + 1)
    BY <1>1
  <2> QED
    BY <1>4, <1>5, <1>6, <2>1
<1>8. Push(s, l) = [landed |-> NullifiersTo(b), height |-> h + 1, window |-> long]
  <2>1. NullifiersTo(t) \cup Tree[b].nullifiers = NullifiersTo(b)
    BY SpentByNext
  <2> QED
    BY <1>1, <1>3, <1>6, <2>1 DEF Push, w
<1> HIDE DEF v, long
<1>9. /\ m \in 1 .. h + 1 /\ long \in Seq(RightLines)
      /\ \A i \in 1 .. m : long[i] = at(h + 1 - m + i)
  <2>1. CASE n + 1 > ReorgWindow + 1
    <3>1. ReorgWindow \in Nat /\ n >= 1 /\ v # <<>> /\ long = Tail(v)
      BY <1>1, <1>6, <2>1, FollowBounds DEF long
    <3>2. long \in Seq(RightLines) /\ m = n /\ \A i \in 1 .. n : long[i] = v[i + 1]
      <4>1. /\ Tail(v) \in Seq(RightLines) /\ Len(Tail(v)) = Len(v) - 1
            /\ \A i \in 1 .. Len(Tail(v)) : Tail(v)[i] = v[i + 1]
        BY <1>6, <3>1, HeadTailProperties
      <4>2. Len(Tail(v)) = n
        BY <1>1, <1>6, <4>1
      <4> QED
        BY <3>1, <4>1, <4>2
    <3> HIDE DEF m
    <3>3. \A i \in 1 .. n : i + 1 \in 1 .. n + 1 /\ h - n + (i + 1) = h + 1 - n + i
      BY <1>1
    <3>4. \A i \in 1 .. n : long[i] = at(h + 1 - n + i)
      BY <1>7, <3>2, <3>3
    <3>5. n \in 1 .. h + 1
      BY <1>1, <3>1
    <3> QED
      BY <3>2, <3>4, <3>5
  <2>2. CASE ~ (n + 1 > ReorgWindow + 1)
    <3>1. long = v /\ m = n + 1
      BY <1>6, <2>2 DEF long
    <3> HIDE DEF m
    <3>2. n + 1 \in 1 .. h + 1 /\ \A i \in 1 .. n + 1 : h + 1 - (n + 1) + i = h - n + i
      BY <1>1
    <3>3. \A i \in 1 .. n + 1 : long[i] = at(h + 1 - (n + 1) + i)
      BY <1>7, <3>1, <3>2
    <3> QED
      BY <1>6, <3>1, <3>2, <3>3
  <2> QED
    BY <2>1, <2>2
<1>10. long = [i \in 1 .. m |-> at(h + 1 - m + i)]
  BY <1>9
<1> HIDE DEF m
<1>11. SetAt(b, m) = [landed |-> NullifiersTo(b), height |-> h + 1, window |-> long]
  <2>1. WindowAt(b, h + 1, m) = [i \in 1 .. m |-> at(h + 1 - m + i)]
    <3>1. m \in Int /\ h \in Int
      BY <1>1, <1>9
    <3> QED
      BY <3>1 DEF at, WindowAt
  <2>2. SetAt(b, m).window = WindowAt(b, h + 1, m)
    BY <1>1 DEF SetAt
  <2> QED
    BY <1>1, <1>10, <2>1, <2>2 DEF SetAt
<1>12. Follows(Push(s, l), b, m) /\ m \in Nat
  BY <1>1, <1>8, <1>9, <1>11 DEF Follows
<1> QED
  BY <1>12 DEF l

\* Replayed::roll_back_to, to a block of the window or below its first block when that
\* is genesis, follows the block of the same branch at that height.
LEMMA RollBackFollows ==
    ASSUME NEW s, NEW t, NEW n, Follows(s, t, n), NEW a \in Nat,
           a <= Height(t), a >= Height(t) - n, a = Height(t) - n => a = 0
    PROVE  CanRollBack(s, a) /\ \E m \in Nat : Follows(RollBackTo(s, a), BlockAt(t, a), m)
<1> DEFINE h == Height(t)
           w == s.window
           k == a - (h - n)
           c == BlockAt(t, a)
           K == {0} \cup {i \in DOMAIN w : w[i].height <= a}
<1>1. /\ t \in Chain /\ n \in 0 .. h /\ s = SetAt(t, n) /\ h \in Nat /\ n \in Nat /\ n <= h
      /\ s.landed = NullifiersTo(t) /\ s.height = h /\ (n = 0 => t = Genesis)
  BY Heights, TipOfFollowed DEF Follows
<1>2. WindowOK(w, t, n)
  BY <1>1, WindowShape
<1>3. /\ w \in Seq(RightLines) /\ Len(w) = n /\ DOMAIN w = 1 .. n /\ (n = 0 => w = <<>>)
      /\ \A i \in 1 .. n : /\ h - n + i \in 1 .. h /\ w[i] = RightLine(BranchTo[t][h - n + i])
                           /\ w[i].height = h - n + i
                           /\ w[i].nullifiers = Tree[BranchTo[t][h - n + i]].nullifiers
  BY <1>2 DEF WindowOK
<1>4. k \in 0 .. n /\ k \in Nat /\ a \in 0 .. h /\ k <= a /\ a - k = h - n
  BY <1>1
<1>5. c \in Chain /\ Height(c) = a /\ \A j \in 1 .. a : BranchTo[c][j] = BranchTo[t][j]
  BY <1>1, <1>4, AtHeight
<1>6. CanRollBack(s, a)
  <2>1. CASE n = 0
    <3>1. h = 0 /\ s.window = <<>>
      BY <1>1, <1>3, <2>1, Heights
    <3> QED
      BY <1>1, <3>1 DEF CanRollBack
  <2>2. CASE n # 0
    <3>1. s.window # <<>> /\ Head(s.window) = w[1] /\ 1 \in 1 .. n
      BY <1>1, <1>3, <2>2
    <3>2. w[1].height = h - n + 1
      BY <1>3, <3>1
    <3> HIDE DEF w
    <3> QED
      BY <1>1, <3>1, <3>2 DEF CanRollBack
  <2> QED
    BY <2>1, <2>2
<1> HIDE DEF h, w, c
<1>7. Max(K) = k
  <2>1. K \subseteq 0 .. n /\ K # {}
    BY <1>1, <1>3
  <2>2. k \in K /\ \A i \in K : i <= k
    <3>1. \A i \in 1 .. n : w[i].height <= a <=> i <= k
      BY <1>1, <1>3
    <3>2. k = 0 \/ k \in 1 .. n
      BY <1>4
    <3> HIDE DEF k
    <3>3. k \in K
      BY <1>3, <1>4, <3>1, <3>2
    <3> QED
      BY <1>3, <1>4, <3>1, <3>3
  <2> HIDE DEF K, k
  <2>3. Max(K) \in K /\ \A i \in K : i <= Max(K)
    BY <1>1, <2>1, MaxIsMember
  <2>4. Max(K) <= k /\ k <= Max(K)
    BY <2>2, <2>3
  <2>5. Max(K) \in 0 .. n
    BY <2>1, <2>3
  <2> HIDE DEF Max
  <2> QED
    BY <1>1, <1>4, <2>4, <2>5
<1>8. RollBackTo(s, a) = [landed |-> NullifiersTo(t) \ UNION {w[i].nullifiers : i \in k + 1 .. n},
                          height |-> a, window |-> SubSeq(w, 1, k)]
  <2> HIDE DEF k
  <2> QED
    BY <1>1, <1>3, <1>7 DEF RollBackTo, w, K
<1>9. NullifiersTo(t) \ UNION {w[i].nullifiers : i \in k + 1 .. n} = NullifiersTo(c)
  <2> DEFINE N(j) == Tree[BranchTo[t][j]].nullifiers
  <2>1. \A i \in k + 1 .. n : i \in 1 .. n /\ h - n + i \in a + 1 .. h
    BY <1>1, <1>4
  <2>2. \A i \in k + 1 .. n : w[i].nullifiers = N(h - n + i)
    BY <1>3, <2>1
  <2>3. \A j \in a + 1 .. h : j - (h - n) \in k + 1 .. n /\ h - n + (j - (h - n)) = j
    BY <1>1, <1>4
  <2>4. NullifiersTo(c) = NullifiersTo(t) \ UNION {N(j) : j \in a + 1 .. h}
    BY <1>1, <1>4, SpentBelow DEF h, c
  <2> HIDE DEF N, k
  <2>5. \A x : (\E i \in k + 1 .. n : x \in w[i].nullifiers) <=> (\E j \in a + 1 .. h : x \in N(j))
    BY <2>1, <2>2, <2>3
  <2>6. UNION {w[i].nullifiers : i \in k + 1 .. n} = UNION {N(j) : j \in a + 1 .. h}
    BY <2>5
  <2> QED
    BY <2>4, <2>6
<1>10. SubSeq(w, 1, k) = WindowAt(c, a, k)
  <2>1. \A i \in 1 .. k : i \in 1 .. n /\ a - k + i \in 1 .. a /\ a - k + i = h - n + i
    BY <1>1, <1>4
  <2> HIDE DEF k
  <2>2. SubSeq(w, 1, k) = [i \in 1 .. k |-> w[i]]
    BY <1>3, <1>4
  <2>3. \A i \in 1 .. k : w[i] = RightLine(BranchTo[c][a - k + i])
    BY <1>3, <1>5, <2>1
  <2>4. [i \in 1 .. k |-> w[i]] = [i \in 1 .. k |-> RightLine(BranchTo[c][a - k + i])]
    BY <2>3
  <2> QED
    BY <2>2, <2>4 DEF WindowAt
<1>11. SetAt(c, k) = RollBackTo(s, a)
  <2> HIDE DEF k
  <2> QED
    BY <1>5, <1>8, <1>9, <1>10 DEF SetAt
<1>12. k = 0 => c = Genesis
  BY <1>4 DEF h, c, BlockAt
<1>13. k \in 0 .. a
  BY <1>4
<1> HIDE DEF k
<1>14. Follows(RollBackTo(s, a), c, k)
  BY <1>5, <1>11, <1>12, <1>13 DEF Follows
<1> QED
  BY <1>4, <1>6, <1>14 DEF c

-----------------------------------------------------------------------------
(* Folds over lines.                                                       *)

\* The two steps that are folded: a line is pushed, or replayed.
Step(push, r, line) == IF push THEN Push(r, line) ELSE ReplayLine(r, line)
Fold(push, base, seq) ==
    IF push THEN FoldLeft(Push, base, seq) ELSE FoldLeft(ReplayLine, base, seq)

\* g tabulates the fold of the lines of seq whose positions are in s, for the sets s of
\* positions up to n (the community module's FoldLeft).
Tabulates(g, push, base, seq, n) ==
    g = [s \in SUBSET (1 .. n) |->
            IF s = {} THEN base ELSE Step(push, g[s \ {Max(s)}], seq[Max(s)])]

LEMMA TabulationGrows ==
    ASSUME NEW n \in Nat, NEW push, NEW base, NEW seq, NEW g, Tabulates(g, push, base, seq, n)
    PROVE  \E h : Tabulates(h, push, base, seq, n + 1)
<1> DEFINE h == [s \in SUBSET (1 .. n + 1) |->
                    IF n + 1 \in s THEN Step(push, g[s \ {n + 1}], seq[n + 1]) ELSE g[s]]
<1>1. ASSUME NEW s \in SUBSET (1 .. n + 1)
      PROVE  h[s] = IF s = {} THEN base ELSE Step(push, h[s \ {Max(s)}], seq[Max(s)])
  <2>1. CASE n + 1 \in s
    <3>1. Max(s) = n + 1
      <4> HIDE DEF h
      <4>1. n + 1 \in Nat /\ s \subseteq 0 .. n + 1 /\ s # {}
        BY <2>1
      <4>2. Max(s) \in s /\ \A j \in s : j <= Max(s)
        BY <4>1, MaxIsMember
      <4>3. Max(s) \in 1 .. n + 1 /\ n + 1 <= Max(s)
        BY <4>1, <4>2, <2>1
      <4> HIDE DEF Max
      <4> QED
        BY <4>3
    <3>2. h[s \ {n + 1}] = g[s \ {n + 1}]
      OBVIOUS
    <3> HIDE DEF h
    <3>3. h[s] = Step(push, g[s \ {n + 1}], seq[n + 1])
      BY <2>1 DEF h
    <3> QED
      BY <2>1, <3>1, <3>2, <3>3
  <2>2. CASE n + 1 \notin s
    <3>1. s \in SUBSET (1 .. n) /\ h[s] = g[s]
      BY <2>2
    <3>2. s \ {Max(s)} \in SUBSET (1 .. n + 1) /\ n + 1 \notin s \ {Max(s)}
      BY <2>2
    <3>3. h[s \ {Max(s)}] = g[s \ {Max(s)}]
      BY <3>2
    <3> HIDE DEF h
    <3>4. g[s] = IF s = {} THEN base ELSE Step(push, g[s \ {Max(s)}], seq[Max(s)])
      BY <3>1 DEF Tabulates
    <3> QED
      BY <3>1, <3>3, <3>4
  <2> QED
    BY <2>1, <2>2
<1>2. Tabulates(h, push, base, seq, n + 1)
  BY <1>1 DEF Tabulates
<1> QED
  BY <1>2

LEMMA TabulationExists ==
    ASSUME NEW push, NEW base, NEW seq
    PROVE  \A n \in Nat : \E g : Tabulates(g, push, base, seq, n)
<1> DEFINE S == {n \in Nat : \E g : Tabulates(g, push, base, seq, n)}
<1>1. 0 \in S
  <2>1. SUBSET (1 .. 0) = {{}}
    OBVIOUS
  <2> DEFINE g == [s \in {{}} |-> base]
  <2>2. Tabulates(g, push, base, seq, 0)
    BY <2>1 DEF Tabulates
  <2> QED
    BY <2>2
<1>2. \A n \in Nat : n \in S => n + 1 \in S
  BY TabulationGrows
<1> HIDE DEF S
<1>3. Nat \subseteq S
  BY <1>1, <1>2, SetInduction
<1> QED
  BY <1>3 DEF S

\* Two tabulations agree as far as their lines do.
Agree(g, h, seq, seq2, n, m) ==
    \A k \in Nat : (k <= n /\ k <= m /\ \A i \in 1 .. k : seq[i] = seq2[i]) => g[1 .. k] = h[1 .. k]

LEMMA TabulationsAgree ==
    ASSUME NEW push, NEW base, NEW n \in Nat, NEW m \in Nat, NEW seq, NEW seq2, NEW g, NEW h,
           Tabulates(g, push, base, seq, n), Tabulates(h, push, base, seq2, m)
    PROVE  Agree(g, h, seq, seq2, n, m)
<1> DEFINE P(k) == (k <= n /\ k <= m /\ \A i \in 1 .. k : seq[i] = seq2[i])
                     => g[1 .. k] = h[1 .. k]
           S == {k \in Nat : P(k)}
<1>1. 0 \in S
  <2>1. 1 .. 0 = {}
    OBVIOUS
  <2>2. g[{}] = base /\ h[{}] = base
    BY DEF Tabulates
  <2> QED
    BY <2>1, <2>2
<1>2. ASSUME NEW k \in Nat, k \in S PROVE k + 1 \in S
  <2> SUFFICES ASSUME k + 1 <= n, k + 1 <= m, \A i \in 1 .. k + 1 : seq[i] = seq2[i]
               PROVE  g[1 .. k + 1] = h[1 .. k + 1]
    OBVIOUS
  <2>1. g[1 .. k] = h[1 .. k]
    BY <1>2
  <2> HIDE DEF S
  <2>2. 1 .. k + 1 \in SUBSET (1 .. n) /\ 1 .. k + 1 \in SUBSET (1 .. m)
    OBVIOUS
  <2>3. Max(1 .. k + 1) = k + 1 /\ 1 .. k + 1 # {} /\ (1 .. k + 1) \ {k + 1} = 1 .. k
    BY TopOfRange
  <2>4. /\ g[1 .. k + 1] = Step(push, g[1 .. k], seq[k + 1])
        /\ h[1 .. k + 1] = Step(push, h[1 .. k], seq2[k + 1])
    BY <2>2, <2>3 DEF Tabulates
  <2>5. seq[k + 1] = seq2[k + 1]
    OBVIOUS
  <2> QED
    BY <2>1, <2>4, <2>5
<1> HIDE DEF S
<1>3. Nat \subseteq S
  BY <1>1, <1>2, SetInduction
<1> QED
  BY <1>3 DEF S, Agree

\* A fold is the last entry of its tabulation.
LEMMA FoldTabulates ==
    ASSUME NEW X, NEW seq \in Seq(X), NEW push \in BOOLEAN, NEW base
    PROVE  \E g : Tabulates(g, push, base, seq, Len(seq)) /\ Fold(push, base, seq) = g[1 .. Len(seq)]
<1> DEFINE g == CHOOSE f : Tabulates(f, push, base, seq, Len(seq))
<1>1. DOMAIN seq = 1 .. Len(seq) /\ Len(seq) \in Nat
  OBVIOUS
<1>2. Tabulates(g, push, base, seq, Len(seq))
  BY <1>1, TabulationExists
<1>3. Fold(push, base, seq) = g[1 .. Len(seq)]
  <2>1. CASE push = TRUE
    <3>1. Fold(push, base, seq) =
            (CHOOSE f : f = [s \in SUBSET DOMAIN seq |->
                IF s = {} THEN base ELSE Push(f[s \ {Max(s)}], seq[Max(s)])])[DOMAIN seq]
      BY <2>1 DEF Fold, FoldLeft, MapThenFoldSet
    <3> QED
      BY <1>1, <2>1, <3>1 DEF Tabulates, Step
  <2>2. CASE push = FALSE
    <3>1. Fold(push, base, seq) =
            (CHOOSE f : f = [s \in SUBSET DOMAIN seq |->
                IF s = {} THEN base ELSE ReplayLine(f[s \ {Max(s)}], seq[Max(s)])])[DOMAIN seq]
      BY <2>2 DEF Fold, FoldLeft, MapThenFoldSet
    <3> QED
      BY <1>1, <2>2, <3>1 DEF Tabulates, Step
  <2> QED
    BY <2>1, <2>2
<1> QED
  BY <1>2, <1>3

LEMMA FoldEmpty ==
    ASSUME NEW push \in BOOLEAN, NEW base
    PROVE  Fold(push, base, << >>) = base
<1>1. << >> \in Seq({}) /\ Len(<< >>) = 0 /\ 1 .. 0 = {}
  OBVIOUS
<1>2. PICK g : Tabulates(g, push, base, << >>, 0) /\ Fold(push, base, << >>) = g[{}]
  BY <1>1, FoldTabulates
<1> QED
  BY <1>2 DEF Tabulates

\* A fold takes the lines one after the other.
LEMMA FoldAppend ==
    ASSUME NEW X, NEW seq \in Seq(X), NEW l \in X, NEW push \in BOOLEAN, NEW base
    PROVE  Fold(push, base, Append(seq, l)) = Step(push, Fold(push, base, seq), l)
<1> DEFINE n == Len(seq)
           longer == Append(seq, l)
<1>1. /\ n \in Nat /\ longer \in Seq(X) /\ Len(longer) = n + 1
      /\ longer[n + 1] = l /\ \A i \in 1 .. n : seq[i] = longer[i]
  BY AppendProperties
<1> HIDE DEF n, longer
<1>2. PICK g : Tabulates(g, push, base, seq, n) /\ Fold(push, base, seq) = g[1 .. n]
  BY FoldTabulates DEF n
<1>3. PICK h : Tabulates(h, push, base, longer, n + 1) /\ Fold(push, base, longer) = h[1 .. n + 1]
  BY <1>1, FoldTabulates
<1>4. g[1 .. n] = h[1 .. n]
  <2>1. n \in Nat /\ n + 1 \in Nat /\ n <= n /\ n <= n + 1 /\ \A i \in 1 .. n : seq[i] = longer[i]
    BY <1>1
  <2>2. Agree(g, h, seq, longer, n, n + 1)
    BY <1>2, <1>3, <2>1, TabulationsAgree
  <2> QED
    BY <2>1, <2>2 DEF Agree
<1>5. Max(1 .. n + 1) = n + 1 /\ 1 .. n + 1 # {} /\ (1 .. n + 1) \ {n + 1} = 1 .. n
  BY <1>1, TopOfRange
<1>6. h[1 .. n + 1] = Step(push, h[1 .. n], longer[n + 1])
  BY <1>3, <1>5 DEF Tabulates
<1> QED
  BY <1>1, <1>2, <1>3, <1>4, <1>6 DEF longer

-----------------------------------------------------------------------------
(* What the file replays to.                                               *)

FileLines == RightLines \cup {RollbackLine(a) : a \in Nat}
FileOK(f) ==
    /\ f = [header |-> f.header, lines |-> f.lines]
    /\ f.header \in BOOLEAN /\ f.lines \in Seq(FileLines)

\* r is s or, after a failed write, the replay of a file that was emptied.
Told(r, s, failed) == r = s \/ (failed /\ r \in {EmptySet, Corrupt})

LEMMA ReplayAppend ==
    ASSUME NEW f, FileOK(f), NEW l \in FileLines
    PROVE  LET g == [f EXCEPT !.lines = Append(@, l)]
           IN  FileOK(g) /\ Replay(g) = ReplayLine(Replay(f), l)
<1> DEFINE g == [f EXCEPT !.lines = Append(@, l)]
<1>1. g.header = f.header /\ g.lines = Append(f.lines, l) /\ FileOK(g)
  <2>1. f.lines \in Seq(FileLines) /\ f = [header |-> f.header, lines |-> f.lines]
    BY DEF FileOK
  <2>2. g = [header |-> f.header, lines |-> Append(f.lines, l)]
    BY <2>1
  <2>3. Append(f.lines, l) \in Seq(FileLines)
    BY <2>1
  <2> HIDE DEF g
  <2> QED
    BY <2>2, <2>3 DEF FileOK
<1>2. Replay(g) = IF f.header THEN Fold(FALSE, EmptySet, Append(f.lines, l)) ELSE Corrupt
  BY <1>1 DEF Replay, Fold
<1>3. Replay(f) = IF f.header THEN Fold(FALSE, EmptySet, f.lines) ELSE Corrupt
  BY DEF Replay, Fold
<1> HIDE DEF g
<1>4. Fold(FALSE, EmptySet, Append(f.lines, l)) = ReplayLine(Fold(FALSE, EmptySet, f.lines), l)
  <2>1. f.lines \in Seq(FileLines)
    BY DEF FileOK
  <2>2. Fold(FALSE, EmptySet, Append(f.lines, l)) = Step(FALSE, Fold(FALSE, EmptySet, f.lines), l)
    BY <2>1, FoldAppend
  <2> QED
    BY <2>2 DEF Step
<1>5. ReplayLine(Corrupt, l) = Corrupt
  BY DEF ReplayLine
<1>6. Replay(g) = ReplayLine(Replay(f), l)
  BY <1>2, <1>3, <1>4, <1>5
<1> QED
  BY <1>1, <1>6 DEF g

LEMMA NotCorrupt ==
    ASSUME NEW s, NEW t, NEW n, Follows(s, t, n) PROVE s # Corrupt
<1>1. s.height \in Nat
  BY TipOfFollowed, Heights
<1> QED
  BY <1>1 DEF Corrupt

\* A block line that extends the followed block is pushed, and does not fit a file that
\* was emptied, unless the set is empty too.
LEMMA BlockTold ==
    ASSUME NEW r, NEW s, NEW t, NEW n, Follows(s, t, n), NEW failed \in BOOLEAN, Told(r, s, failed),
           NEW b \in Block, Tree[b].prev = t
    PROVE  Told(ReplayLine(r, RightLine(b)), Push(s, RightLine(b)), failed)
<1> DEFINE l == RightLine(b)
<1>1. ~ IsRollback(l) /\ l.height = Height(t) + 1
  BY Heights DEF RightLine, BlockLine, IsRollback
<1>2. s.height = Height(t) /\ t \in Chain /\ Height(t) \in Nat
  BY TipOfFollowed, Heights
<1> HIDE DEF l
<1>3. CASE r = s
  <2>1. r # Corrupt
    BY <1>3, NotCorrupt
  <2>2. ReplayLine(r, l) = Push(s, l)
    BY <1>1, <1>2, <1>3, <2>1 DEF ReplayLine
  <2> QED
    BY <2>2 DEF Told, l
<1>4. CASE r = Corrupt /\ failed
  BY <1>4 DEF Told, ReplayLine
<1>5. CASE r = EmptySet /\ failed /\ r # s
  <2>1. Height(t) # 0
    <3> SUFFICES ASSUME Height(t) = 0 PROVE FALSE
      OBVIOUS
    <3>1. t = Genesis /\ n \in 0 .. 0
      BY <1>2, Heights DEF Follows
    <3>2. s = SetAt(Genesis, 0) /\ EmptySet = SetAt(Genesis, 0)
      BY <3>1, EmptyFollows DEF Follows
    <3> QED
      BY <1>5, <3>2
  <2>2. r.height = 0 /\ r # Corrupt
    BY <1>5 DEF EmptySet, Corrupt
  <2>3. ReplayLine(r, l) = Corrupt
    BY <1>1, <1>2, <2>1, <2>2 DEF ReplayLine
  <2> QED
    BY <1>5, <2>3 DEF Told, l
<1> QED
  BY <1>3, <1>4, <1>5 DEF Told

\* A rollback line takes the replay where the set goes.
LEMMA RollbackTold ==
    ASSUME NEW r, NEW s, NEW t, NEW n, Follows(s, t, n), NEW failed \in BOOLEAN, Told(r, s, failed),
           NEW a \in Nat, CanRollBack(s, a)
    PROVE  Told(ReplayLine(r, RollbackLine(a)), RollBackTo(s, a), failed)
<1> DEFINE l == RollbackLine(a)
<1>1. IsRollback(l) /\ l.rollback = a
  BY DEF RollbackLine, IsRollback
<1> HIDE DEF l
<1>2. CASE r = s
  <2>1. r # Corrupt
    BY <1>2, NotCorrupt
  <2>2. ReplayLine(r, l) = RollBackTo(s, a)
    BY <1>1, <1>2, <2>1 DEF ReplayLine
  <2> QED
    BY <2>2 DEF Told, l
<1>3. CASE r = Corrupt /\ failed
  BY <1>3 DEF Told, ReplayLine
<1>4. CASE r = EmptySet /\ failed
  <2>1. r # Corrupt
    BY <1>4 DEF EmptySet, Corrupt
  <2>2. CASE CanRollBack(r, a)
    <3>1. a = 0
      BY <1>4, <2>2 DEF CanRollBack, EmptySet
    <3>2. PICK m \in Nat : Follows(RollBackTo(EmptySet, 0), BlockAt(Genesis, 0), m)
      BY EmptyFollows, RollBackFollows, Heights
    <3>3. BlockAt(Genesis, 0) = Genesis /\ Height(Genesis) = 0
      BY Heights DEF BlockAt
    <3>4. RollBackTo(EmptySet, 0) = EmptySet
      BY <3>2, <3>3, EmptyFollows DEF Follows
    <3>5. ReplayLine(r, l) = EmptySet
      BY <1>1, <1>4, <2>1, <2>2, <3>1, <3>4 DEF ReplayLine
    <3> QED
      BY <1>4, <3>5 DEF Told, l
  <2>3. CASE ~ CanRollBack(r, a)
    <3>1. ReplayLine(r, l) = Corrupt
      BY <1>1, <2>1, <2>3 DEF ReplayLine
    <3> QED
      BY <1>4, <3>1 DEF Told, l
  <2> QED
    BY <2>2, <2>3
<1> QED
  BY <1>2, <1>3, <1>4 DEF Told

Followed(s) == \E t \in Chain : \E n \in 0 .. Height(t) : Follows(s, t, n)

\* A page of lines whose blocks follow one another, the first on t.
LinkedFrom(page, t) ==
    \A i \in 1 .. Len(page) : Tree[page[i].id].prev = IF i = 1 THEN t ELSE page[i - 1].id

WithLines(f, lines) == [f EXCEPT !.lines = @ \o lines]

LEMMA PrefixGrows ==
    ASSUME NEW X, NEW page \in Seq(X), NEW k \in Nat, k + 1 <= Len(page)
    PROVE  /\ SubSeq(page, 1, k) \in Seq(X)
           /\ page[k + 1] \in X
           /\ SubSeq(page, 1, k + 1) = Append(SubSeq(page, 1, k), page[k + 1])
<1>1. Len(page) \in Nat /\ k + 1 \in 1 .. Len(page) /\ (k + 1) - 1 = k /\ page[k + 1] \in X
  OBVIOUS
<1>2. SubSeq(page, 1, k) \in Seq(X)
  <2>1. \A i \in 1 .. k : page[i] \in X
    BY <1>1
  <2> QED
    BY <2>1, SubSeqProperties
<1>3. SubSeq(page, 1, k + 1) = SubSeq(page, 1, k) \o <<page[k + 1]>>
  BY <1>1, SubSeqRecursiveSecond
<1>4. Append(SubSeq(page, 1, k), page[k + 1]) = SubSeq(page, 1, k) \o <<page[k + 1]>>
  BY <1>1, <1>2, AppendIsConcat
<1> QED
  BY <1>1, <1>2, <1>3, <1>4

LEMMA LinesReplaced ==
    ASSUME NEW f, f = [header |-> f.header, lines |-> f.lines], NEW x
    PROVE  [f EXCEPT !.lines = x] = [header |-> f.header, lines |-> x]
OBVIOUS

LEMMA WithOneMore ==
    ASSUME NEW f, FileOK(f), NEW lines \in Seq(RightLines), NEW l \in RightLines
    PROVE  /\ FileOK(WithLines(f, lines))
           /\ WithLines(f, Append(lines, l)) = [WithLines(f, lines) EXCEPT !.lines = Append(@, l)]
<1>1. f.lines \in Seq(FileLines) /\ f = [header |-> f.header, lines |-> f.lines] /\ f.header \in BOOLEAN
  BY DEF FileOK
<1>2. lines \in Seq(FileLines) /\ l \in FileLines /\ <<l>> \in Seq(FileLines)
  BY DEF FileLines
<1>3. /\ WithLines(f, lines) = [header |-> f.header, lines |-> f.lines \o lines]
      /\ WithLines(f, Append(lines, l)) = [header |-> f.header, lines |-> f.lines \o Append(lines, l)]
  BY <1>1, LinesReplaced DEF WithLines
<1>4. f.lines \o lines \in Seq(FileLines)
  BY <1>1, <1>2, ConcatProperties
<1>5. f.lines \o Append(lines, l) = Append(f.lines \o lines, l)
  <2>1. Append(lines, l) = lines \o <<l>> /\ Append(f.lines \o lines, l) = (f.lines \o lines) \o <<l>>
    BY <1>2, <1>4, AppendIsConcat
  <2>2. (f.lines \o lines) \o <<l>> = f.lines \o (lines \o <<l>>)
    BY <1>1, <1>2, ConcatAssociative
  <2> QED
    BY <2>1, <2>2
<1>6. FileOK(WithLines(f, lines))
  BY <1>1, <1>3, <1>4 DEF FileOK
<1>7. [WithLines(f, lines) EXCEPT !.lines = Append(@, l)] =
        [header |-> f.header, lines |-> Append(f.lines \o lines, l)]
  <2> DEFINE g == WithLines(f, lines)
  <2>1. g.header = f.header /\ g.lines = f.lines \o lines /\ g = [header |-> g.header, lines |-> g.lines]
    BY <1>3
  <2> HIDE DEF g
  <2>2. [g EXCEPT !.lines = Append(@, l)] = [header |-> g.header, lines |-> Append(g.lines, l)]
    BY <2>1, LinesReplaced
  <2> QED
    BY <2>1, <2>2 DEF g
<1> QED
  BY <1>3, <1>5, <1>6, <1>7

\* Appending a page of blocks that extend the followed one, or some of its lines:
\* the set follows the last of them, and the file replays to that set.
LEMMA PageTold ==
    ASSUME NEW f, FileOK(f), NEW s, NEW t, NEW n, Follows(s, t, n), NEW failed \in BOOLEAN,
           NEW page \in Seq(RightLines), LinkedFrom(page, t)
    PROVE  \A k \in 0 .. Len(page) :
              LET p == SubSeq(page, 1, k)
              IN  /\ FileOK(WithLines(f, p))
                  /\ Followed(Fold(TRUE, s, p))
                  /\ Told(Replay(f), s, failed) => Told(Replay(WithLines(f, p)), Fold(TRUE, s, p), failed)
<1> DEFINE Before == Told(Replay(f), s, failed)
           Pre(k) == SubSeq(page, 1, k)
           Tip(k) == IF k = 0 THEN t ELSE page[k].id
           P(k) == k <= Len(page) =>
                     /\ FileOK(WithLines(f, Pre(k)))
                     /\ \E m \in Nat : Follows(Fold(TRUE, s, Pre(k)), Tip(k), m)
                     /\ Before => Told(Replay(WithLines(f, Pre(k))), Fold(TRUE, s, Pre(k)), failed)
           S == {k \in Nat : P(k)}
<1>0. Len(page) \in Nat /\ n \in Nat
  BY Heights DEF Follows
<1>1. P(0)
  <2>1. Pre(0) = <<>>
    OBVIOUS
  <2>2. f.lines \in Seq(FileLines) /\ f = [header |-> f.header, lines |-> f.lines]
    BY DEF FileOK
  <2>3. f.lines \o <<>> = f.lines
    BY <2>2, ConcatEmptySeq
  <2>4. WithLines(f, <<>>) = f
    BY <2>2, <2>3 DEF WithLines
  <2>5. Fold(TRUE, s, <<>>) = s
    BY FoldEmpty
  <2> QED
    BY <1>0, <2>1, <2>4, <2>5
<1>2. ASSUME NEW k \in Nat, P(k) PROVE P(k + 1)
  <2> SUFFICES ASSUME k + 1 <= Len(page)
               PROVE  /\ FileOK(WithLines(f, Pre(k + 1)))
                      /\ \E m \in Nat : Follows(Fold(TRUE, s, Pre(k + 1)), Tip(k + 1), m)
                      /\ Before => Told(Replay(WithLines(f, Pre(k + 1))), Fold(TRUE, s, Pre(k + 1)), failed)
    OBVIOUS
  <2> DEFINE l == page[k + 1]
             r == Fold(TRUE, s, Pre(k))
             g == WithLines(f, Pre(k))
  <2>1. k <= Len(page)
    BY <1>0
  <2>2. FileOK(g) /\ (Before => Told(Replay(g), r, failed))
    BY <1>2, <2>1
  <2>3. PICK m \in Nat : Follows(r, Tip(k), m)
    BY <1>2, <2>1
  <2>4. Pre(k) \in Seq(RightLines) /\ l \in RightLines /\ Pre(k + 1) = Append(Pre(k), l)
    BY PrefixGrows
  <2>5. PICK b \in Block : l = RightLine(b)
    BY <2>4 DEF RightLines
  <2>6. l.id = b /\ Tip(k + 1) = b
    BY <2>5 DEF RightLine, BlockLine
  <2>7. Tree[b].prev = Tip(k)
    <3>1. k + 1 \in 1 .. Len(page) /\ (k + 1 = 1 <=> k = 0) /\ (k + 1) - 1 = k
      BY <1>0
    <3>2. Tree[page[k + 1].id].prev = IF k + 1 = 1 THEN t ELSE page[(k + 1) - 1].id
      BY <3>1 DEF LinkedFrom
    <3> QED
      BY <2>6, <3>1, <3>2
  <2>8. Fold(TRUE, s, Append(Pre(k), l)) = Push(r, l)
    BY <2>4, FoldAppend DEF Step
  <2> HIDE DEF Pre, Tip, l, r
  <2>9. \E q \in Nat : Follows(Push(r, l), b, q)
    BY <2>3, <2>5, <2>7, PushFollows
  <2> HIDE DEF Before
  <2>10. Before => Told(ReplayLine(Replay(g), l), Push(r, l), failed)
    <3> HIDE DEF g
    <3> QED
      BY <2>2, <2>3, <2>5, <2>7, BlockTold
  <2>11. WithLines(f, Append(Pre(k), l)) = [g EXCEPT !.lines = Append(@, l)]
    BY <2>4, WithOneMore
  <2>12. l \in FileLines
    BY <2>4 DEF FileLines
  <2> HIDE DEF g
  <2>13. FileOK([g EXCEPT !.lines = Append(@, l)]) /\ Replay([g EXCEPT !.lines = Append(@, l)]) = ReplayLine(Replay(g), l)
    BY <2>2, <2>12, ReplayAppend
  <2> QED
    BY <2>4, <2>6, <2>8, <2>9, <2>10, <2>11, <2>13
<1> HIDE DEF P
<1>3. 0 \in S /\ \A k \in Nat : k \in S => k + 1 \in S
  BY <1>1, <1>2
<1> HIDE DEF S
<1>4. Nat \subseteq S
  BY <1>3, SetInduction
<1>5. \A k \in Nat : P(k)
  BY <1>4 DEF S
<1> SUFFICES ASSUME NEW k \in 0 .. Len(page)
             PROVE  /\ FileOK(WithLines(f, Pre(k)))
                    /\ Followed(Fold(TRUE, s, Pre(k)))
                    /\ Before => Told(Replay(WithLines(f, Pre(k))), Fold(TRUE, s, Pre(k)), failed)
  OBVIOUS
<1>6. P(k) /\ k <= Len(page)
  BY <1>0, <1>5
<1>7. ASSUME NEW q, NEW c, NEW m \in Nat, Follows(q, c, m) PROVE Followed(q)
  BY <1>7 DEF Followed, Follows
<1> QED
  BY <1>6, <1>7 DEF P

-----------------------------------------------------------------------------
(* The inductive invariant.                                                *)

StoreTold == up => Told(Replay(store), set, failures > 0)

PageLines == {BlockLine(b, Tree[c].nullifiers) : b, c \in Block}

\* What the poll holds extends the followed block; that the page's headers and
\* nullifiers belong together is not known before its last check.
LinksOK ==
    poll.stage = "links" =>
        /\ poll.links \in Seq(Block)
        /\ \A i \in 1 .. Len(poll.links) : Height(poll.links[i]) = set.height + i
PageOK ==
    poll.stage = "page" =>
        /\ poll.page \in Seq(PageLines) /\ Len(poll.page) > 0
        /\ LinkedFrom(poll.page, FollowedTip)
PollOK ==
    /\ poll = [stage |-> poll.stage, tip |-> poll.tip, links |-> poll.links, page |-> poll.page]
    /\ poll.tip \in Nat
    /\ LinksOK /\ PageOK

\* The node is not on the branch of a split page's headers.
SplitOff == SplitPage => Last(poll.page).id \notin ToSet(BranchTo[nodeTip])

Core ==
    /\ nodeTip \in Chain /\ failures \in Nat /\ up \in BOOLEAN
    /\ Followed(set) /\ FileOK(store) /\ StoreTold

FollowInv == Core /\ PollOK /\ SplitOff

\* The action part of LeavesForGood.
StaysAway ==
    SplitPage /\ Last(poll.page).id \notin ToSet(BranchTo[nodeTip])
        => Last(poll.page).id \notin ToSet(BranchTo[nodeTip'])

LEMMA FollowedShape ==
    ASSUME Core
    PROVE  \E t \in Chain : \E n \in 0 .. Height(t) :
              Follows(set, t, n) /\ FollowedTip = t /\ set.height = Height(t) /\ set.landed = NullifiersTo(t)
<1>1. PICK t \in Chain : \E n \in 0 .. Height(t) : Follows(set, t, n)
  BY DEF Core, Followed
<1>2. PICK n \in 0 .. Height(t) : Follows(set, t, n)
  BY <1>1
<1>3. TipOf(set) = t /\ set.height = Height(t) /\ set.landed = NullifiersTo(t)
  BY <1>2, TipOfFollowed
<1>4. FollowedTip = t
  BY <1>3 DEF FollowedTip, TipOf
<1> QED
  BY <1>1, <1>2, <1>3, <1>4

LEMMA HeightIsNatural == ASSUME Core PROVE set.height \in Nat
<1>1. PICK t \in Chain : set.height = Height(t)
  BY FollowedShape
<1> QED
  BY <1>1, Heights

LEMMA MinOfTwo ==
    ASSUME NEW a \in Int, NEW b \in Int
    PROVE  Min({a, b}) \in Int /\ Min({a, b}) <= a /\ Min({a, b}) <= b
<1>1. \E x \in {a, b} : \A y \in {a, b} : x <= y
  <2>1. CASE a <= b
    BY <2>1
  <2>2. CASE ~ (a <= b)
    BY <2>2
  <2> QED
    BY <2>1, <2>2
<1>2. Min({a, b}) \in {a, b} /\ \A y \in {a, b} : Min({a, b}) <= y
  BY <1>1 DEF Min
<1> QED
  BY <1>2

\* The node serves the blocks of its branch, one per height.
ServedOK(v, from, to) ==
    /\ v \in Seq(Block)
    /\ \A i \in 1 .. Len(v) : /\ from + i - 1 \in 1 .. Height(nodeTip) /\ from + i - 1 <= to
                              /\ v[i] = BranchTo[nodeTip][from + i - 1]

LEMMA ServedShape ==
    ASSUME nodeTip \in Chain, NEW from \in Nat \ {0}, NEW to \in Int
    PROVE  ServedOK(Served(from, to), from, to)
<1> DEFINE H == Height(nodeTip)
           m == Min({to, H})
           B == BranchTo[nodeTip]
<1>1. H \in Nat /\ H \in Int /\ B \in Seq(Block) /\ \A i \in 1 .. H : B[i] \in Block
  BY Heights, BranchShape DEF BranchOK
<1> HIDE DEF H
<1>2. m \in Int /\ m <= to /\ m <= H
  BY <1>1, MinOfTwo
<1> HIDE DEF m
<1>3. \A i \in from .. m : B[i] \in Block
  BY <1>1, <1>2
<1> HIDE DEF B
<1>4. /\ SubSeq(B, from, m) \in Seq(Block)
      /\ Len(SubSeq(B, from, m)) = IF from <= m THEN m - from + 1 ELSE 0
      /\ \A i \in 1 .. m - from + 1 : SubSeq(B, from, m)[i] = B[from + i - 1]
  BY <1>2, <1>3, SubSeqProperties
<1> DEFINE v == SubSeq(B, from, m)
<1>5. Served(from, to) = v
  BY DEF Served, B, m, H
<1>6. v \in Seq(Block) /\ Len(v) = IF from <= m THEN m - from + 1 ELSE 0
  BY <1>4
<1>7. \A i \in 1 .. m - from + 1 : v[i] = B[from + i - 1]
  BY <1>4
<1> HIDE DEF v
<1>8. ASSUME NEW i \in 1 .. Len(v)
      PROVE  /\ from + i - 1 \in 1 .. H /\ from + i - 1 <= to /\ v[i] = B[from + i - 1]
  <2>1. from <= m /\ i \in 1 .. m - from + 1
    BY <1>2, <1>6
  <2> QED
    BY <1>1, <1>2, <1>7, <2>1
<1> QED
  BY <1>5, <1>6, <1>8 DEF ServedOK, H, B

\* The last check finds the page's last block on the node's branch.
LEMMA UnchangedOnBranch ==
    ASSUME nodeTip \in Chain, poll.page \in Seq(PageLines), Len(poll.page) > 0, Unchanged
    PROVE  Last(poll.page).id \in ToSet(BranchTo[nodeTip])
<1> DEFINE l == Last(poll.page)
           v == Served(l.height, l.height)
<1>1. l \in PageLines
  BY DEF Last
<1>2. PICK b, c \in Block : l = BlockLine(b, Tree[c].nullifiers)
  BY <1>1 DEF PageLines
<1>3. l.height \in Nat \ {0} /\ l.height \in Int
  BY <1>2, Heights DEF BlockLine
<1>4. v = <<l.id>>
  BY DEF Unchanged
<1> HIDE DEF l
<1>5. ServedOK(v, l.height, l.height)
  BY <1>3, ServedShape
<1> HIDE DEF v
<1>6. Len(v) = 1 /\ v[1] = l.id /\ 1 \in 1 .. Len(v) /\ l.height + 1 - 1 = l.height
  BY <1>3, <1>4
<1>7. l.height \in 1 .. Height(nodeTip) /\ l.id = BranchTo[nodeTip][l.height]
  BY <1>5, <1>6 DEF ServedOK
<1>8. DOMAIN BranchTo[nodeTip] = 1 .. Height(nodeTip)
  BY BranchShape DEF BranchOK
<1> QED
  BY <1>7, <1>8 DEF ToSet, l

\* A page that passes the last check is not split: its lines are the blocks' own.
LEMMA CheckedPage ==
    ASSUME FollowInv, poll.stage = "page", Unchanged
    PROVE  /\ poll.page \in Seq(RightLines) /\ Len(poll.page) > 0
           /\ LinkedFrom(poll.page, FollowedTip)
<1>1. /\ nodeTip \in Chain /\ poll.page \in Seq(PageLines) /\ Len(poll.page) > 0
      /\ LinkedFrom(poll.page, FollowedTip)
  BY DEF FollowInv, Core, PollOK, PageOK
<1>2. ~ SplitPage
  BY <1>1, UnchangedOnBranch DEF FollowInv, SplitOff
<1>3. ASSUME NEW i \in 1 .. Len(poll.page) PROVE poll.page[i] \in RightLines
  <2>1. poll.page[i] \in PageLines /\ i \in DOMAIN poll.page
    BY <1>1
  <2>2. PICK b, c \in Block : poll.page[i] = BlockLine(b, Tree[c].nullifiers)
    BY <2>1 DEF PageLines
  <2>3. poll.page[i].id = b /\ poll.page[i].nullifiers = Tree[c].nullifiers
    BY <2>2 DEF BlockLine
  <2>4. Tree[c].nullifiers = Tree[b].nullifiers
    BY <1>2, <2>1, <2>3 DEF SplitPage
  <2> QED
    BY <2>2, <2>4 DEF RightLines, RightLine
<1> QED
  BY <1>1, <1>3

-----------------------------------------------------------------------------
(* The steps.                                                              *)

LEMMA FollowInitInv == FollowInit => FollowInv
<1> SUFFICES ASSUME FollowInit PROVE FollowInv
  OBVIOUS
<1>1. Genesis \in Chain /\ 0 \in 0 .. Height(Genesis)
  BY Heights DEF Chain
<1>2. Followed(set)
  BY <1>1, EmptyFollows DEF Followed, FollowInit
<1>3. FileOK(store)
  BY DEF FollowInit, FreshStore, FileOK
<1>4. Replay(store) = EmptySet
  <2>1. Fold(FALSE, EmptySet, <<>>) = EmptySet
    BY FoldEmpty
  <2> QED
    BY <2>1 DEF FollowInit, FreshStore, Replay, Fold
<1>5. StoreTold
  BY <1>4 DEF StoreTold, Told, FollowInit
<1>6. PollOK /\ SplitOff
  BY DEF FollowInit, NoPoll, PollOK, LinksOK, PageOK, SplitOff, SplitPage
<1> QED
  BY <1>1, <1>2, <1>3, <1>5, <1>6 DEF FollowInv, Core, FollowInit

\* A poll that is over holds nothing.
LEMMA IdlePoll ==
    ASSUME poll' = NoPoll PROVE PollOK' /\ SplitOff'
BY DEF NoPoll, PollOK, LinksOK, PageOK, SplitOff, SplitPage

LEMMA CoreKept ==
    ASSUME Core, UNCHANGED <<nodeTip, set, store, up, failures>> PROVE Core'
BY DEF Core, StoreTold, Followed

\* A poll at a stage at which it holds no answers.
LEMMA BareStage ==
    ASSUME PollOK, NEW st, st \notin {"links", "page"}, NEW tip \in Nat, NEW x, NEW y,
           poll' = [stage |-> st, tip |-> tip, links |-> x, page |-> y]
    PROVE  PollOK' /\ SplitOff'
BY DEF PollOK, LinksOK, PageOK, SplitOff, SplitPage

LEMMA NodeStep ==
    ASSUME FollowInv, StaysAway, NEW b \in Chain, nodeTip' = b,
           UNCHANGED <<set, poll, store, up, failures>>
    PROVE  FollowInv'
<1>1. Core'
  BY DEF FollowInv, Core, StoreTold, Followed
<1>2. PollOK'
  BY DEF FollowInv, PollOK, LinksOK, PageOK, FollowedTip
<1>3. SplitOff'
  BY DEF FollowInv, SplitOff, SplitPage, StaysAway
<1> QED
  BY <1>1, <1>2, <1>3 DEF FollowInv

LEMMA PollTipStep == ASSUME FollowInv, PollTip PROVE FollowInv'
<1> DEFINE st == IF set.height = 0 THEN "extend" ELSE "reconcile"
<1>1. Core'
  BY CoreKept DEF FollowInv, PollTip
<1>2. /\ poll' = [stage |-> st, tip |-> Height(nodeTip), links |-> <<>>, page |-> <<>>]
      /\ st \notin {"links", "page"} /\ Height(nodeTip) \in Nat
  BY Heights DEF PollTip, NoPoll, FollowInv, Core
<1> HIDE DEF st
<1>3. PollOK' /\ SplitOff'
  BY <1>2, BareStage DEF FollowInv
<1> QED
  BY <1>1, <1>3 DEF FollowInv

LEMMA PollRestaged ==
    ASSUME PollOK, NEW st, poll' = [poll EXCEPT !.stage = st], st \notin {"links", "page"}
    PROVE  PollOK' /\ SplitOff'
<1>1. poll' = [stage |-> st, tip |-> poll.tip, links |-> poll.links, page |-> poll.page] /\ poll.tip \in Nat
  BY DEF PollOK
<1> QED
  BY <1>1, BareStage

LEMMA ReconcileStep == ASSUME FollowInv, Reconcile PROVE FollowInv'
<1> DEFINE st == IF poll.tip >= set.height /\ Served(set.height, set.height) = <<Last(set.window).id>>
                 THEN "extend" ELSE "walk"
<1>1. Core'
  BY CoreKept DEF FollowInv, Reconcile
<1>2. poll' = [poll EXCEPT !.stage = st] /\ st \notin {"links", "page"}
  BY DEF Reconcile
<1> HIDE DEF st
<1>3. PollOK' /\ SplitOff'
  BY <1>2, PollRestaged DEF FollowInv
<1> QED
  BY <1>1, <1>3 DEF FollowInv

LEMMA CatchUpStep == ASSUME FollowInv, CatchUp PROVE FollowInv'
<1>1. Core'
  BY CoreKept DEF FollowInv, CatchUp
<1> QED
  BY <1>1, IdlePoll DEF FollowInv, CatchUp

LEMMA GoesStaleStep == ASSUME FollowInv, GoesStale PROVE FollowInv'
<1>1. Core'
  BY CoreKept DEF FollowInv, GoesStale
<1>2. PollOK'
  BY DEF FollowInv, GoesStale, PollOK, LinksOK, PageOK, FollowedTip
<1>3. SplitOff'
  BY DEF FollowInv, GoesStale, SplitOff, SplitPage
<1> QED
  BY <1>1, <1>2, <1>3 DEF FollowInv

\* NullifierStore::reset and a new start, on an empty file.
LEMMA FreshCore ==
    ASSUME FollowInv, store' = FreshStore, set' = EmptySet, up' \in BOOLEAN, failures' \in Nat,
           nodeTip' = nodeTip
    PROVE  Core'
<1>1. Genesis \in Chain /\ 0 \in 0 .. Height(Genesis)
  BY Heights DEF Chain
<1>2. Followed(set)'
  BY <1>1, EmptyFollows DEF Followed
<1>3. FileOK(store)'
  BY DEF FreshStore, FileOK
<1>4. Replay(FreshStore) = EmptySet
  <2>1. Fold(FALSE, EmptySet, <<>>) = EmptySet
    BY FoldEmpty
  <2> QED
    BY <2>1 DEF FreshStore, Replay, Fold
<1>5. StoreTold'
  BY <1>4 DEF StoreTold, Told
<1> QED
  BY <1>1, <1>2, <1>3, <1>5 DEF FollowInv, Core

LEMMA RebuildStep == ASSUME FollowInv, Rebuild PROVE FollowInv'
<1>1. Core'
  BY FreshCore DEF FollowInv, Core, Rebuild
<1> QED
  BY <1>1, IdlePoll DEF FollowInv, Rebuild

\* reconcile rolls back to a block of the window, or to genesis below its first.
LEMMA CommonShape ==
    ASSUME FollowInv, CommonHeights # {}, NEW t, NEW n, Follows(set, t, n)
    PROVE  LET a == Max(CommonHeights)
           IN  /\ a \in Nat /\ a <= Height(t) /\ a >= Height(t) - n
               /\ a = Height(t) - n => a = 0
<1> DEFINE a == Max(CommonHeights)
           h == Height(t)
           w == set.window
<1>1. /\ t \in Chain /\ n \in 0 .. h /\ set = SetAt(t, n) /\ h \in Nat /\ n \in Nat /\ n <= h
  BY Heights DEF Follows
<1>2. WindowOK(w, t, n)
  BY <1>1, WindowShape
<1>3. w \in Seq(RightLines) /\ Len(w) = n /\ DOMAIN w = 1 .. n /\ \A i \in 1 .. n : w[i].height = h - n + i
  BY <1>2 DEF WindowOK
<1>4. w # <<>> /\ n # 0 /\ Head(w) = w[1] /\ Head(w).height = h - n + 1
  <2>1. w # <<>>
    BY DEF CommonHeights
  <2>2. n # 0 /\ Head(w) = w[1] /\ 1 \in 1 .. n
    BY <1>1, <1>3, <2>1
  <2>3. w[1].height = h - n + 1
    BY <1>3, <2>2
  <2> QED
    BY <2>1, <2>2, <2>3
<1> DEFINE K == {i \in 0 .. h : i >= h - n /\ (i = h - n => i = 0)}
<1>5. CommonHeights \subseteq K
  <2>1. ASSUME NEW v \in ToSet(w) PROVE v.height \in K
    <3>1. PICK i \in 1 .. n : v = w[i]
      BY <1>3, <2>1 DEF ToSet
    <3>2. v.height = h - n + i
      BY <1>3, <3>1
    <3> QED
      BY <1>1, <3>2
  <2>2. Head(w).height = 1 => 0 \in K
    BY <1>1, <1>4
  <2> HIDE DEF K, w
  <2>3. CommonHeights \subseteq {v.height : v \in ToSet(w)} \cup (IF Head(w).height = 1 THEN {0} ELSE {})
    BY DEF CommonHeights, w
  <2> QED
    BY <2>1, <2>2, <2>3
<1>6. CommonHeights \subseteq 0 .. h
  BY <1>5
<1>7. a \in CommonHeights
  BY <1>1, <1>6, MaxIsMember
<1> HIDE DEF a
<1>8. a \in K
  BY <1>5, <1>7
<1> QED
  BY <1>1, <1>8 DEF a

LEMMA RollBackStep == ASSUME FollowInv, RollBack PROVE FollowInv'
<1> DEFINE a == Max(CommonHeights)
<1>0. Core
  BY DEF FollowInv
<1>1. PICK t \in Chain : \E n \in 0 .. Height(t) : Follows(set, t, n)
  BY <1>0 DEF Core, Followed
<1>2. PICK n \in 0 .. Height(t) : Follows(set, t, n)
  BY <1>1
<1>3. a \in Nat /\ a <= Height(t) /\ a >= Height(t) - n /\ (a = Height(t) - n => a = 0)
  BY <1>2, CommonShape DEF RollBack
<1>4. /\ store' = [store EXCEPT !.lines = Append(@, RollbackLine(a))] /\ set' = RollBackTo(set, a)
      /\ poll' = [poll EXCEPT !.stage = "extend"]
      /\ nodeTip' = nodeTip /\ up' = up /\ failures' = failures
  BY DEF RollBack
<1> HIDE DEF a
<1>5. CanRollBack(set, a) /\ \E m \in Nat : Follows(RollBackTo(set, a), BlockAt(t, a), m)
  BY <1>2, <1>3, RollBackFollows
<1>6. Followed(set)'
  BY <1>4, <1>5 DEF Followed, Follows
<1>7. RollbackLine(a) \in FileLines
  BY <1>3 DEF FileLines
<1>8. FileOK(store') /\ Replay(store') = ReplayLine(Replay(store), RollbackLine(a))
  BY <1>0, <1>4, <1>7, ReplayAppend DEF Core
<1>9. StoreTold'
  <2> SUFFICES ASSUME up' PROVE Told(Replay(store'), set', failures' > 0)
    BY DEF StoreTold
  <2>1. up /\ Told(Replay(store), set, failures > 0)
    BY <1>0, <1>4 DEF Core, StoreTold
  <2>2. (failures > 0) \in BOOLEAN
    OBVIOUS
  <2>3. Told(ReplayLine(Replay(store), RollbackLine(a)), RollBackTo(set, a), failures > 0)
    BY <1>2, <1>3, <1>5, <2>1, <2>2, RollbackTold
  <2> QED
    BY <1>4, <1>8, <2>3
<1>10. Core'
  BY <1>0, <1>4, <1>6, <1>8, <1>9 DEF Core
<1>11. PollOK' /\ SplitOff'
  <2>1. "extend" \notin {"links", "page"}
    OBVIOUS
  <2> QED
    BY <1>4, <2>1, PollRestaged DEF FollowInv
<1> QED
  BY <1>10, <1>11 DEF FollowInv

LEMMA ReadHeadersStep == ASSUME FollowInv, ReadHeaders PROVE FollowInv'
<1> DEFINE v == Served(Next1, PageEnd)
<1>1. Core /\ PollOK /\ set.height \in Nat /\ nodeTip \in Chain
  BY HeightIsNatural DEF FollowInv, Core
<1>2. Core'
  BY <1>1, CoreKept DEF ReadHeaders
<1>3. Next1 \in Nat \ {0} /\ PageEnd \in Int /\ Next1 = set.height + 1
  <2>1. poll.tip \in Int /\ Next1 + HeadersPage - 1 \in Int /\ Next1 \in Nat \ {0}
    BY <1>1, FollowBounds DEF PollOK, Next1
  <2> QED
    BY <2>1, MinOfTwo DEF PageEnd, Next1
<1>4. ServedOK(v, Next1, PageEnd)
  BY <1>1, <1>3, ServedShape
<1>5. poll' = [stage |-> "links", tip |-> poll.tip, links |-> v, page |-> poll.page] /\ poll.tip \in Nat
  BY <1>1 DEF ReadHeaders, PollOK
<1>6. set' = set
  BY DEF ReadHeaders
<1> HIDE DEF v
<1>7. v \in Seq(Block) /\ \A i \in 1 .. Len(v) : Height(v[i]) = set.height + i
  <2>1. v \in Seq(Block) /\ \A i \in 1 .. Len(v) : /\ Next1 + i - 1 \in 1 .. Height(nodeTip)
                                                   /\ v[i] = BranchTo[nodeTip][Next1 + i - 1]
    BY <1>4 DEF ServedOK
  <2>2. \A i \in 1 .. Len(v) : Next1 + i - 1 = set.height + i
    BY <1>1, <1>3, <2>1
  <2>3. \A j \in 1 .. Height(nodeTip) : Height(BranchTo[nodeTip][j]) = j
    BY <1>1, BranchShape DEF BranchOK
  <2> QED
    BY <2>1, <2>2, <2>3
<1>8. PollOK' /\ SplitOff'
  BY <1>5, <1>6, <1>7 DEF PollOK, LinksOK, PageOK, SplitOff, SplitPage
<1> QED
  BY <1>2, <1>8 DEF FollowInv

\* Linked headers whose last one is on the node's branch are all on it.
LEMMA LinkedOnBranch ==
    ASSUME NEW t \in Chain, NEW h \in Nat, NEW n \in Nat, NEW links, n > 0,
           \A i \in 1 .. n : links[i] \in Block /\ Height(links[i]) = h + i,
           \A i \in 1 .. n : i > 1 => Tree[links[i]].prev = links[i - 1],
           links[n] \in ToSet(BranchTo[t])
    PROVE  \A i \in 1 .. n : links[i] = BranchTo[t][h + i]
<1>1. h + n \in 1 .. Height(t) /\ BranchTo[t][h + n] = links[n]
  BY OnBranch
<1> DEFINE P(k) == k < n => links[n - k] = BranchTo[t][h + (n - k)]
           S == {k \in Nat : P(k)}
<1>2. P(0)
  BY <1>1
<1>3. ASSUME NEW k \in Nat, P(k) PROVE P(k + 1)
  <2> SUFFICES ASSUME k + 1 < n PROVE links[n - (k + 1)] = BranchTo[t][h + (n - (k + 1))]
    OBVIOUS
  <2> DEFINE i == n - k
             j == h + i
  <2>1. i \in 1 .. n /\ i > 1 /\ n - (k + 1) = i - 1 /\ h + (n - (k + 1)) = j - 1 /\ j \in 1 .. Height(t) /\ j # 1
    BY <1>1, Heights
  <2>2. links[i] = BranchTo[t][j]
    BY <1>3
  <2> HIDE DEF i, j
  <2>3. Tree[BranchTo[t][j]].prev = BranchTo[t][j - 1]
    BY <2>1, ParentOnBranch
  <2>4. Tree[links[i]].prev = links[i - 1]
    BY <2>1
  <2> QED
    BY <2>1, <2>2, <2>3, <2>4
<1> HIDE DEF P
<1>4. 0 \in S /\ \A k \in Nat : k \in S => k + 1 \in S
  BY <1>2, <1>3
<1> HIDE DEF S
<1>5. Nat \subseteq S
  BY <1>4, SetInduction
<1>6. \A k \in Nat : P(k)
  BY <1>5 DEF S
<1> SUFFICES ASSUME NEW i \in 1 .. n PROVE links[i] = BranchTo[t][h + i]
  OBVIOUS
<1>7. n - i \in Nat /\ n - i < n /\ n - (n - i) = i
  OBVIOUS
<1>8. P(n - i)
  BY <1>6, <1>7
<1> QED
  BY <1>7, <1>8 DEF P

\* poll pairs headers and nullifiers: the page extends the followed block, and if it
\* is split the node has left the branch of its headers.
LEMMA ReadNullifiersStep == ASSUME FollowInv, ReadNullifiers PROVE FollowInv'
<1> DEFINE blocks == Served(Next1, PageEnd)
           n == Len(blocks)
           links == poll.links
           h == set.height
           paired == [i \in 1 .. n |-> BlockLine(links[i], Tree[blocks[i]].nullifiers)]
<1>1. Core /\ PollOK /\ h \in Nat /\ nodeTip \in Chain /\ poll.stage = "links"
  BY HeightIsNatural DEF FollowInv, Core, ReadNullifiers
<1>2. Core' /\ set' = set /\ nodeTip' = nodeTip
  BY <1>1, CoreKept DEF ReadNullifiers
<1>3. CASE poll' = NoPoll
  BY <1>2, <1>3, IdlePoll DEF FollowInv
<1>4. CASE poll' # NoPoll
  <2>1. /\ n > 0 /\ Len(links) >= n /\ Linked(SubSeq(links, 1, n))
        /\ poll' = [poll EXCEPT !.stage = "page", !.links = <<>>, !.page = paired]
    BY <1>4 DEF ReadNullifiers
  <2>2. Next1 \in Nat \ {0} /\ PageEnd \in Int /\ Next1 = h + 1
    <3>1. poll.tip \in Int /\ Next1 + HeadersPage - 1 \in Int /\ Next1 \in Nat \ {0}
      BY <1>1, FollowBounds DEF PollOK, Next1
    <3> QED
      BY <3>1, MinOfTwo DEF PageEnd, Next1
  <2>3. ServedOK(blocks, Next1, PageEnd)
    BY <1>1, <2>2, ServedShape
  <2>4. poll' = [stage |-> "page", tip |-> poll.tip, links |-> <<>>, page |-> paired] /\ poll.tip \in Nat
    BY <1>1, <2>1 DEF PollOK
  <2>5. links \in Seq(Block) /\ \A i \in 1 .. Len(links) : Height(links[i]) = h + i
    BY <1>1 DEF PollOK, LinksOK
  <2> HIDE DEF links, blocks, h
  <2>6. /\ n \in Nat /\ blocks \in Seq(Block)
        /\ \A i \in 1 .. n : blocks[i] \in Block /\ blocks[i] = BranchTo[nodeTip][h + i]
    <3>1. /\ blocks \in Seq(Block)
          /\ \A i \in 1 .. n : blocks[i] = BranchTo[nodeTip][Next1 + i - 1]
      BY <2>3 DEF ServedOK
    <3>2. \A i \in 1 .. n : Next1 + i - 1 = h + i
      BY <1>1, <2>2
    <3> QED
      BY <3>1, <3>2
  <2> HIDE DEF n
  <2>7. \A i \in 1 .. n : links[i] \in Block /\ Height(links[i]) = h + i
    BY <2>1, <2>5, <2>6
  <2>8. SubSeq(links, 1, n) \in Seq(Block) /\ DOMAIN SubSeq(links, 1, n) = 1 .. n
        /\ \A i \in 1 .. n : SubSeq(links, 1, n)[i] = links[i]
    BY <2>1, <2>5, <2>6
  <2>9. \A i \in 1 .. n : i > 1 => Tree[links[i]].prev = links[i - 1]
    <3>1. \A i \in 1 .. n : i > 1 => i - 1 \in 1 .. n
      BY <2>6
    <3> QED
      BY <2>1, <2>8, <3>1 DEF Linked
  <2>10. Tree[links[1]].prev = FollowedTip
    <3>1. 1 \in 1 .. n /\ ~ (1 > 1)
      BY <2>1, <2>6
    <3>2. CASE set.window # <<>>
      <4>1. Tree[SubSeq(links, 1, n)[1]].prev = Last(set.window).id
        BY <2>1, <2>8, <3>1, <3>2 DEF Linked
      <4> QED
        BY <2>8, <3>1, <3>2, <4>1 DEF FollowedTip
    <3>3. CASE set.window = <<>>
      <4>1. FollowedTip = Genesis
        BY <3>3 DEF FollowedTip
      <4>2. h = 0
        BY <1>1, <4>1, FollowedShape, Heights DEF h
      <4>3. links[1] \in Block /\ Height(links[1]) = 1
        BY <2>7, <3>1, <4>2
      <4>4. Height(Tree[links[1]].prev) = 0 /\ Tree[links[1]].prev \in Chain
        BY <4>3, Heights
      <4> QED
        BY <4>1, <4>4, Heights
    <3> QED
      BY <3>2, <3>3
  <2>11. /\ paired \in Seq(PageLines) /\ Len(paired) = n /\ DOMAIN paired = 1 .. n
         /\ \A i \in 1 .. n : /\ paired[i].id = links[i]
                              /\ paired[i].nullifiers = Tree[blocks[i]].nullifiers
    <3>1. \A i \in 1 .. n : paired[i] = BlockLine(links[i], Tree[blocks[i]].nullifiers)
      OBVIOUS
    <3>2. \A i \in 1 .. n : paired[i] \in PageLines
      BY <2>6, <2>7, <3>1 DEF PageLines
    <3> QED
      BY <2>6, <3>1, <3>2 DEF BlockLine
  <2> HIDE DEF paired
  <2>12. LinkedFrom(paired, FollowedTip)
    <3> SUFFICES ASSUME NEW i \in 1 .. n
                 PROVE  Tree[paired[i].id].prev = IF i = 1 THEN FollowedTip ELSE paired[i - 1].id
      BY <2>11 DEF LinkedFrom
    <3>1. CASE i = 1
      BY <2>10, <2>11, <3>1
    <3>2. CASE i # 1
      <4>1. i > 1 /\ i - 1 \in 1 .. n
        BY <2>6, <3>2
      <4> QED
        BY <2>9, <2>11, <3>2, <4>1
    <3> QED
      BY <3>1, <3>2
  <2>13. FollowedTip' = FollowedTip
    BY <1>2 DEF FollowedTip
  <2>14. PollOK'
    BY <2>1, <2>4, <2>11, <2>12, <2>13 DEF PollOK, LinksOK, PageOK
  <2>15. SplitOff'
    <3> SUFFICES ASSUME links[n] \in ToSet(BranchTo[nodeTip]),
                        NEW i \in 1 .. n, paired[i].nullifiers # Tree[paired[i].id].nullifiers
                 PROVE  FALSE
      <4>1. poll'.page = paired /\ Last(paired).id = links[n]
        BY <2>1, <2>4, <2>6, <2>11 DEF Last
      <4> QED
        BY <1>2, <2>11, <4>1 DEF SplitOff, SplitPage
    <3>1. \A j \in 1 .. n : links[j] = BranchTo[nodeTip][h + j]
      <4>1. nodeTip \in Chain /\ h \in Nat /\ n \in Nat /\ n > 0
        BY <1>1, <2>1, <2>6
      <4> QED
        BY <2>7, <2>9, <4>1, LinkedOnBranch
    <3>2. links[i] = blocks[i]
      BY <2>6, <3>1
    <3> QED
      BY <2>11, <3>2
  <2> QED
    BY <1>2, <2>14, <2>15 DEF FollowInv
<1> QED
  BY <1>3, <1>4

\* A checked page, or the first k of its lines, appended to the file.
LEMMA PageAppended ==
    ASSUME FollowInv, poll.stage = "page", Unchanged, NEW k \in 0 .. Len(poll.page)
    PROVE  LET p == SubSeq(poll.page, 1, k)
           IN  /\ FileOK(WithLines(store, p))
               /\ Followed(Fold(TRUE, set, p))
               /\ up => Told(Replay(WithLines(store, p)), Fold(TRUE, set, p), failures > 0)
<1>1. poll.page \in Seq(RightLines) /\ LinkedFrom(poll.page, FollowedTip)
  BY CheckedPage
<1>2. Core /\ FileOK(store) /\ (up => Told(Replay(store), set, failures > 0))
  BY DEF FollowInv, Core, StoreTold
<1>3. PICK t \in Chain : \E n \in 0 .. Height(t) : Follows(set, t, n) /\ FollowedTip = t
  BY <1>2, FollowedShape
<1>4. PICK n \in 0 .. Height(t) : Follows(set, t, n) /\ FollowedTip = t
  BY <1>3
<1>5. (failures > 0) \in BOOLEAN
  OBVIOUS
<1>6. LET p == SubSeq(poll.page, 1, k)
      IN  /\ FileOK(WithLines(store, p))
          /\ Followed(Fold(TRUE, set, p))
          /\ Told(Replay(store), set, failures > 0)
               => Told(Replay(WithLines(store, p)), Fold(TRUE, set, p), failures > 0)
  BY <1>1, <1>2, <1>4, <1>5, PageTold
<1> QED
  BY <1>2, <1>6

LEMMA ExtendStep == ASSUME FollowInv, Extend PROVE FollowInv'
<1>0. Core /\ PollOK /\ poll.stage = "page" /\ nodeTip' = nodeTip /\ up' = up /\ failures' = failures
  BY DEF FollowInv, Extend
<1>1. CASE ~ Unchanged
  <2>1. poll' = NoPoll /\ UNCHANGED <<nodeTip, set, store, up, failures>>
    BY <1>1 DEF Extend
  <2> QED
    BY <1>0, <2>1, CoreKept, IdlePoll DEF FollowInv
<1>2. CASE Unchanged
  <2> DEFINE page == poll.page
  <2>1. /\ store' = WithLines(store, page) /\ set' = Fold(TRUE, set, page)
        /\ poll' = [poll EXCEPT !.stage = "extend", !.page = <<>>]
    BY <1>2 DEF Extend, WithLines, Fold
  <2>2. page \in Seq(RightLines) /\ Len(page) \in 0 .. Len(page)
    BY <1>0, <1>2, CheckedPage
  <2>3. SubSeq(page, 1, Len(page)) = page
    BY <2>2, SubSeqFull
  <2>4. /\ FileOK(WithLines(store, page)) /\ Followed(Fold(TRUE, set, page))
        /\ up => Told(Replay(WithLines(store, page)), Fold(TRUE, set, page), failures > 0)
    BY <1>0, <1>2, <2>2, <2>3, PageAppended
  <2> HIDE DEF page
  <2>5. Followed(set)' /\ FileOK(store)'
    BY <2>1, <2>4 DEF Followed
  <2>6. StoreTold'
    BY <1>0, <2>1, <2>4 DEF StoreTold
  <2>7. Core'
    BY <1>0, <2>5, <2>6 DEF Core
  <2>8. "extend" \notin {"links", "page"}
    OBVIOUS
  <2>9. poll' = [stage |-> "extend", tip |-> poll.tip, links |-> poll.links, page |-> <<>>] /\ poll.tip \in Nat
    BY <1>0, <2>1 DEF PollOK
  <2>10. PollOK' /\ SplitOff'
    BY <1>0, <2>8, <2>9, BareStage
  <2> QED
    BY <2>7, <2>10 DEF FollowInv
<1> QED
  BY <1>1, <1>2

\* What NullifierStore::reset leaves when it stops half-way is empty or refused.
LEMMA HalfResetReplays ==
    ASSUME NEW f \in HalfReset
    PROVE  FileOK(f) /\ Replay(f) \in {EmptySet, Corrupt}
<1>1. f \in {[header |-> FALSE, lines |-> <<>>], FreshStore}
  BY DEF HalfReset
<1>2. CASE f = FreshStore
  <2>1. Fold(FALSE, EmptySet, <<>>) = EmptySet
    BY FoldEmpty
  <2> QED
    BY <1>2, <2>1 DEF FreshStore, Replay, Fold, FileOK
<1>3. CASE f = [header |-> FALSE, lines |-> <<>>]
  BY <1>3 DEF Replay, FileOK
<1> QED
  BY <1>1, <1>2, <1>3

LEMMA PollFailsStep == ASSUME FollowInv, PollFails PROVE FollowInv'
<1>1. /\ Core /\ poll' = NoPoll /\ nodeTip' = nodeTip /\ set' = set /\ up' = up
      /\ failures \in Nat /\ failures' = failures + 1 /\ store' \in {store} \cup HalfReset
  BY DEF FollowInv, Core, PollFails
<1>2. failures' \in Nat /\ (failures' > 0) = TRUE
  BY <1>1
<1>3. CASE store' = store
  <2>1. StoreTold'
    BY <1>1, <1>2, <1>3 DEF Core, StoreTold, Told
  <2>2. Core'
    BY <1>1, <1>2, <1>3, <2>1 DEF Core, Followed
  <2> QED
    BY <1>1, <2>2, IdlePoll DEF FollowInv
<1>4. CASE store' \in HalfReset
  <2>1. FileOK(store') /\ Replay(store') \in {EmptySet, Corrupt}
    BY <1>4, HalfResetReplays
  <2>2. StoreTold'
    BY <1>2, <2>1 DEF StoreTold, Told
  <2>3. Core'
    BY <1>1, <1>2, <2>1, <2>2 DEF Core, Followed
  <2> QED
    BY <1>1, <2>3, IdlePoll DEF FollowInv
<1> QED
  BY <1>1, <1>3, <1>4

\* A start on a file that replays to a set of one branch, or is refused.
LEMMA StartStep ==
    ASSUME FollowInv, NEW f, FileOK(f), Replay(f) = Corrupt \/ Followed(Replay(f)),
           StartsOver(f), nodeTip' = nodeTip, failures' = failures
    PROVE  FollowInv'
<1>1. /\ store' = f /\ up' = (Replay(f) # Corrupt) /\ poll' = NoPoll
      /\ set' = IF up' THEN Replay(f) ELSE EmptySet
  BY DEF StartsOver
<1>2. Followed(EmptySet)
  <2>1. Genesis \in Chain /\ 0 \in 0 .. Height(Genesis)
    BY Heights DEF Chain
  <2> QED
    BY <2>1, EmptyFollows DEF Followed
<1>3. up' \in BOOLEAN
  BY <1>1
<1>4. Followed(set')
  BY <1>1, <1>2
<1>5. StoreTold'
  BY <1>1 DEF StoreTold, Told
<1>6. Core'
  BY <1>1, <1>3, <1>4, <1>5 DEF FollowInv, Core, Followed
<1> QED
  BY <1>1, <1>6, IdlePoll DEF FollowInv

LEMMA ToldFollowed ==
    ASSUME NEW r, NEW s, Followed(s), NEW failed \in BOOLEAN, Told(r, s, failed)
    PROVE  r = Corrupt \/ Followed(r)
<1>1. Genesis \in Chain /\ 0 \in 0 .. Height(Genesis)
  BY Heights DEF Chain
<1>2. Followed(EmptySet)
  BY <1>1, EmptyFollows DEF Followed
<1> QED
  BY <1>2 DEF Told

LEMMA FollowCrashStep == ASSUME FollowInv, FollowCrash PROVE FollowInv'
<1>1. PICK f \in Durable : StartsOver(f)
  BY DEF FollowCrash
<1>2. up /\ nodeTip' = nodeTip /\ failures' = failures
  BY DEF FollowCrash
<1>3. Core /\ Followed(set) /\ FileOK(store) /\ Told(Replay(store), set, failures > 0)
  BY <1>2 DEF FollowInv, Core, StoreTold
<1>4. (failures > 0) \in BOOLEAN
  OBVIOUS
<1>5. FileOK(f) /\ (Replay(f) = Corrupt \/ Followed(Replay(f)))
  <2>1. CASE f = store
    BY <1>3, <1>4, <2>1, ToldFollowed
  <2>2. CASE f \in HalfReset
    <3>1. FileOK(f) /\ Replay(f) \in {EmptySet, Corrupt}
      BY <2>2, HalfResetReplays
    <3>2. Told(Replay(f), set, TRUE)
      BY <3>1 DEF Told
    <3> QED
      BY <1>3, <3>1, <3>2, ToldFollowed
  <2>3. CASE f \notin {store} \cup HalfReset
    <3>1. /\ poll.stage = "page" /\ Unchanged
          /\ f \in {[store EXCEPT !.lines = @ \o SubSeq(poll.page, 1, k)] : k \in 1 .. Len(poll.page)}
      BY <1>1, <2>3 DEF Durable
    <3>2. PICK k \in 1 .. Len(poll.page) : f = WithLines(store, SubSeq(poll.page, 1, k))
      BY <3>1 DEF WithLines
    <3>3. k \in 0 .. Len(poll.page)
      BY <3>2
    <3> DEFINE p == SubSeq(poll.page, 1, k)
    <3>4. /\ FileOK(WithLines(store, p)) /\ Followed(Fold(TRUE, set, p))
          /\ Told(Replay(WithLines(store, p)), Fold(TRUE, set, p), failures > 0)
      BY <1>2, <3>1, <3>3, PageAppended
    <3> HIDE DEF p
    <3>5. Replay(WithLines(store, p)) = Corrupt \/ Followed(Replay(WithLines(store, p)))
      BY <1>4, <3>4, ToldFollowed
    <3> QED
      BY <3>2, <3>4, <3>5 DEF p
  <2> QED
    BY <2>1, <2>2, <2>3
<1> QED
  BY <1>1, <1>2, <1>5, StartStep

LEMMA MoveAsideStep == ASSUME FollowInv, MoveAside PROVE FollowInv'
<1>1. StartsOver(FreshStore) /\ nodeTip' = nodeTip /\ failures' = failures
  BY DEF MoveAside
<1>2. FileOK(FreshStore) /\ Replay(FreshStore) = EmptySet
  <2>1. Fold(FALSE, EmptySet, <<>>) = EmptySet
    BY FoldEmpty
  <2> QED
    BY <2>1 DEF FreshStore, Replay, Fold, FileOK
<1>3. Followed(EmptySet)
  <2>1. Genesis \in Chain /\ 0 \in 0 .. Height(Genesis)
    BY Heights DEF Chain
  <2> QED
    BY <2>1, EmptyFollows DEF Followed
<1> QED
  BY <1>1, <1>2, <1>3, StartStep

LEMMA FollowInductive == FollowInv /\ StaysAway /\ [FollowNext]_followVars => FollowInv'
<1> SUFFICES ASSUME FollowInv, StaysAway, [FollowNext]_followVars PROVE FollowInv'
  OBVIOUS
<1>1. ASSUME NEW b \in Block, ChainMoves(b) PROVE FollowInv'
  <2>1. b \in Chain /\ nodeTip' = b /\ UNCHANGED <<set, poll, store, up, failures>>
    BY <1>1 DEF ChainMoves, Chain
  <2> QED
    BY <2>1, NodeStep
<1>2. CASE ChainFalls
  <2>1. nodeTip \in Block
    BY <1>2 DEF ChainFalls, FollowInv, Core, Chain
  <2>2. Tree[nodeTip].prev \in Chain /\ nodeTip' = Tree[nodeTip].prev
        /\ UNCHANGED <<set, poll, store, up, failures>>
    BY <1>2, <2>1, Heights DEF ChainFalls
  <2> QED
    BY <2>2, NodeStep
<1>3. CASE PollStep
  BY <1>3, PollTipStep, ReconcileStep, RollBackStep, RebuildStep, ReadHeadersStep,
     ReadNullifiersStep, ExtendStep, CatchUpStep DEF PollStep
<1>4. CASE UNCHANGED followVars
  <2>1. Core'
    BY <1>4, CoreKept DEF FollowInv, followVars
  <2>2. PollOK'
    BY <1>4 DEF FollowInv, followVars, PollOK, LinksOK, PageOK, FollowedTip
  <2>3. SplitOff'
    BY <1>4 DEF FollowInv, followVars, SplitOff, SplitPage
  <2> QED
    BY <2>1, <2>2, <2>3 DEF FollowInv
<1> QED
  BY <1>1, <1>2, <1>3, <1>4, PollFailsStep, GoesStaleStep, FollowCrashStep, MoveAsideStep DEF FollowNext

LEMMA FollowInvImplies == FollowInv => FollowsOneBranch
<1> SUFFICES ASSUME FollowInv, up PROVE
       /\ set.height = Height(FollowedTip)
       /\ set.landed = NullifiersTo(FollowedTip)
       /\ Replay(store) \in {set} \cup (IF failures > 0 THEN {EmptySet, Corrupt} ELSE {})
  BY DEF FollowsOneBranch
<1>1. Core
  BY DEF FollowInv
<1>2. set.height = Height(FollowedTip) /\ set.landed = NullifiersTo(FollowedTip)
  BY <1>1, FollowedShape
<1>3. Told(Replay(store), set, failures > 0)
  BY <1>1 DEF Core, StoreTold
<1> QED
  BY <1>2, <1>3 DEF Told

\* The landed set of the proving service is that of one branch and its file tells the
\* same, for every tree, window, page size and number of reorganizations, failed polls
\* and crashes (nullifier_store.rs, annulet_v3.rs), provided the node does not come back
\* to a branch between the two reads and the last check of one page.
THEOREM FollowedBranch == FollowSpec /\ LeavesForGood => []FollowsOneBranch
<1>1. LeavesForGood => [][StaysAway]_followVars
  <2>1. [SplitPage /\ Last(poll.page).id \notin ToSet(BranchTo[nodeTip])
            => Last(poll.page).id \notin ToSet(BranchTo[nodeTip'])]_followVars => [StaysAway]_followVars
    BY DEF StaysAway
  <2> QED
    BY <2>1, PTL DEF LeavesForGood
<1>2. FollowInv /\ [StaysAway]_followVars /\ [FollowNext]_followVars => FollowInv'
  <2> SUFFICES ASSUME FollowInv, [StaysAway]_followVars, [FollowNext]_followVars PROVE FollowInv'
    OBVIOUS
  <2>1. CASE StaysAway
    BY <2>1, FollowInductive
  <2>2. CASE UNCHANGED followVars
    <3>1. StaysAway
      BY <2>2 DEF StaysAway, followVars
    <3> QED
      BY <3>1, FollowInductive
  <2> QED
    BY <2>1, <2>2
<1> QED
  BY <1>1, <1>2, FollowInitInv, FollowInvImplies, PTL DEF FollowSpec
=============================================================================
