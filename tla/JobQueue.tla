------------------------------ MODULE JobQueue ------------------------------
(***************************************************************************)
(* The durable enrichment queue: admission with a per-account quota, the   *)
(* worker slots that lease, claim and execute jobs, the sweeper and queue  *)
(* maintenance that bury what no worker will finish, the user's selection  *)
(* and the cloud function that submits jobs.                               *)
(*                                                                         *)
(* Every action is one Firestore transaction (or one Redis command): what  *)
(* happens between two awaits of the code.  A deadline is kept as the time *)
(* left until it: "deadline <= Date.now()" is "left = 0".  The time left of *)
(* a deadline that no step reads any more is set to 0.                     *)
(***************************************************************************)
EXTENDS Integers, FiniteSets

CONSTANTS
  Job,          \* job ids
  User,         \* accounts
  UserOf,       \* the account of each job
  Slot,         \* worker slots over all processes, and selection requests
  NoSlot,       \* workerOwner of a job nobody claimed
  NoJob,        \* what an idle slot works on
  QueueTicks,   \* QUEUE_MS: 15 min
  ActiveTicks,  \* ACTIVE_MS: 120 s
  GraceTicks,   \* the 30 s of slack in an admission hold
  LeaseTicks,   \* leaseSeconds of a worker lease: 150 s
  UserLimit,    \* USER_LIMIT: 20
  GlobalSlots,  \* GLOBAL_SLOTS: 4
  Fair,         \* queue policy fair-queue-v1 (per-account lane) or legacy
  PromptClaim   \* assume a claim commits while its lease outlives an attempt

ASSUME ConstantsOK ==
  /\ UserOf \in [Job -> User]
  /\ NoSlot \notin Slot /\ NoJob \notin Job
  /\ QueueTicks \in Nat \ {0} /\ ActiveTicks \in Nat \ {0}
  /\ GraceTicks \in Nat /\ LeaseTicks \in Nat
  /\ UserLimit \in Nat \ {0} /\ GlobalSlots \in Nat \ {0}
  /\ Fair \in BOOLEAN /\ PromptClaim \in BOOLEAN
  /\ IsFiniteSet(Job) /\ IsFiniteSet(Slot)
  /\ LeaseTicks >= ActiveTicks

VARIABLES
  status, queued, owner,  \* enrichmentJobs: status, engineQueued, workerOwner
  wait, left,             \* time left until its queueDeadline, engineDeadline
  hold,                   \* engineAdmission/{uid}.active: time left of each hold
  saved,                  \* whether a pin was committed for the job
  progress,               \* whether its document counts a place as saved (progress.saved > 0)
  report,                 \* outcome of engineMetrics/{jobId}, written once
  pc, work, seen,         \* where each slot's flow is, its job, the verdict it read
  userLease,              \* Redis: time left of the slot's lease on its account's lane
  workLease,              \* Redis: time left of the slot's worker-active lease
  cleanup                 \* jobs failed by a sweep that has yet to release their hold

jobDoc == <<status, queued, owner, wait, left>>
flow   == <<pc, work, seen>>
leases == <<userLease, workLease>>
saves  == <<saved, progress>>
vars   == <<jobDoc, hold, saves, report, flow, leases, cleanup>>

-----------------------------------------------------------------------------
(* State *)

\* "complete" is the code's complete and duplicate, "partial" its failed with
\* the failure code partial_save.
Verdict == {"complete", "partial", "failed", "needs_selection"}
Status  == {"none", "pending", "processing"} \cup Verdict

PC == {"idle", "reserved", "leased", "run", "persist", "report", "release",
       "selecting", "select", "unlease", "crashed"}

\* Fault: the hold is bounded by the wait alone.
HoldWithoutExecution == QueueTicks + GraceTicks

HoldTicks == QueueTicks + ActiveTicks + GraceTicks

\* Every variable stays in its domain: no deadline runs below 0 and no hold
\* outlives the longest wait, attempt and slack.
TypeOK == /\ status \in [Job -> Status] /\ queued \in [Job -> BOOLEAN]
          /\ owner \in [Job -> Slot \cup {NoSlot}]
          /\ wait \in [Job -> 0..QueueTicks] /\ left \in [Job -> 0..ActiveTicks]
          /\ hold \in [Job -> 0..HoldTicks]
          /\ saved \in [Job -> BOOLEAN] /\ progress \in [Job -> BOOLEAN]
          /\ report \in [Job -> Verdict \cup {"none"}]
          /\ pc \in [Slot -> PC] /\ work \in [Slot -> Job \cup {NoJob}]
          /\ seen \in [Slot -> Verdict \cup {"none"}]
          /\ userLease \in [Slot -> 0..LeaseTicks] /\ workLease \in [Slot -> 0..LeaseTicks]
          /\ cleanup \subseteq Job

Init == /\ status = [j \in Job |-> "none"] /\ queued = [j \in Job |-> FALSE]
        /\ owner = [j \in Job |-> NoSlot]
        /\ wait = [j \in Job |-> 0] /\ left = [j \in Job |-> 0]
        /\ hold = [j \in Job |-> 0]
        /\ saved = [j \in Job |-> FALSE] /\ progress = [j \in Job |-> FALSE]
        /\ report = [j \in Job |-> "none"]
        /\ pc = [w \in Slot |-> "idle"] /\ work = [w \in Slot |-> NoJob]
        /\ seen = [w \in Slot |-> "none"]
        /\ userLease = [w \in Slot |-> 0] /\ workLease = [w \in Slot |-> 0]
        /\ cleanup = {}

\* The account's unexpired holds, other than the one j may have.
ActiveHolds(u, j) == {k \in Job \ {j} : UserOf[k] = u /\ hold[k] > 0}

\* outcomeOf: what is reported of a document with status s.  A failure that
\* leaves something saved is partial; so is a complete job whose analysis was
\* incomplete, which is not modelled otherwise.
OutcomeOf(s, p) == IF s = "complete" THEN {"complete", "partial"}
                   ELSE IF s = "failed" /\ p THEN {"partial"} ELSE {s}

\* recordTerminal: the report of a job failed outside an attempt, unless the
\* job already has one.
RecordTerminal(j) ==
  \E o \in OutcomeOf("failed", progress[j]) :
    report' = [report EXCEPT ![j] = IF report[j] = "none" THEN o ELSE report[j]]

\* The job is failed; nobody reads its deadlines again.
Bury(j) == /\ status' = [status EXCEPT ![j] = "failed"]
           /\ queued' = [queued EXCEPT ![j] = FALSE]
           /\ wait' = [wait EXCEPT ![j] = 0]
           /\ left' = [left EXCEPT ![j] = 0]
           /\ UNCHANGED owner

Goto(w, label) == pc' = [pc EXCEPT ![w] = label] /\ UNCHANGED <<work, seen>>

\* The slot ends its flow.
Idle(w) == /\ pc' = [pc EXCEPT ![w] = "idle"]
           /\ work' = [work EXCEPT ![w] = NoJob]
           /\ UNCHANGED seen

-----------------------------------------------------------------------------
(* Submission and admission *)

\* The app creates the pending document that triggers the cloud function.
Submit(j) ==
  /\ status[j] = "none"
  /\ status' = [status EXCEPT ![j] = "pending"]
  /\ UNCHANGED <<queued, owner, wait, left, hold, saves, report, flow, leases, cleanup>>

\* A delivery of POST /enrich, from the phone (with no document yet) or from
\* the cloud function; any later delivery finds the job queued or past pending
\* and changes nothing.
Admissible(j) == status[j] \in {"none", "pending"} /\ ~queued[j]

Admit(j) ==
  /\ Admissible(j)
  /\ Cardinality(ActiveHolds(UserOf[j], j)) < UserLimit
  /\ hold' = [hold EXCEPT ![j] = HoldTicks]
  /\ status' = [status EXCEPT ![j] = "pending"]
  /\ queued' = [queued EXCEPT ![j] = TRUE]
  /\ wait' = [wait EXCEPT ![j] = QueueTicks]
  /\ UNCHANGED <<owner, left, saves, report, flow, leases, cleanup>>

\* Quota full, admission stopped, or a configuration or fleet mismatch.
RejectAdmission(j) ==
  /\ Admissible(j)
  /\ Bury(j)
  /\ RecordTerminal(j)
  /\ UNCHANGED <<hold, saves, flow, leases, cleanup>>

\* The cloud function stops retrying (age cap, malformed document, a 4xx
\* answer).  It may hold an old snapshot, or have lost the 202 answer: the
\* transaction fails only a job that nobody admitted.
FunctionGivesUp(j) ==
  /\ status[j] = "pending" /\ ~queued[j]
  /\ status' = [status EXCEPT ![j] = "failed"]
  /\ UNCHANGED <<queued, owner, wait, left, hold, saves, report, flow, leases, cleanup>>

-----------------------------------------------------------------------------
(* A worker slot: leases, claim, attempt, release *)

\* Fault: the lane is given back when the attempt starts.
LaneFreeOnceRunning(u) ==
  ~\E x \in Slot : userLease[x] > 0 /\ UserOf[work[x]] = u /\ pc[x] \in {"reserved", "leased"}
\* Fault: one worker too many.
WorkSlotFreeOffByOne == Cardinality({x \in Slot : workLease[x] > 0}) <= GlobalSlots

LaneFree(u)  == ~\E x \in Slot : userLease[x] > 0 /\ UserOf[work[x]] = u
WorkSlotFree == Cardinality({x \in Slot : workLease[x] > 0}) < GlobalSlots

\* Discovery hands a queued job of its snapshot to launch(); under the fair
\* policy the account's lane is leased first.
Reserve(w, j) ==
  /\ pc[w] = "idle"
  /\ status[j] = "pending" /\ queued[j] /\ wait[j] > 0
  /\ Fair => LaneFree(UserOf[j])
  /\ pc' = [pc EXCEPT ![w] = "reserved"]
  /\ work' = [work EXCEPT ![w] = j]
  /\ userLease' = [userLease EXCEPT ![w] = IF Fair THEN LeaseTicks ELSE 0]
  /\ UNCHANGED <<jobDoc, hold, saves, report, seen, workLease, cleanup>>

TakeWorkLease(w) ==
  /\ pc[w] = "reserved"
  /\ WorkSlotFree
  /\ workLease' = [workLease EXCEPT ![w] = LeaseTicks]
  /\ Goto(w, "leased")
  /\ UNCHANGED <<jobDoc, hold, saves, report, userLease, cleanup>>

\* Every worker lease is taken (waitMs 0), or Redis failed.
LeaseBusy(w) ==
  /\ pc[w] = "reserved"
  /\ userLease' = [userLease EXCEPT ![w] = 0]
  /\ Idle(w)
  /\ UNCHANGED <<jobDoc, hold, saves, report, workLease, cleanup>>

\* The claim transaction re-reads the document the discovery saw.
Claimable(j) == status[j] = "pending" /\ queued[j]

\* Fault: the claim trusts what the discovery saw.
ClaimUnchecked(w) == LET j == work[w] IN
  /\ pc[w] = "leased"
  /\ status' = [status EXCEPT ![j] = "processing"]
  /\ queued' = [queued EXCEPT ![j] = FALSE]
  /\ owner' = [owner EXCEPT ![j] = w]
  /\ wait' = [wait EXCEPT ![j] = 0]
  /\ left' = [left EXCEPT ![j] = ActiveTicks]
  /\ Goto(w, "run")
  /\ UNCHANGED <<hold, saves, report, leases, cleanup>>

Claim(w) == LET j == work[w] IN
  /\ pc[w] = "leased"
  /\ Claimable(j) /\ wait[j] > 0
  /\ status' = [status EXCEPT ![j] = "processing"]
  /\ queued' = [queued EXCEPT ![j] = FALSE]
  /\ owner' = [owner EXCEPT ![j] = w]
  /\ wait' = [wait EXCEPT ![j] = 0]
  /\ left' = [left EXCEPT ![j] = ActiveTicks]
  /\ Goto(w, "run")
  /\ UNCHANGED <<hold, saves, report, leases, cleanup>>

\* The queue deadline passed while the slot took its leases, or the recorded
\* execution configuration is not usable: the claim buries the job.
ClaimTerminal(w) == LET j == work[w] IN
  /\ pc[w] = "leased"
  /\ Claimable(j)
  /\ Bury(j)
  /\ RecordTerminal(j)
  /\ Goto(w, "release")
  /\ UNCHANGED <<hold, saves, leases, cleanup>>

\* Another claimer won, the fleet fence refused, or the transaction failed.
ClaimNothing(w) ==
  /\ pc[w] = "leased"
  /\ Goto(w, "unlease")
  /\ UNCHANGED <<jobDoc, hold, saves, report, leases, cleanup>>

\* assertActive inside a transaction: the attempt still owns the job...
Owns(w) == status[work[w]] = "processing" /\ owner[work[w]] = w
\* ...and its own deadline has not passed.
AssertActive(w) == Owns(w) /\ left[work[w]] > 0

\* writePinTransactional or appendSourceToExistingPin commits.
SavePin(w) ==
  /\ pc[w] \in {"run", "select"}
  /\ AssertActive(w)
  /\ saved' = [saved EXCEPT ![work[w]] = TRUE]
  /\ UNCHANGED <<jobDoc, hold, progress, report, flow, leases, cleanup>>

\* A retry writes the outcomes it inherits into its document before it
\* analyses anything: it may be the retry of a share that saved some places.
Checkpoint(w) ==
  /\ pc[w] = "run"
  /\ AssertActive(w)
  /\ progress' = [progress EXCEPT ![work[w]] = TRUE]
  /\ UNCHANGED <<jobDoc, hold, saved, report, flow, leases, cleanup>>

\* updateJob with a verdict: only a failure may be written past the deadline
\* (a partial save is one: withOutcomeSummary makes it failed first).  p tells
\* whether the outcomes count a place as saved: pinned by this attempt, found
\* pinned, or inherited from the job this one retries; one that was saved may
\* also fail afterwards and not be counted.
Settle(w, s, p) == LET j == work[w] IN
  /\ pc[w] \in {"run", "select"}
  /\ Owns(w)
  /\ s \in {"complete", "needs_selection"} => AssertActive(w)
  /\ s = "needs_selection" => pc[w] = "run"
  /\ s = "partial" => p
  /\ status' = [status EXCEPT ![j] = s]
  /\ progress' = [progress EXCEPT ![j] = p]
  /\ left' = [left EXCEPT ![j] = 0]
  /\ Goto(w, IF pc[w] = "run" THEN "persist" ELSE "unlease")
  /\ UNCHANGED <<queued, owner, wait, hold, saves, report, leases, cleanup>>

\* An exception escaped runEnrichment: failAttempt buries the owned job.
FailAttempt(w) ==
  /\ pc[w] = "run"
  /\ Owns(w)
  /\ Bury(work[w])
  /\ RecordTerminal(work[w])
  /\ Goto(w, "release")
  /\ UNCHANGED <<hold, saves, leases, cleanup>>

\* The attempt was stopped, or could not even write its failure.
Abandon(w) ==
  /\ pc[w] \in {"run", "select"}
  /\ Goto(w, IF pc[w] = "run" THEN "persist" ELSE "unlease")
  /\ UNCHANGED <<jobDoc, hold, saves, report, leases, cleanup>>

\* persist: read the final state, then write the attempt's report in a
\* transaction that checks the owner and that there is no report yet.
PersistRead(w) == LET j == work[w] IN
  /\ pc[w] = "persist"
  /\ IF status[j] \in Verdict
     THEN /\ pc' = [pc EXCEPT ![w] = "report"]
          /\ \E o \in OutcomeOf(status[j], progress[j]) : seen' = [seen EXCEPT ![w] = o]
          /\ UNCHANGED work
     ELSE Goto(w, "release")
  /\ UNCHANGED <<jobDoc, hold, saves, report, leases, cleanup>>

PersistWrite(w) == LET j == work[w] IN
  /\ pc[w] = "report"
  /\ report' = IF report[j] = "none" /\ owner[j] = w
               THEN [report EXCEPT ![j] = seen[w]] ELSE report
  /\ pc' = [pc EXCEPT ![w] = "release"]
  /\ seen' = [seen EXCEPT ![w] = "none"]
  /\ UNCHANGED <<jobDoc, hold, saves, work, leases, cleanup>>

\* A failed report is only a warning.
PersistFails(w) ==
  /\ pc[w] \in {"persist", "report"}
  /\ pc' = [pc EXCEPT ![w] = "release"]
  /\ seen' = [seen EXCEPT ![w] = "none"]
  /\ UNCHANGED <<jobDoc, hold, saves, report, work, leases, cleanup>>

\* releaseAdmission in the finally of the attempt.
Release(w) ==
  /\ pc[w] = "release"
  /\ hold' = [hold EXCEPT ![work[w]] = 0]
  /\ Goto(w, "unlease")
  /\ UNCHANGED <<jobDoc, saves, report, leases, cleanup>>

\* The compare-and-delete of withLease, global then account.
Unlease(w) ==
  /\ pc[w] = "unlease"
  /\ workLease' = [workLease EXCEPT ![w] = 0]
  /\ userLease' = [userLease EXCEPT ![w] = 0]
  /\ Idle(w)
  /\ UNCHANGED <<jobDoc, hold, saves, report, cleanup>>

\* The process dies: what it held stays in Redis and Firestore until it
\* expires.  The slot's name is used again once its leases are gone.
Crash(w) ==
  /\ pc[w] \notin {"idle", "crashed"}
  /\ pc' = [pc EXCEPT ![w] = "crashed"]
  /\ seen' = [seen EXCEPT ![w] = "none"]
  /\ UNCHANGED <<jobDoc, hold, saves, report, work, leases, cleanup>>

Restart(w) ==
  /\ pc[w] = "crashed" /\ userLease[w] = 0 /\ workLease[w] = 0
  /\ Idle(w)
  /\ UNCHANGED <<jobDoc, hold, saves, report, leases, cleanup>>

-----------------------------------------------------------------------------
(* The user's selection and review *)

BeginSelection(w, j) ==
  /\ pc[w] = "idle"
  /\ status[j] \in Verdict
  /\ WorkSlotFree
  /\ workLease' = [workLease EXCEPT ![w] = LeaseTicks]
  /\ pc' = [pc EXCEPT ![w] = "selecting"]
  /\ work' = [work EXCEPT ![w] = j]
  /\ UNCHANGED <<jobDoc, hold, saves, report, seen, userLease, cleanup>>

\* Only one of several requests finds the job waiting for a selection; the
\* others answer with what the job says now.
ClaimSelection(w) == LET j == work[w] IN
  /\ pc[w] = "selecting"
  /\ IF status[j] = "needs_selection"
     THEN /\ status' = [status EXCEPT ![j] = "processing"]
          /\ owner' = [owner EXCEPT ![j] = w]
          /\ left' = [left EXCEPT ![j] = ActiveTicks]
          /\ Goto(w, "select")
     ELSE Goto(w, "unlease") /\ UNCHANGED <<status, owner, left>>
  /\ UNCHANGED <<queued, wait, hold, saves, report, leases, cleanup>>

\* reviewDetections: the user resolves what a partial save left open.
Review(j) ==
  /\ status[j] = "partial"
  /\ status' = [status EXCEPT ![j] = "complete"]
  /\ UNCHANGED <<queued, owner, wait, left, hold, saves, report, flow, leases, cleanup>>

-----------------------------------------------------------------------------
(* The sweeper and queue maintenance *)

\* Fault: the sweeper trusts its query and does not read the status again.
SweepSnapshot(j) ==
  /\ status[j] \in {"processing", "complete"} /\ left[j] = 0
  /\ status' = [status EXCEPT ![j] = "failed"]
  /\ RecordTerminal(j)
  /\ cleanup' = cleanup \cup {j}
  /\ UNCHANGED <<queued, owner, wait, left, hold, saves, flow, leases>>

\* A processing job past its execution deadline.  updatedAt is no older than
\* the claim, so the 2 min heartbeat test never fires before this one.
SweepExecution(j) ==
  /\ status[j] = "processing" /\ left[j] = 0
  /\ status' = [status EXCEPT ![j] = "failed"]
  /\ RecordTerminal(j)
  /\ cleanup' = cleanup \cup {j}
  /\ UNCHANGED <<queued, owner, wait, left, hold, saves, flow, leases>>

\* Fault: only the discovery scan of an idle worker expires queued jobs.
ExpireInDiscovery(j) ==
  /\ status[j] = "pending" /\ queued[j] /\ wait[j] = 0
  /\ \E w \in Slot : pc[w] = "idle"
  /\ Bury(j)
  /\ RecordTerminal(j)
  /\ cleanup' = cleanup \cup {j}
  /\ UNCHANGED <<hold, saves, flow, leases>>

\* A queued job past its queue deadline: maintenance, or the discovery scan.
ExpireQueued(j) ==
  /\ status[j] = "pending" /\ queued[j] /\ wait[j] = 0
  /\ Bury(j)
  /\ RecordTerminal(j)
  /\ cleanup' = cleanup \cup {j}
  /\ UNCHANGED <<hold, saves, flow, leases>>

ReleaseSwept(j) ==
  /\ j \in cleanup
  /\ hold' = [hold EXCEPT ![j] = 0]
  /\ cleanup' = cleanup \ {j}
  /\ UNCHANGED <<jobDoc, saves, report, flow, leases>>

\* The sweeping process dies before it releases the admission.
SweeperCrash(j) ==
  /\ j \in cleanup
  /\ cleanup' = cleanup \ {j}
  /\ UNCHANGED <<jobDoc, hold, saves, report, flow, leases>>

-----------------------------------------------------------------------------
(* Time *)

Less(n) == IF n > 0 THEN n - 1 ELSE 0

\* With PromptClaim a slot that was granted a lease claims, or gives up, while
\* the lease still covers a whole attempt.
ClaimInTime == PromptClaim =>
  \A w \in Slot :
    /\ Fair /\ pc[w] \in {"reserved", "leased"} => userLease[w] > ActiveTicks
    /\ pc[w] \in {"leased", "selecting"} => workLease[w] > ActiveTicks

Tick ==
  /\ ClaimInTime
  /\ wait' = [j \in Job |-> Less(wait[j])]
  /\ left' = [j \in Job |-> Less(left[j])]
  /\ hold' = [j \in Job |-> Less(hold[j])]
  /\ userLease' = [w \in Slot |-> Less(userLease[w])]
  /\ workLease' = [w \in Slot |-> Less(workLease[w])]
  /\ UNCHANGED <<status, queued, owner, saves, report, flow, cleanup>>

JobStep(j) == \/ Submit(j) \/ Admit(j) \/ RejectAdmission(j) \/ FunctionGivesUp(j)
              \/ Review(j) \/ SweepExecution(j) \/ ExpireQueued(j)
              \/ ReleaseSwept(j) \/ SweeperCrash(j)

SlotStep(w) == \/ \E j \in Job : Reserve(w, j) \/ BeginSelection(w, j)
               \/ TakeWorkLease(w) \/ LeaseBusy(w)
               \/ Claim(w) \/ ClaimTerminal(w) \/ ClaimNothing(w)
               \/ SavePin(w) \/ Checkpoint(w) \/ (\E s \in Verdict, p \in BOOLEAN : Settle(w, s, p))
               \/ FailAttempt(w) \/ Abandon(w)
               \/ PersistRead(w) \/ PersistWrite(w) \/ PersistFails(w)
               \/ Release(w) \/ Unlease(w) \/ Crash(w) \/ Restart(w)
               \/ ClaimSelection(w)

Next == \/ \E j \in Job : JobStep(j)
        \/ \E w \in Slot : SlotStep(w)
        \/ Tick

Safety == Init /\ [][Next]_vars

\* Clocks advance; some process keeps sweeping every 15 s; the cloud function
\* is retried until its age cap.  No worker has to make any progress.
Fairness == /\ WF_vars(Tick)
            /\ \A j \in Job : /\ WF_vars(SweepExecution(j))
                              /\ WF_vars(ExpireQueued(j))
                              /\ WF_vars(FunctionGivesUp(j))

Spec == Safety /\ Fairness

-----------------------------------------------------------------------------
(* Properties *)

\* A slot on a queued attempt, or on any attempt, that may still commit.
Live(w) == pc[w] = "run" /\ AssertActive(w)
Running(w) == pc[w] \in {"run", "select"} /\ AssertActive(w)
Waiting(j) == status[j] = "pending" /\ queued[j] /\ wait[j] > 0
Outstanding(j) == Waiting(j) \/ \E w \in Slot : Live(w) /\ work[w] = j

\* An account never has more than USER_LIMIT jobs waiting or being worked on,
\* whoever releases, sweeps, crashes or redelivers, and although a hold also
\* expires by itself.
OutstandingWithinLimit ==
  \A u \in User : Cardinality({j \in Job : UserOf[j] = u /\ Outstanding(j)}) <= UserLimit

\* Two workers, or two selection requests, never execute the same job at once.
OneRunner ==
  \A w, x \in Slot : /\ {pc[w], pc[x]} \subseteq {"run", "select"}
                     /\ work[w] = work[x]
                     => w = x

\* What outcome o still says of job j after sweeps, selections and reviews.
Describes(o, j) ==
  /\ o = "complete" => status[j] = "complete"
  /\ o = "failed" => status[j] = "failed" /\ ~progress[j]
  /\ o = "partial" => \/ status[j] = "complete"
                      \/ status[j] \in {"failed", "partial"} /\ progress[j]

\* The private report never contradicts what the job ends with: one reported
\* complete stays complete, one reported failed has failed and counts no saved
\* place, and one reported partial is complete or failed with something saved,
\* whoever settles, sweeps or reads in between.
ReportMatchesVerdict == \A j \in Job : Describes(report[j], j)

\* Under the fair policy one account has at most one attempt that may commit.
OneAttemptPerAccount ==
  Fair => \A w, x \in Slot : /\ Live(w) /\ Live(x)
                             /\ UserOf[work[w]] = UserOf[work[x]]
                             => w = x

\* All processes together execute at most GLOBAL_SLOTS attempts that may still
\* commit, although a lease ends by itself and a crash leaves it behind.
AttemptsWithinSlots == Cardinality({w \in Slot : Running(w)}) <= GlobalSlots

\* The queue implements the promised lifecycle of a job.
Lifecycle == INSTANCE JobLifecycle WITH Job <- Job, status <- status, saved <- saved,
                                   progress <- progress
LifecycleSafety == Lifecycle!Safety
LifecycleSpec == Lifecycle!Spec
=============================================================================
