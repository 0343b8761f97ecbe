-------------------------- MODULE JobQueue_proofs --------------------------
(***************************************************************************)
(* Proofs about JobQueue, for any jobs, accounts, slots and limits.        *)
(***************************************************************************)
EXTENDS JobQueue, FiniteSetTheorems, TLAPS

-----------------------------------------------------------------------------
(* Types *)

\* A slot that is not idle works on a job.
SlotBusy == \A w \in Slot : pc[w] # "idle" => work[w] \in Job

Typed == TypeOK /\ SlotBusy

LEMMA TypedInit == Init => Typed
  BY ConstantsOK DEF Init, Typed, TypeOK, SlotBusy, Status, Verdict, PC, HoldTicks

\* Every step keeps the types: no deadline leaves its range and no slot forgets
\* its job.
LEMMA TypedStep == Typed /\ [Next]_vars => Typed'
<1> SUFFICES ASSUME Typed, [Next]_vars PROVE Typed'
  OBVIOUS
<1> USE ConstantsOK DEF Typed, TypeOK, SlotBusy, saves, OutcomeOf
<1>1. ASSUME NEW j \in Job, JobStep(j) PROVE Typed'
  <2>1. CASE Submit(j)
    BY <2>1 DEF Submit, Status, flow, leases
  <2>2. CASE Admit(j)
    BY <2>2 DEF Admit, Status, HoldTicks, flow, leases
  <2>3. CASE RejectAdmission(j)
    BY <2>3 DEF RejectAdmission, Bury, RecordTerminal, Status, Verdict, flow, leases
  <2>4. CASE FunctionGivesUp(j)
    BY <2>4 DEF FunctionGivesUp, Status, Verdict, flow, leases
  <2>5. CASE Review(j)
    BY <2>5 DEF Review, Status, Verdict, flow, leases
  <2>6. CASE SweepExecution(j)
    BY <2>6 DEF SweepExecution, RecordTerminal, Status, Verdict, flow, leases
  <2>7. CASE ExpireQueued(j)
    BY <2>7 DEF ExpireQueued, Bury, RecordTerminal, Status, Verdict, flow, leases
  <2>8. CASE ReleaseSwept(j)
    BY <2>8 DEF ReleaseSwept, HoldTicks, jobDoc, flow, leases
  <2>9. CASE SweeperCrash(j)
    BY <2>9 DEF SweeperCrash, jobDoc, flow, leases
  <2> QED BY <1>1, <2>1, <2>2, <2>3, <2>4, <2>5, <2>6, <2>7, <2>8, <2>9 DEF JobStep
<1>2. ASSUME NEW w \in Slot, SlotStep(w) PROVE Typed'
  <2>1. CASE \E j \in Job : Reserve(w, j)
    BY <2>1 DEF Reserve, PC, jobDoc
  <2>2. CASE \E j \in Job : BeginSelection(w, j)
    BY <2>2 DEF BeginSelection, PC, jobDoc
  <2>3. CASE TakeWorkLease(w)
    BY <2>3 DEF TakeWorkLease, Goto, PC, jobDoc
  <2>4. CASE LeaseBusy(w)
    BY <2>4 DEF LeaseBusy, Idle, PC, jobDoc
  <2>5. CASE Claim(w)
    BY <2>5 DEF Claim, Goto, PC, Status, leases
  <2>6. CASE ClaimTerminal(w)
    BY <2>6 DEF ClaimTerminal, Goto, Bury, RecordTerminal, PC, Status, Verdict, leases
  <2>7. CASE ClaimNothing(w)
    BY <2>7 DEF ClaimNothing, Goto, PC, jobDoc, leases
  <2>8. CASE SavePin(w)
    BY <2>8 DEF SavePin, jobDoc, flow, leases
  <2>9. CASE \E s \in Verdict, p \in BOOLEAN : Settle(w, s, p)
    BY <2>9 DEF Settle, Goto, PC, Status, leases
  <2>10. CASE FailAttempt(w)
    BY <2>10 DEF FailAttempt, Goto, Bury, RecordTerminal, PC, Status, Verdict, leases
  <2>11. CASE Abandon(w)
    BY <2>11 DEF Abandon, Goto, PC, jobDoc, leases
  <2>12. CASE PersistRead(w)
    BY <2>12 DEF PersistRead, Goto, PC, Verdict, jobDoc, leases
  <2>13. CASE PersistWrite(w)
    BY <2>13 DEF PersistWrite, PC, jobDoc, leases
  <2>14. CASE PersistFails(w)
    BY <2>14 DEF PersistFails, PC, jobDoc, leases
  <2>15. CASE Release(w)
    BY <2>15 DEF Release, Goto, PC, HoldTicks, jobDoc, leases
  <2>16. CASE Unlease(w)
    BY <2>16 DEF Unlease, Idle, PC, jobDoc
  <2>17. CASE Crash(w)
    BY <2>17 DEF Crash, PC, jobDoc, leases
  <2>18. CASE Restart(w)
    BY <2>18 DEF Restart, Idle, PC, jobDoc, leases
  <2>19. CASE ClaimSelection(w)
    BY <2>19 DEF ClaimSelection, Goto, PC, Status, leases
  <2>20. CASE Checkpoint(w)
    BY <2>20 DEF Checkpoint, AssertActive, Owns, jobDoc, flow, leases
  <2> QED BY <1>2, <2>1, <2>2, <2>3, <2>4, <2>5, <2>6, <2>7, <2>8, <2>9, <2>10,
             <2>11, <2>12, <2>13, <2>14, <2>15, <2>16, <2>17, <2>18, <2>19, <2>20
             DEF SlotStep
<1>3. CASE Tick
  BY <1>3 DEF Tick, Less, HoldTicks, flow
<1>4. CASE UNCHANGED vars
  BY <1>4 DEF vars, jobDoc, flow, leases
<1> QED BY <1>1, <1>2, <1>3, <1>4 DEF Next

\* TypeOK holds of every state the queue reaches.
THEOREM TypeCorrect == Safety => []TypeOK
<1>1. Typed => TypeOK
  BY DEF Typed
<1> QED BY <1>1, TypedInit, TypedStep, PTL DEF Safety

-----------------------------------------------------------------------------
(* Who works on a job *)

Attempting == {"run", "persist", "report", "release"}

\* A job is claimed from the queue once; the slot that did so is alone with it
\* until it has released the admission.
Ownership ==
  /\ \A w \in Slot : pc[w] \in {"run", "select"} =>
       owner[work[w]] = w /\ status[work[w]] \in {"processing", "failed"}
  /\ \A w \in Slot : pc[w] \in Attempting => status[work[w]] \notin {"none", "pending"}
  /\ \A w, x \in Slot : /\ {pc[w], pc[x]} \subseteq Attempting
                        /\ work[w] = work[x]
                        => w = x
  /\ \A j \in cleanup : status[j] = "failed"
  /\ \A j \in Job : queued[j] => status[j] = "pending"

\* No step gives a job a second worker or revives a failed one.
LEMMA OwnershipStep == Typed /\ Ownership /\ [Next]_vars => Ownership'
<1> SUFFICES ASSUME Typed, Ownership, [Next]_vars PROVE Ownership'
  OBVIOUS
<1> USE DEF Typed, TypeOK, SlotBusy, saves, Ownership, Attempting
<1>1. ASSUME NEW j \in Job, JobStep(j) PROVE Ownership'
  <2>1. CASE Submit(j)
    BY <2>1 DEF Submit, flow, leases
  <2>2. CASE Admit(j)
    BY <2>2 DEF Admit, Admissible, flow, leases
  <2>3. CASE RejectAdmission(j)
    BY <2>3 DEF RejectAdmission, Admissible, Bury, RecordTerminal, flow, leases
  <2>4. CASE FunctionGivesUp(j)
    BY <2>4 DEF FunctionGivesUp, flow, leases
  <2>5. CASE Review(j)
    BY <2>5 DEF Review, flow, leases
  <2>6. CASE SweepExecution(j)
    BY <2>6 DEF SweepExecution, RecordTerminal, flow, leases
  <2>7. CASE ExpireQueued(j)
    BY <2>7 DEF ExpireQueued, Bury, RecordTerminal, flow, leases
  <2>8. CASE ReleaseSwept(j)
    BY <2>8 DEF ReleaseSwept, jobDoc, flow, leases
  <2>9. CASE SweeperCrash(j)
    BY <2>9 DEF SweeperCrash, jobDoc, flow, leases
  <2> QED BY <1>1, <2>1, <2>2, <2>3, <2>4, <2>5, <2>6, <2>7, <2>8, <2>9 DEF JobStep
<1>2. ASSUME NEW w \in Slot, SlotStep(w) PROVE Ownership'
  <2>1. CASE \E j \in Job : Reserve(w, j)
    BY <2>1 DEF Reserve, jobDoc
  <2>2. CASE \E j \in Job : BeginSelection(w, j)
    BY <2>2 DEF BeginSelection, jobDoc
  <2>3. CASE TakeWorkLease(w)
    BY <2>3 DEF TakeWorkLease, Goto, jobDoc
  <2>4. CASE LeaseBusy(w)
    BY <2>4 DEF LeaseBusy, Idle, jobDoc
  <2>5. CASE Claim(w)
    BY <2>5 DEF Claim, Claimable, Goto, leases
  <2>6. CASE ClaimTerminal(w)
    BY <2>6 DEF ClaimTerminal, Claimable, Goto, Bury, RecordTerminal, leases
  <2>7. CASE ClaimNothing(w)
    BY <2>7 DEF ClaimNothing, Goto, jobDoc, leases
  <2>8. CASE SavePin(w)
    BY <2>8 DEF SavePin, AssertActive, Owns, jobDoc, flow, leases
  <2>9. CASE \E s \in Verdict, p \in BOOLEAN : Settle(w, s, p)
    BY <2>9 DEF Settle, Goto, AssertActive, Owns, leases, Verdict
  <2>10. CASE FailAttempt(w)
    BY <2>10 DEF FailAttempt, Goto, Bury, RecordTerminal, Owns, leases
  <2>11. CASE Abandon(w)
    BY <2>11 DEF Abandon, Goto, jobDoc, leases
  <2>12. CASE PersistRead(w)
    BY <2>12 DEF PersistRead, Goto, jobDoc, leases
  <2>13. CASE PersistWrite(w)
    BY <2>13 DEF PersistWrite, jobDoc, leases
  <2>14. CASE PersistFails(w)
    BY <2>14 DEF PersistFails, jobDoc, leases
  <2>15. CASE Release(w)
    BY <2>15 DEF Release, Goto, jobDoc, leases
  <2>16. CASE Unlease(w)
    BY <2>16 DEF Unlease, Idle, jobDoc
  <2>17. CASE Crash(w)
    BY <2>17 DEF Crash, jobDoc, leases
  <2>18. CASE Restart(w)
    BY <2>18 DEF Restart, Idle, jobDoc, leases
  <2>19. CASE ClaimSelection(w)
    BY <2>19 DEF ClaimSelection, Goto, leases
  <2>20. CASE Checkpoint(w)
    BY <2>20 DEF Checkpoint, AssertActive, Owns, jobDoc, flow, leases
  <2> QED BY <1>2, <2>1, <2>2, <2>3, <2>4, <2>5, <2>6, <2>7, <2>8, <2>9, <2>10,
             <2>11, <2>12, <2>13, <2>14, <2>15, <2>16, <2>17, <2>18, <2>19, <2>20
             DEF SlotStep
<1>3. CASE Tick
  BY <1>3 DEF Tick, flow
<1>4. CASE UNCHANGED vars
  BY <1>4 DEF vars, jobDoc, flow, leases
<1> QED BY <1>1, <1>2, <1>3, <1>4 DEF Next

LEMMA OwnershipInv == Safety => [](Typed /\ Ownership)
<1>1. Init => Ownership
  BY DEF Init, Ownership, Attempting
<1> QED BY <1>1, TypedInit, TypedStep, OwnershipStep, PTL DEF Safety

\* No job is ever executed by two slots at once.
THEOREM OneRunnerHolds == Safety => []OneRunner
<1>1. Ownership => OneRunner
  BY DEF Ownership, OneRunner
<1> QED BY <1>1, OwnershipInv, PTL

-----------------------------------------------------------------------------
(* The quota of an account *)

Holding(u) == {j \in Job : UserOf[j] = u /\ hold[j] > 0}

\* A hold outlives the wait and the attempt it was taken for...
HoldCovers ==
  /\ \A j \in Job : Waiting(j) => hold[j] >= wait[j] + ActiveTicks
  /\ \A w \in Slot : Live(w) => hold[work[w]] >= left[work[w]]
\* ...and an account has no more holds than the limit.
HoldsWithinLimit == \A u \in User : Cardinality(Holding(u)) <= UserLimit

\* Every release, expiry and sweep spares the holds of waiting and live jobs.
LEMMA HoldCoversStep == Typed /\ Ownership /\ HoldCovers /\ [Next]_vars => HoldCovers'
<1> SUFFICES ASSUME Typed, Ownership, HoldCovers, [Next]_vars PROVE HoldCovers'
  OBVIOUS
<1> USE ConstantsOK DEF Typed, TypeOK, SlotBusy, saves, Ownership, Attempting, HoldCovers, Waiting,
    Live, AssertActive, Owns
<1>1. ASSUME NEW j \in Job, JobStep(j) PROVE HoldCovers'
  <2>1. CASE Submit(j)
    BY <2>1 DEF Submit, flow, leases
  <2>2. CASE Admit(j)
    BY <2>2 DEF Admit, Admissible, flow, leases, HoldTicks
  <2>3. CASE RejectAdmission(j)
    BY <2>3 DEF RejectAdmission, Admissible, Bury, RecordTerminal, flow, leases
  <2>4. CASE FunctionGivesUp(j)
    BY <2>4 DEF FunctionGivesUp, flow, leases
  <2>5. CASE Review(j)
    BY <2>5 DEF Review, flow, leases
  <2>6. CASE SweepExecution(j)
    BY <2>6 DEF SweepExecution, RecordTerminal, flow, leases
  <2>7. CASE ExpireQueued(j)
    BY <2>7 DEF ExpireQueued, Bury, RecordTerminal, flow, leases
  <2>8. CASE ReleaseSwept(j)
    BY <2>8 DEF ReleaseSwept, jobDoc, flow, leases
  <2>9. CASE SweeperCrash(j)
    BY <2>9 DEF SweeperCrash, jobDoc, flow, leases
  <2> QED BY <1>1, <2>1, <2>2, <2>3, <2>4, <2>5, <2>6, <2>7, <2>8, <2>9 DEF JobStep
<1>2. ASSUME NEW w \in Slot, SlotStep(w) PROVE HoldCovers'
  <2>1. CASE \E j \in Job : Reserve(w, j)
    BY <2>1 DEF Reserve, jobDoc
  <2>2. CASE \E j \in Job : BeginSelection(w, j)
    BY <2>2 DEF BeginSelection, jobDoc
  <2>3. CASE TakeWorkLease(w)
    BY <2>3 DEF TakeWorkLease, Goto, jobDoc
  <2>4. CASE LeaseBusy(w)
    BY <2>4 DEF LeaseBusy, Idle, jobDoc
  <2>5. CASE Claim(w)
    BY <2>5 DEF Claim, Claimable, Goto, leases
  <2>6. CASE ClaimTerminal(w)
    BY <2>6 DEF ClaimTerminal, Claimable, Goto, Bury, RecordTerminal, leases
  <2>7. CASE ClaimNothing(w)
    BY <2>7 DEF ClaimNothing, Goto, jobDoc, leases
  <2>8. CASE SavePin(w)
    BY <2>8 DEF SavePin, AssertActive, Owns, jobDoc, flow, leases
  <2>9. CASE \E s \in Verdict, p \in BOOLEAN : Settle(w, s, p)
    BY <2>9 DEF Settle, Goto, AssertActive, Owns, leases, Verdict
  <2>10. CASE FailAttempt(w)
    BY <2>10 DEF FailAttempt, Goto, Bury, RecordTerminal, Owns, leases
  <2>11. CASE Abandon(w)
    BY <2>11 DEF Abandon, Goto, jobDoc, leases
  <2>12. CASE PersistRead(w)
    BY <2>12 DEF PersistRead, Goto, jobDoc, leases
  <2>13. CASE PersistWrite(w)
    BY <2>13 DEF PersistWrite, jobDoc, leases
  <2>14. CASE PersistFails(w)
    BY <2>14 DEF PersistFails, jobDoc, leases
  <2>15. CASE Release(w)
    BY <2>15 DEF Release, Goto, jobDoc, leases
  <2>16. CASE Unlease(w)
    BY <2>16 DEF Unlease, Idle, jobDoc
  <2>17. CASE Crash(w)
    BY <2>17 DEF Crash, jobDoc, leases
  <2>18. CASE Restart(w)
    BY <2>18 DEF Restart, Idle, jobDoc, leases
  <2>19. CASE ClaimSelection(w)
    BY <2>19 DEF ClaimSelection, Goto, leases
  <2>20. CASE Checkpoint(w)
    BY <2>20 DEF Checkpoint, AssertActive, Owns, jobDoc, flow, leases
  <2> QED BY <1>2, <2>1, <2>2, <2>3, <2>4, <2>5, <2>6, <2>7, <2>8, <2>9, <2>10,
             <2>11, <2>12, <2>13, <2>14, <2>15, <2>16, <2>17, <2>18, <2>19, <2>20
             DEF SlotStep
<1>3. CASE Tick
  BY <1>3 DEF Tick, flow, Less
<1>4. CASE UNCHANGED vars
  BY <1>4 DEF vars, jobDoc, flow, leases
<1> QED BY <1>1, <1>2, <1>3, <1>4 DEF Next

\* Fewer holds stay within the limit.
LEMMA FewerHolds ==
  ASSUME Typed, HoldsWithinLimit, NEW u \in User,
         \A j \in Holding(u)' : j \in Holding(u)
  PROVE  Cardinality(Holding(u)') <= UserLimit
<1>1. IsFiniteSet(Holding(u))
  BY ConstantsOK, FS_Subset, Holding(u) \subseteq Job DEF Holding
<1>2. Holding(u)' \subseteq Holding(u)
  OBVIOUS
<1>3. /\ IsFiniteSet(Holding(u)')
      /\ Cardinality(Holding(u)') <= Cardinality(Holding(u))
  BY <1>1, <1>2, FS_Subset
<1>4. Cardinality(Holding(u)) \in Nat /\ Cardinality(Holding(u)') \in Nat
  BY <1>1, <1>3, FS_CardinalityType
<1> QED BY <1>3, <1>4, ConstantsOK DEF HoldsWithinLimit

\* Only an admission adds a hold, and it counts the others first.
LEMMA HoldsWithinLimitStep == Typed /\ HoldsWithinLimit /\ [Next]_vars => HoldsWithinLimit'
<1> SUFFICES ASSUME Typed, HoldsWithinLimit, [Next]_vars, NEW u \in User
             PROVE  Cardinality(Holding(u)') <= UserLimit
  BY DEF HoldsWithinLimit
<1>1. CASE \E j \in Job : Admit(j)
  <2>1. PICK j \in Job : Admit(j)
    BY <1>1
  <2>2. CASE UserOf[j] = u
    <3> DEFINE Others == ActiveHolds(u, j)
    <3>1. Others \subseteq Job /\ j \notin Others
      BY DEF ActiveHolds
    <3>2. IsFiniteSet(Others) /\ Cardinality(Others) \in Nat
      BY <3>1, ConstantsOK, FS_Subset, FS_CardinalityType
    <3>3. Cardinality(Others) < UserLimit
      BY <2>1, <2>2 DEF Admit
    <3>4. Holding(u)' = Others \cup {j}
      BY <2>1, <2>2, ConstantsOK DEF Admit, Holding, ActiveHolds, Typed, TypeOK, HoldTicks
    <3>5. Cardinality(Holding(u)') = Cardinality(Others) + 1
      BY <3>1, <3>2, <3>4, FS_AddElement
    <3> QED BY <3>2, <3>3, <3>5, ConstantsOK
  <2>3. CASE UserOf[j] # u
    <3>1. \A k \in Holding(u)' : k \in Holding(u)
      BY <2>1, <2>3 DEF Admit, Holding, Typed, TypeOK
    <3> QED BY <3>1, FewerHolds
  <2> QED BY <2>2, <2>3
<1>2. CASE ~\E j \in Job : Admit(j)
  <2>1. \A k \in Job : hold'[k] > 0 => hold[k] > 0
    <3> USE DEF Typed, TypeOK, saves
    <3>1. ASSUME NEW j \in Job, JobStep(j) PROVE hold' = hold \/ ReleaseSwept(j)
      BY <3>1, <1>2 DEF JobStep, Submit, RejectAdmission, FunctionGivesUp, Review,
         SweepExecution, ExpireQueued, SweeperCrash
    <3>2. ASSUME NEW w \in Slot, SlotStep(w) PROVE hold' = hold \/ Release(w)
      BY <3>2 DEF SlotStep, Checkpoint, Reserve, BeginSelection, TakeWorkLease, LeaseBusy, Claim,
         ClaimTerminal, ClaimNothing, SavePin, Settle, FailAttempt, Abandon, PersistRead,
         PersistWrite, PersistFails, Unlease, Crash, Restart, ClaimSelection
    <3>3. CASE hold' = hold
      BY <3>3
    <3>4. CASE Tick
      BY <3>4 DEF Tick, Less, HoldTicks
    <3>5. CASE \E j \in Job : ReleaseSwept(j)
      BY <3>5 DEF ReleaseSwept
    <3>6. CASE \E w \in Slot : Release(w)
      BY <3>6 DEF Release
    <3>7. CASE UNCHANGED vars
      BY <3>7 DEF vars
    <3> QED BY <3>1, <3>2, <3>3, <3>4, <3>5, <3>6, <3>7 DEF Next
  <2>2. \A k \in Holding(u)' : k \in Holding(u)
    BY <2>1 DEF Holding
  <2> QED BY <2>2, FewerHolds
<1> QED BY <1>1, <1>2

Quota == Typed /\ Ownership /\ HoldCovers /\ HoldsWithinLimit

LEMMA QuotaInit == Init => Quota
<1> SUFFICES ASSUME Init PROVE Quota
  OBVIOUS
<1>1. Ownership /\ HoldCovers
  BY DEF Init, Ownership, Attempting, HoldCovers, Waiting, Live
<1>2. ASSUME NEW u \in User PROVE Cardinality(Holding(u)) <= UserLimit
  <2>1. Holding(u) = {}
    BY DEF Init, Holding
  <2> QED BY <2>1, FS_EmptySet, ConstantsOK
<1> QED BY <1>1, <1>2, TypedInit DEF Quota, HoldsWithinLimit

\* For every job set, account and limit, an account never has more jobs waiting
\* or being worked on than USER_LIMIT.
THEOREM OutstandingHolds == Safety => []OutstandingWithinLimit
<1>1. Quota /\ [Next]_vars => Quota'
  BY TypedStep, OwnershipStep, HoldCoversStep, HoldsWithinLimitStep DEF Quota
<1>2. ASSUME Quota PROVE OutstandingWithinLimit
  <2> SUFFICES ASSUME NEW u \in User
               PROVE  Cardinality({j \in Job : UserOf[j] = u /\ Outstanding(j)}) <= UserLimit
    BY DEF OutstandingWithinLimit
  <2> DEFINE Out == {j \in Job : UserOf[j] = u /\ Outstanding(j)}
  <2>1. ASSUME NEW j \in Job, Outstanding(j) PROVE hold[j] > 0
    BY <1>2, <2>1, ConstantsOK DEF Quota, Typed, TypeOK, HoldCovers, Outstanding, Waiting, Live,
       AssertActive, Owns, HoldTicks
  <2>2. Out \subseteq Holding(u)
    BY <2>1 DEF Holding
  <2>3. IsFiniteSet(Holding(u))
    BY ConstantsOK, FS_Subset, Holding(u) \subseteq Job DEF Holding
  <2>4. IsFiniteSet(Out) /\ Cardinality(Out) <= Cardinality(Holding(u))
    BY <2>2, <2>3, FS_Subset
  <2>5. Cardinality(Out) \in Nat /\ Cardinality(Holding(u)) \in Nat
    BY <2>3, <2>4, FS_CardinalityType
  <2>6. Cardinality(Holding(u)) <= UserLimit
    BY <1>2 DEF Quota, HoldsWithinLimit
  <2>7. Cardinality(Out) <= UserLimit
    BY <2>4, <2>5, <2>6, ConstantsOK
  <2> QED BY <2>7
<1> QED BY <1>1, <1>2, QuotaInit, PTL DEF Safety

-----------------------------------------------------------------------------
(* The private report *)

\* An outcome read between two transactions of persist still describes the job,
\* or will be refused with its owner.
ReportAgrees ==
  /\ ReportMatchesVerdict
  /\ \A w \in Slot : pc[w] = "report" => seen[w] \in Verdict /\ Describes(seen[w], work[w])
  /\ \A j \in Job : status[j] = "partial" => progress[j]

\* No step leaves a report, or a reporter, with an outdated verdict.
LEMMA ReportAgreesStep == Typed /\ Ownership /\ ReportAgrees /\ [Next]_vars => ReportAgrees'
<1> SUFFICES ASSUME Typed, Ownership, ReportAgrees, [Next]_vars PROVE ReportAgrees'
  OBVIOUS
<1> USE DEF Typed, TypeOK, SlotBusy, saves, Ownership, ReportAgrees, ReportMatchesVerdict,
    Describes, OutcomeOf
<1>1. ASSUME NEW j \in Job, JobStep(j) PROVE ReportAgrees'
  <2>1. CASE Submit(j)
    BY <2>1 DEF Submit, flow, leases
  <2>2. CASE Admit(j)
    BY <2>2 DEF Admit, Admissible, flow, leases
  <2>3. CASE RejectAdmission(j)
    BY <2>3 DEF RejectAdmission, Admissible, Bury, RecordTerminal, flow, leases
  <2>4. CASE FunctionGivesUp(j)
    BY <2>4 DEF FunctionGivesUp, flow, leases
  <2>5. CASE Review(j)
    BY <2>5 DEF Review, flow, leases
  <2>6. CASE SweepExecution(j)
    BY <2>6 DEF SweepExecution, RecordTerminal, flow, leases
  <2>7. CASE ExpireQueued(j)
    BY <2>7 DEF ExpireQueued, Bury, RecordTerminal, flow, leases
  <2>8. CASE ReleaseSwept(j)
    BY <2>8 DEF ReleaseSwept, jobDoc, flow, leases
  <2>9. CASE SweeperCrash(j)
    BY <2>9 DEF SweeperCrash, jobDoc, flow, leases
  <2> QED BY <1>1, <2>1, <2>2, <2>3, <2>4, <2>5, <2>6, <2>7, <2>8, <2>9 DEF JobStep
<1>2. ASSUME NEW w \in Slot, SlotStep(w) PROVE ReportAgrees'
  <2>1. CASE \E j \in Job : Reserve(w, j)
    BY <2>1 DEF Reserve, jobDoc
  <2>2. CASE \E j \in Job : BeginSelection(w, j)
    BY <2>2 DEF BeginSelection, jobDoc
  <2>3. CASE TakeWorkLease(w)
    BY <2>3 DEF TakeWorkLease, Goto, jobDoc
  <2>4. CASE LeaseBusy(w)
    BY <2>4 DEF LeaseBusy, Idle, jobDoc
  <2>5. CASE Claim(w)
    BY <2>5 DEF Claim, Claimable, Goto, leases
  <2>6. CASE ClaimTerminal(w)
    BY <2>6 DEF ClaimTerminal, Claimable, Goto, Bury, RecordTerminal, leases
  <2>7. CASE ClaimNothing(w)
    BY <2>7 DEF ClaimNothing, Goto, jobDoc, leases
  <2>8. CASE SavePin(w)
    BY <2>8 DEF SavePin, AssertActive, Owns, jobDoc, flow, leases
  <2>9. CASE \E s \in Verdict, p \in BOOLEAN : Settle(w, s, p)
    BY <2>9 DEF Settle, Goto, AssertActive, Owns, leases, Verdict
  <2>10. CASE FailAttempt(w)
    BY <2>10 DEF FailAttempt, Goto, Bury, RecordTerminal, Owns, leases
  <2>11. CASE Abandon(w)
    BY <2>11 DEF Abandon, Goto, jobDoc, leases
  <2>12. CASE PersistRead(w)
    BY <2>12 DEF PersistRead, Goto, jobDoc, leases, Verdict
  <2>13. CASE PersistWrite(w)
    BY <2>13 DEF PersistWrite, jobDoc, leases
  <2>14. CASE PersistFails(w)
    BY <2>14 DEF PersistFails, jobDoc, leases
  <2>15. CASE Release(w)
    BY <2>15 DEF Release, Goto, jobDoc, leases
  <2>16. CASE Unlease(w)
    BY <2>16 DEF Unlease, Idle, jobDoc
  <2>17. CASE Crash(w)
    BY <2>17 DEF Crash, jobDoc, leases
  <2>18. CASE Restart(w)
    BY <2>18 DEF Restart, Idle, jobDoc, leases
  <2>19. CASE ClaimSelection(w)
    BY <2>19 DEF ClaimSelection, Goto, leases
  <2>20. CASE Checkpoint(w)
    BY <2>20 DEF Checkpoint, AssertActive, Owns, jobDoc, flow, leases
  <2> QED BY <1>2, <2>1, <2>2, <2>3, <2>4, <2>5, <2>6, <2>7, <2>8, <2>9, <2>10,
             <2>11, <2>12, <2>13, <2>14, <2>15, <2>16, <2>17, <2>18, <2>19, <2>20
             DEF SlotStep
<1>3. CASE Tick
  BY <1>3 DEF Tick, flow
<1>4. CASE UNCHANGED vars
  BY <1>4 DEF vars, jobDoc, flow, leases
<1> QED BY <1>1, <1>2, <1>3, <1>4 DEF Next

\* The report never contradicts the verdict the job ends with.
THEOREM ReportHolds == Safety => []ReportMatchesVerdict
<1>1. Init => Ownership /\ ReportAgrees
  BY DEF Init, Ownership, Attempting, ReportAgrees, ReportMatchesVerdict, Describes
<1>2. ReportAgrees => ReportMatchesVerdict
  BY DEF ReportAgrees
<1> QED BY <1>1, <1>2, TypedInit, TypedStep, OwnershipStep, ReportAgreesStep, PTL DEF Safety

-----------------------------------------------------------------------------
(* The lifecycle *)

LEMMA LifecycleInit == Init => Lifecycle!Init
  BY DEF Init, Lifecycle!Init

LEMMA LifecycleStep == Typed /\ Ownership /\ [Next]_vars => [Lifecycle!Next]_(Lifecycle!vars)
<1> SUFFICES ASSUME Typed, Ownership, [Next]_vars PROVE [Lifecycle!Next]_(Lifecycle!vars)
  OBVIOUS
<1> USE DEF Typed, TypeOK, SlotBusy, saves, Lifecycle!vars, Lifecycle!Next, Lifecycle!Become
<1>0. \A j \in Job : progress[j] \in BOOLEAN /\ progress = [progress EXCEPT ![j] = progress[j]]
  OBVIOUS
<1>1. ASSUME NEW j \in Job, JobStep(j) PROVE [Lifecycle!Next]_(Lifecycle!vars)
  <2>1. CASE Submit(j)
    BY <2>1 DEF Submit, Lifecycle!Submit
  <2>2. CASE Admit(j)
    BY <2>2 DEF Admit, Admissible, Lifecycle!Submit
  <2>3. CASE RejectAdmission(j)
    BY <2>3 DEF RejectAdmission, Admissible, Bury, RecordTerminal, Lifecycle!Refuse
  <2>4. CASE FunctionGivesUp(j)
    BY <2>4 DEF FunctionGivesUp, Lifecycle!Refuse
  <2>5. CASE Review(j)
    BY <2>5 DEF Review, Lifecycle!Review
  <2>6. CASE SweepExecution(j)
    BY <1>0, <2>6 DEF SweepExecution, RecordTerminal, Lifecycle!Settle, Lifecycle!Verdict
  <2>7. CASE ExpireQueued(j)
    BY <2>7 DEF ExpireQueued, Bury, RecordTerminal, Lifecycle!Refuse
  <2>8. CASE ReleaseSwept(j)
    BY <2>8 DEF ReleaseSwept, jobDoc
  <2>9. CASE SweeperCrash(j)
    BY <2>9 DEF SweeperCrash, jobDoc
  <2> QED BY <1>1, <2>1, <2>2, <2>3, <2>4, <2>5, <2>6, <2>7, <2>8, <2>9 DEF JobStep
<1>2. ASSUME NEW w \in Slot, SlotStep(w) PROVE [Lifecycle!Next]_(Lifecycle!vars)
  <2>1. CASE \E j \in Job : Reserve(w, j)
    BY <2>1 DEF Reserve, jobDoc
  <2>2. CASE \E j \in Job : BeginSelection(w, j)
    BY <2>2 DEF BeginSelection, jobDoc
  <2>3. CASE TakeWorkLease(w)
    BY <2>3 DEF TakeWorkLease, jobDoc
  <2>4. CASE LeaseBusy(w)
    BY <2>4 DEF LeaseBusy, jobDoc
  <2>5. CASE Claim(w)
    BY <2>5 DEF Claim, Claimable, Goto, Lifecycle!Start
  <2>6. CASE ClaimTerminal(w)
    BY <2>6 DEF ClaimTerminal, Claimable, Goto, Bury, RecordTerminal,
       Lifecycle!Refuse
  <2>7. CASE ClaimNothing(w)
    BY <2>7 DEF ClaimNothing, jobDoc
  <2>8. CASE SavePin(w)
    BY <2>8 DEF SavePin, AssertActive, Owns, jobDoc, Lifecycle!Save
  <2>9. CASE \E s \in Verdict, p \in BOOLEAN : Settle(w, s, p)
    BY <2>9 DEF Settle, Goto, AssertActive, Owns, Verdict, Lifecycle!Settle,
       Lifecycle!Verdict
  <2>10. CASE FailAttempt(w)
    BY <1>0, <2>10 DEF FailAttempt, Goto, Bury, RecordTerminal, Owns, Lifecycle!Settle,
       Lifecycle!Verdict
  <2>11. CASE Abandon(w)
    BY <2>11 DEF Abandon, jobDoc
  <2>12. CASE PersistRead(w)
    BY <2>12 DEF PersistRead, jobDoc
  <2>13. CASE PersistWrite(w)
    BY <2>13 DEF PersistWrite, jobDoc
  <2>14. CASE PersistFails(w)
    BY <2>14 DEF PersistFails, jobDoc
  <2>15. CASE Release(w)
    BY <2>15 DEF Release, jobDoc
  <2>16. CASE Unlease(w)
    BY <2>16 DEF Unlease, jobDoc
  <2>17. CASE Crash(w)
    BY <2>17 DEF Crash, jobDoc
  <2>18. CASE Restart(w)
    BY <2>18 DEF Restart, jobDoc
  <2>19. CASE ClaimSelection(w)
    BY <2>19 DEF ClaimSelection, Goto, Lifecycle!Start
  <2>20. CASE Checkpoint(w)
    BY <2>20 DEF Checkpoint, AssertActive, Owns, jobDoc, Lifecycle!Inherit
  <2> QED BY <1>2, <2>1, <2>2, <2>3, <2>4, <2>5, <2>6, <2>7, <2>8, <2>9, <2>10,
             <2>11, <2>12, <2>13, <2>14, <2>15, <2>16, <2>17, <2>18, <2>19, <2>20
             DEF SlotStep
<1>3. CASE Tick
  BY <1>3 DEF Tick
<1>4. CASE UNCHANGED vars
  BY <1>4 DEF vars, jobDoc
<1> QED BY <1>1, <1>2, <1>3, <1>4 DEF Next

\* Whatever the interleaving, a job passes through the promised verdicts in the
\* promised order, and no pin is saved for it outside an attempt.
THEOREM LifecycleHolds == Safety => LifecycleSafety
<1>1. Init => Typed /\ Ownership
  BY TypedInit DEF Init, Ownership, Attempting
<1>2. Typed /\ Ownership /\ [Next]_vars => (Typed /\ Ownership)'
  BY TypedStep, OwnershipStep
<1> QED BY <1>1, <1>2, LifecycleInit, LifecycleStep, PTL DEF Safety, LifecycleSafety, Lifecycle!Safety

-----------------------------------------------------------------------------
(* What the Redis leases guarantee: if every claim commits while its lease   *)
(* still covers a whole attempt (PromptClaim), an account has one live       *)
(* attempt and the fleet has GLOBAL_SLOTS.  Without that assumption TLC finds *)
(* two live attempts of one account.                                         *)

(* The lane of an account *)

\* A lane has one holder, and the holder's lease outlives its attempt.
Lanes ==
  /\ \A w \in Slot : userLease[w] > 0 => pc[w] # "idle"
  /\ \A w, x \in Slot : /\ userLease[w] > 0 /\ userLease[x] > 0
                        /\ UserOf[work[w]] = UserOf[work[x]]
                        => w = x
  /\ \A w \in Slot : pc[w] \in {"reserved", "leased"} => userLease[w] >= ActiveTicks
  /\ \A w \in Slot : Live(w) => userLease[w] >= left[work[w]]

\* No step frees, shares or outlives a lane that is in use.
LEMMA LanesStep == Fair /\ PromptClaim /\ Typed /\ Lanes /\ [Next]_vars => Lanes'
<1> SUFFICES ASSUME Fair, PromptClaim, Typed, Lanes, [Next]_vars PROVE Lanes'
  OBVIOUS
<1> USE ConstantsOK DEF Typed, TypeOK, SlotBusy, saves, Lanes, Live, AssertActive, Owns
<1>1. ASSUME NEW j \in Job, JobStep(j) PROVE Lanes'
  <2>1. CASE Submit(j)
    BY <2>1 DEF Submit, flow, leases
  <2>2. CASE Admit(j)
    BY <2>2 DEF Admit, Admissible, flow, leases
  <2>3. CASE RejectAdmission(j)
    BY <2>3 DEF RejectAdmission, Admissible, Bury, RecordTerminal, flow, leases
  <2>4. CASE FunctionGivesUp(j)
    BY <2>4 DEF FunctionGivesUp, flow, leases
  <2>5. CASE Review(j)
    BY <2>5 DEF Review, flow, leases
  <2>6. CASE SweepExecution(j)
    BY <2>6 DEF SweepExecution, RecordTerminal, flow, leases
  <2>7. CASE ExpireQueued(j)
    BY <2>7 DEF ExpireQueued, Bury, RecordTerminal, flow, leases
  <2>8. CASE ReleaseSwept(j)
    BY <2>8 DEF ReleaseSwept, jobDoc, flow, leases
  <2>9. CASE SweeperCrash(j)
    BY <2>9 DEF SweeperCrash, jobDoc, flow, leases
  <2> QED BY <1>1, <2>1, <2>2, <2>3, <2>4, <2>5, <2>6, <2>7, <2>8, <2>9 DEF JobStep
<1>2. ASSUME NEW w \in Slot, SlotStep(w) PROVE Lanes'
  <2>1. CASE \E j \in Job : Reserve(w, j)
    BY <2>1 DEF Reserve, jobDoc, LaneFree
  <2>2. CASE \E j \in Job : BeginSelection(w, j)
    BY <2>2 DEF BeginSelection, jobDoc
  <2>3. CASE TakeWorkLease(w)
    BY <2>3 DEF TakeWorkLease, Goto, jobDoc
  <2>4. CASE LeaseBusy(w)
    BY <2>4 DEF LeaseBusy, Idle, jobDoc
  <2>5. CASE Claim(w)
    BY <2>5 DEF Claim, Claimable, Goto, leases
  <2>6. CASE ClaimTerminal(w)
    BY <2>6 DEF ClaimTerminal, Claimable, Goto, Bury, RecordTerminal, leases
  <2>7. CASE ClaimNothing(w)
    BY <2>7 DEF ClaimNothing, Goto, jobDoc, leases
  <2>8. CASE SavePin(w)
    BY <2>8 DEF SavePin, AssertActive, Owns, jobDoc, flow, leases
  <2>9. CASE \E s \in Verdict, p \in BOOLEAN : Settle(w, s, p)
    BY <2>9 DEF Settle, Goto, AssertActive, Owns, leases, Verdict
  <2>10. CASE FailAttempt(w)
    BY <2>10 DEF FailAttempt, Goto, Bury, RecordTerminal, Owns, leases
  <2>11. CASE Abandon(w)
    BY <2>11 DEF Abandon, Goto, jobDoc, leases
  <2>12. CASE PersistRead(w)
    BY <2>12 DEF PersistRead, Goto, jobDoc, leases
  <2>13. CASE PersistWrite(w)
    BY <2>13 DEF PersistWrite, jobDoc, leases
  <2>14. CASE PersistFails(w)
    BY <2>14 DEF PersistFails, jobDoc, leases
  <2>15. CASE Release(w)
    BY <2>15 DEF Release, Goto, jobDoc, leases
  <2>16. CASE Unlease(w)
    BY <2>16 DEF Unlease, Idle, jobDoc
  <2>17. CASE Crash(w)
    BY <2>17 DEF Crash, jobDoc, leases
  <2>18. CASE Restart(w)
    BY <2>18 DEF Restart, Idle, jobDoc, leases
  <2>19. CASE ClaimSelection(w)
    BY <2>19 DEF ClaimSelection, Goto, leases
  <2>20. CASE Checkpoint(w)
    BY <2>20 DEF Checkpoint, AssertActive, Owns, jobDoc, flow, leases
  <2> QED BY <1>2, <2>1, <2>2, <2>3, <2>4, <2>5, <2>6, <2>7, <2>8, <2>9, <2>10,
             <2>11, <2>12, <2>13, <2>14, <2>15, <2>16, <2>17, <2>18, <2>19, <2>20
             DEF SlotStep
<1>3. CASE Tick
  BY <1>3 DEF Tick, flow, Less, ClaimInTime
<1>4. CASE UNCHANGED vars
  BY <1>4 DEF vars, jobDoc, flow, leases
<1> QED BY <1>1, <1>2, <1>3, <1>4 DEF Next

\* Under the fair policy an account has at most one attempt that may commit.
THEOREM OneAttemptHolds == ASSUME PromptClaim PROVE Safety => []OneAttemptPerAccount
<1>1. CASE Fair
  <2>1. Init => Lanes
    BY DEF Init, Lanes, Live
  <2>2. Typed /\ Lanes /\ [Next]_vars => Lanes'
    BY <1>1, LanesStep
  <2>3. Typed /\ Lanes => OneAttemptPerAccount
    BY DEF Typed, TypeOK, SlotBusy, saves, Lanes, OneAttemptPerAccount, Live, AssertActive, Owns
  <2> QED BY <2>1, <2>2, <2>3, TypedInit, TypedStep, PTL DEF Safety
<1>2. CASE ~Fair
  <2>1. OneAttemptPerAccount
    BY <1>2 DEF OneAttemptPerAccount
  <2> QED BY <2>1, PTL
<1> QED BY <1>1, <1>2

-----------------------------------------------------------------------------
(* The worker slots of the fleet *)

Leased == {w \in Slot : workLease[w] > 0}

\* An attempt's lease outlives it.
Covered ==
  /\ \A w \in Slot : pc[w] \in {"leased", "selecting"} => workLease[w] >= ActiveTicks
  /\ \A w \in Slot : Running(w) => workLease[w] >= left[work[w]]

\* No step shortens the lease of a running attempt.
LEMMA CoveredStep == PromptClaim /\ Typed /\ Covered /\ [Next]_vars => Covered'
<1> SUFFICES ASSUME PromptClaim, Typed, Covered, [Next]_vars PROVE Covered'
  OBVIOUS
<1> USE ConstantsOK DEF Typed, TypeOK, SlotBusy, saves, Covered, Running, AssertActive, Owns
<1>1. ASSUME NEW j \in Job, JobStep(j) PROVE Covered'
  <2>1. CASE Submit(j)
    BY <2>1 DEF Submit, flow, leases
  <2>2. CASE Admit(j)
    BY <2>2 DEF Admit, Admissible, flow, leases
  <2>3. CASE RejectAdmission(j)
    BY <2>3 DEF RejectAdmission, Admissible, Bury, RecordTerminal, flow, leases
  <2>4. CASE FunctionGivesUp(j)
    BY <2>4 DEF FunctionGivesUp, flow, leases
  <2>5. CASE Review(j)
    BY <2>5 DEF Review, flow, leases
  <2>6. CASE SweepExecution(j)
    BY <2>6 DEF SweepExecution, RecordTerminal, flow, leases
  <2>7. CASE ExpireQueued(j)
    BY <2>7 DEF ExpireQueued, Bury, RecordTerminal, flow, leases
  <2>8. CASE ReleaseSwept(j)
    BY <2>8 DEF ReleaseSwept, jobDoc, flow, leases
  <2>9. CASE SweeperCrash(j)
    BY <2>9 DEF SweeperCrash, jobDoc, flow, leases
  <2> QED BY <1>1, <2>1, <2>2, <2>3, <2>4, <2>5, <2>6, <2>7, <2>8, <2>9 DEF JobStep
<1>2. ASSUME NEW w \in Slot, SlotStep(w) PROVE Covered'
  <2>1. CASE \E j \in Job : Reserve(w, j)
    BY <2>1 DEF Reserve, jobDoc
  <2>2. CASE \E j \in Job : BeginSelection(w, j)
    BY <2>2 DEF BeginSelection, jobDoc
  <2>3. CASE TakeWorkLease(w)
    BY <2>3 DEF TakeWorkLease, Goto, jobDoc
  <2>4. CASE LeaseBusy(w)
    BY <2>4 DEF LeaseBusy, Idle, jobDoc
  <2>5. CASE Claim(w)
    BY <2>5 DEF Claim, Claimable, Goto, leases
  <2>6. CASE ClaimTerminal(w)
    BY <2>6 DEF ClaimTerminal, Claimable, Goto, Bury, RecordTerminal, leases
  <2>7. CASE ClaimNothing(w)
    BY <2>7 DEF ClaimNothing, Goto, jobDoc, leases
  <2>8. CASE SavePin(w)
    BY <2>8 DEF SavePin, AssertActive, Owns, jobDoc, flow, leases
  <2>9. CASE \E s \in Verdict, p \in BOOLEAN : Settle(w, s, p)
    BY <2>9 DEF Settle, Goto, AssertActive, Owns, leases, Verdict
  <2>10. CASE FailAttempt(w)
    BY <2>10 DEF FailAttempt, Goto, Bury, RecordTerminal, Owns, leases
  <2>11. CASE Abandon(w)
    BY <2>11 DEF Abandon, Goto, jobDoc, leases
  <2>12. CASE PersistRead(w)
    BY <2>12 DEF PersistRead, Goto, jobDoc, leases
  <2>13. CASE PersistWrite(w)
    BY <2>13 DEF PersistWrite, jobDoc, leases
  <2>14. CASE PersistFails(w)
    BY <2>14 DEF PersistFails, jobDoc, leases
  <2>15. CASE Release(w)
    BY <2>15 DEF Release, Goto, jobDoc, leases
  <2>16. CASE Unlease(w)
    BY <2>16 DEF Unlease, Idle, jobDoc
  <2>17. CASE Crash(w)
    BY <2>17 DEF Crash, jobDoc, leases
  <2>18. CASE Restart(w)
    BY <2>18 DEF Restart, Idle, jobDoc, leases
  <2>19. CASE ClaimSelection(w)
    BY <2>19 DEF ClaimSelection, Goto, leases
  <2>20. CASE Checkpoint(w)
    BY <2>20 DEF Checkpoint, AssertActive, Owns, jobDoc, flow, leases
  <2> QED BY <1>2, <2>1, <2>2, <2>3, <2>4, <2>5, <2>6, <2>7, <2>8, <2>9, <2>10,
             <2>11, <2>12, <2>13, <2>14, <2>15, <2>16, <2>17, <2>18, <2>19, <2>20
             DEF SlotStep
<1>3. CASE Tick
  BY <1>3 DEF Tick, flow, Less, ClaimInTime
<1>4. CASE UNCHANGED vars
  BY <1>4 DEF vars, jobDoc, flow, leases
<1> QED BY <1>1, <1>2, <1>3, <1>4 DEF Next

\* Only a slot that found a lease free adds one.
LEMMA LeasedStep ==
  Typed /\ Cardinality(Leased) <= GlobalSlots /\ [Next]_vars => Cardinality(Leased') <= GlobalSlots
<1> SUFFICES ASSUME Typed, Cardinality(Leased) <= GlobalSlots, [Next]_vars
             PROVE  Cardinality(Leased') <= GlobalSlots
  OBVIOUS
<1> USE DEF Typed, TypeOK, saves
<1>0. IsFiniteSet(Leased) /\ Cardinality(Leased) \in Nat
  BY ConstantsOK, FS_Subset, FS_CardinalityType, Leased \subseteq Slot DEF Leased
<1>1. CASE \E w \in Slot : TakeWorkLease(w) \/ \E j \in Job : BeginSelection(w, j)
  <2>1. PICK w \in Slot : TakeWorkLease(w) \/ \E j \in Job : BeginSelection(w, j)
    BY <1>1
  <2>2. Cardinality(Leased) < GlobalSlots /\ workLease' = [workLease EXCEPT ![w] = LeaseTicks]
    BY <2>1 DEF TakeWorkLease, BeginSelection, WorkSlotFree, Leased
  <2>3. Leased' \subseteq Leased \cup {w}
    BY <2>2 DEF Leased
  <2>4. /\ IsFiniteSet(Leased \cup {w})
        /\ Cardinality(Leased \cup {w}) = Cardinality(Leased)
           \/ Cardinality(Leased \cup {w}) = Cardinality(Leased) + 1
    BY <1>0, FS_AddElement
  <2>5. IsFiniteSet(Leased') /\ Cardinality(Leased') <= Cardinality(Leased \cup {w})
    BY <2>3, <2>4, FS_Subset
  <2>6. Cardinality(Leased') \in Nat
    BY <2>5, FS_CardinalityType
  <2> QED BY <1>0, <2>2, <2>4, <2>5, <2>6, ConstantsOK
<1>2. CASE ~\E w \in Slot : TakeWorkLease(w) \/ \E j \in Job : BeginSelection(w, j)
  <2>1. \A x \in Slot : workLease'[x] > 0 => workLease[x] > 0
    <3>1. ASSUME NEW j \in Job, JobStep(j) PROVE workLease' = workLease
      BY <3>1 DEF JobStep, Submit, Admit, RejectAdmission, FunctionGivesUp, Review,
         SweepExecution, ExpireQueued, ReleaseSwept, SweeperCrash, leases
    <3>2. ASSUME NEW w \in Slot, SlotStep(w) PROVE workLease' = workLease \/ Unlease(w)
      BY <3>2, <1>2 DEF SlotStep, Checkpoint, Reserve, LeaseBusy, Claim, ClaimTerminal, ClaimNothing, SavePin,
         Settle, FailAttempt, Abandon, PersistRead, PersistWrite, PersistFails, Release, Crash,
         Restart, ClaimSelection, leases
    <3>3. CASE workLease' = workLease
      BY <3>3
    <3>4. CASE Tick
      BY <3>4 DEF Tick, Less
    <3>5. CASE \E w \in Slot : Unlease(w)
      BY <3>5 DEF Unlease
    <3>6. CASE UNCHANGED vars
      BY <3>6 DEF vars, leases
    <3> QED BY <3>1, <3>2, <3>3, <3>4, <3>5, <3>6 DEF Next
  <2>2. Leased' \subseteq Leased
    BY <2>1 DEF Leased
  <2>3. IsFiniteSet(Leased') /\ Cardinality(Leased') <= Cardinality(Leased)
    BY <1>0, <2>2, FS_Subset
  <2>4. Cardinality(Leased') \in Nat
    BY <2>3, FS_CardinalityType
  <2> QED BY <1>0, <2>3, <2>4, ConstantsOK
<1> QED BY <1>1, <1>2

\* All processes together run at most GLOBAL_SLOTS attempts that may commit.
THEOREM SlotsHold == ASSUME PromptClaim PROVE Safety => []AttemptsWithinSlots
<1> DEFINE Inv == Typed /\ Covered /\ Cardinality(Leased) <= GlobalSlots
<1>1. Init => Inv
  <2> SUFFICES ASSUME Init PROVE Inv
    OBVIOUS
  <2>1. Leased = {}
    BY DEF Init, Leased
  <2>2. Cardinality(Leased) <= GlobalSlots
    BY <2>1, FS_EmptySet, ConstantsOK
  <2>3. Covered
    BY DEF Init, Covered, Running
  <2> QED BY <2>2, <2>3, TypedInit
<1>2. Inv /\ [Next]_vars => Inv'
  BY TypedStep, CoveredStep, LeasedStep
<1>3. Inv => AttemptsWithinSlots
  <2> SUFFICES ASSUME Inv PROVE AttemptsWithinSlots
    OBVIOUS
  <2> DEFINE Run == {w \in Slot : Running(w)}
  <2>1. ASSUME NEW w \in Slot, Running(w) PROVE workLease[w] > 0
    BY <2>1 DEF Typed, TypeOK, SlotBusy, saves, Covered, Running, AssertActive, Owns
  <2>2. Run \subseteq Leased
    BY <2>1 DEF Leased
  <2>3. IsFiniteSet(Leased)
    BY ConstantsOK, FS_Subset, Leased \subseteq Slot DEF Leased
  <2>4. IsFiniteSet(Run) /\ Cardinality(Run) <= Cardinality(Leased)
    BY <2>2, <2>3, FS_Subset
  <2>5. Cardinality(Run) \in Nat /\ Cardinality(Leased) \in Nat
    BY <2>3, <2>4, FS_CardinalityType
  <2>6. Cardinality(Run) <= GlobalSlots
    BY <2>4, <2>5, ConstantsOK
  <2> QED BY <2>6 DEF AttemptsWithinSlots
<1> QED BY <1>1, <1>2, <1>3, PTL DEF Safety
=============================================================================
