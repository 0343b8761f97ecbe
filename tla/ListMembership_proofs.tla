----------------------- MODULE ListMembership_proofs -----------------------
(***************************************************************************)
(* Proofs about ListMembership: one job works at a time, under the freeze, *)
(* so that what it has read stays true until it writes; this makes each    *)
(* clean step of the migration establish its promise, and everybody else   *)
(* keep it.                                                                *)
(***************************************************************************)
EXTENDS ListMembership, FiniteSetTheorems, TLAPS

\* Without a hasty operator nobody works without a lock.
Calm == hasty \/ cleared = {}

\* What a job does belongs to its kind.
Kinds == \A j \in Job :
  /\ pc[j] \in {"pins", "lists", "write"} => kind[j] = "backfill"
  /\ pc[j] \in {"resolve", "delete"} => kind[j] = "scrub"
  /\ pc[j] = "update" => kind[j] = "reconcile"
  /\ pc[j] \in {"scan", "visit"} => kind[j] \in {"scrub", "reconcile"}

\* A backfill has read the claims, and writes what is missing.
FillKnows(j) ==
  /\ pc[j] \in {"lists", "write"} => todo[j] \subseteq claims
  /\ pc[j] = "lists" /\ ok[j] => todo[j] = claims
  /\ pc[j] = "write" /\ ok[j]
       => \A d \in claims : d[1] \in lists => d \in todo[j] \/ d \in members \ corrupt

\* A scrub knows the orphans of the list it visits, and left none behind.
ScrubKnows(j) ==
  /\ pc[j] = "resolve" => \A p \in Pin : <<at[j], p>> \in members => p \in found[j]
  /\ pc[j] = "delete" => \A p \in Pin :
       /\ p \in found[j] => <<at[j], p>> \notin claims
       /\ <<at[j], p>> \in members \ claims => p \in found[j]
  /\ pc[j] \in {"visit", "resolve", "delete"} /\ kind[j] = "scrub" /\ ok[j]
       => \A l \in List, p \in Pin : <<l, p>> \in members \ claims
            => l \in left[j] \/ (pc[j] # "visit" /\ l = at[j])

\* A reconcile's first reading of the counts still stands for the lists to
\* come, and the others agree.
CountKnows(j) ==
  /\ pc[j] = "update" => at[j] \notin left[j]
  /\ pc[j] = "update" /\ at[j] \in lists => found[j] = PinsOf(members, at[j])
  /\ pc[j] \in {"visit", "update"} /\ kind[j] = "reconcile"
       => \A l \in lists :
            IF l \in left[j] \/ (pc[j] = "update" /\ l = at[j])
            THEN stored[j][l] = count[l]
            ELSE ok[j] => count[l] = Cardinality(PinsOf(members, l))

Knows == hasty \/ \A j \in Job : FillKnows(j) /\ ScrubKnows(j) /\ CountKnows(j)

IInv == TypeOK /\ LockCoversWork /\ Calm /\ Kinds /\ Knows /\ StagesHold /\ NoMemberOfDeletedList

-----------------------------------------------------------------------------
(* Types *)

PC == {"idle", "asked"} \cup Working

DocsTyped ==
  /\ lists \subseteq List /\ claims \subseteq Doc /\ members \subseteq Doc
  /\ corrupt \subseteq members /\ edited \subseteq members
  /\ count \in [List -> Count]

FlagsTyped ==
  /\ frozen \in {"unset", "off", "on"} /\ lock \in Job \cup {NoJob}
  /\ stage \in {"none", "filled", "scrubbed", "agreed"}
  /\ cleared \subseteq Job /\ hasty \in BOOLEAN

JobsTyped ==
  /\ pc \in [Job -> PC] /\ kind \in [Job -> Kind]
  /\ todo \in [Job -> SUBSET Doc] /\ left \in [Job -> SUBSET List]
  /\ at \in [Job -> List] /\ found \in [Job -> SUBSET Pin]
  /\ stored \in [Job -> [List -> Count]] /\ ok \in [Job -> BOOLEAN]

LEMMA TypeParts == TypeOK <=> DocsTyped /\ FlagsTyped /\ JobsTyped
  BY DEF TypeOK, DocsTyped, FlagsTyped, JobsTyped, PC

LEMMA PcNames == PC = {"idle", "asked", "pins", "lists", "write", "scan", "visit", "resolve", "delete", "update"}
  BY DEF PC, Working

\* The members of a list are finitely many, and can be counted.
LEMMA Counted ==
  ASSUME NEW s, s \subseteq Pin
  PROVE  IsFiniteSet(s) /\ Cardinality(s) \in Nat /\ Cardinality(s) \in Count
<1>1. IsFiniteSet(s) /\ Cardinality(s) <= Cardinality(Pin)
  BY FS_Subset, ListAssumption
<1>2. Cardinality(s) \in Nat /\ Cardinality(Pin) \in Nat
  BY <1>1, FS_CardinalityType, ListAssumption
<1> QED BY <1>1, <1>2, ListAssumption DEF Count

LEMMA OneIsCount == ASSUME NEW p \in Pin PROVE 1 \in Count
<1>1. Cardinality({p}) = 1
  BY FS_Singleton
<1> QED BY <1>1, Counted

LEMMA CountSteps ==
  ASSUME NEW n \in Count
  PROVE  /\ n \notin {NoCount, 0} => n \in Nat /\ n - 1 \in Count
         /\ n \notin {NoCount, MaxCount} => n \in Nat /\ n + 1 \in Count
  BY ListAssumption DEF Count

LEMMA LeaveTyped == ASSUME NEW j \in Job, JobsTyped, FlagsTyped, Leave(j)
                    PROVE JobsTyped' /\ cleared' \subseteq Job
<1>1. NoCount \in Count
  BY DEF Count
<1>2. stored' \in [Job -> [List -> Count]]
  BY <1>1 DEF Leave, JobsTyped
<1> QED BY <1>2, PcNames DEF Leave, JobsTyped, FlagsTyped

LEMMA UnlockTyped == ASSUME FlagsTyped, NEW j \in Job PROVE Unlock(j) \in Job \cup {NoJob}
  BY DEF FlagsTyped, Unlock

LEMMA UserTyped == ASSUME DocsTyped, UserStep PROVE DocsTyped'
<1>1. ASSUME NEW l \in List, NEW p \in Pin, RemoveMember(l, p) PROVE DocsTyped'
  <2>1. count[l] \in Count
    BY DEF DocsTyped
  <2>2. count' \in [List -> Count]
    BY <1>1, <2>1, CountSteps DEF RemoveMember, DocsTyped
  <2> QED BY <1>1, <2>2 DEF RemoveMember, Sound, DocsTyped
<1>2. ASSUME NEW l \in List, NEW p \in Pin, OverrideMember(l, p) PROVE DocsTyped'
  BY <1>2 DEF OverrideMember, Sound, DocsTyped
<1>3. ASSUME NEW l \in List, NEW p \in Pin, ClientAdd(l, p) PROVE DocsTyped'
  <2>1. count[l] \in Count
    BY DEF DocsTyped
  <2>2. count' \in [List -> Count]
    BY <1>3, <2>1, CountSteps, OneIsCount DEF ClientAdd, DocsTyped
  <2> QED BY <1>3, <2>2 DEF ClientAdd, DocsTyped, Doc
<1>4. ASSUME NEW l \in List, NEW p \in Pin, ClientRemove(l, p) PROVE DocsTyped'
  <2>1. count[l] \in Count
    BY DEF DocsTyped
  <2>2. count' \in [List -> Count]
    BY <1>4, <2>1, CountSteps DEF ClientRemove, DocsTyped
  <2> QED BY <1>4, <2>2 DEF ClientRemove, DocsTyped
<1>5. ASSUME NEW l \in List, DeleteList(l) PROVE DocsTyped'
  <2>1. NoCount \in Count
    BY DEF Count
  <2> QED BY <1>5, <2>1 DEF DeleteList, DocsTyped
<1> QED BY <1>1, <1>2, <1>3, <1>4, <1>5 DEF UserStep

LEMMA JobTyped == ASSUME DocsTyped, FlagsTyped, JobsTyped, NEW j \in Job, JobStep(j)
                  PROVE  DocsTyped' /\ FlagsTyped' /\ JobsTyped'
<1>1. ASSUME NEW k \in Kind, Request(j, k) PROVE DocsTyped' /\ FlagsTyped' /\ JobsTyped'
  BY <1>1, PcNames DEF Request, DocsTyped, FlagsTyped, JobsTyped, docVars, flagVars
<1>2. CASE Acquire(j)
  BY <1>2, PcNames DEF Acquire, DocsTyped, FlagsTyped, JobsTyped, docVars
<1>3. CASE AcquireFails(j) \/ Crash(j)
  BY <1>3, LeaveTyped DEF AcquireFails, Crash, DocsTyped, FlagsTyped, docVars
<1>4. CASE Finish(j)
  <2>1. stage' \in {"none", "filled", "scrubbed", "agreed"}
    BY <1>4 DEF Finish, Advance, FlagsTyped, JobsTyped, Kind
  <2> QED BY <1>4, <2>1, LeaveTyped, UnlockTyped DEF Finish, DocsTyped, FlagsTyped, docVars
<1>5. CASE Abort(j)
  BY <1>5, LeaveTyped, UnlockTyped DEF Abort, DocsTyped, FlagsTyped, docVars
<1>6. CASE ReadPins(j)
  BY <1>6, PcNames DEF ReadPins, DocsTyped, FlagsTyped, JobsTyped, docVars, flagVars
<1>7. CASE ReadLists(j)
  BY <1>7, PcNames DEF ReadLists, DocsTyped, FlagsTyped, JobsTyped, docVars, flagVars
<1>8. CASE WriteMember(j)
  <2>1. PICK d \in todo[j] :
          /\ todo' = [todo EXCEPT ![j] = todo[j] \ {d}]
          /\ \/ members' = members \cup {d} /\ corrupt' = corrupt \ {d} /\ ok' = ok
             \/ members' = members /\ corrupt' = corrupt /\ ok' = [ok EXCEPT ![j] = FALSE]
    BY <1>8 DEF WriteMember
  <2>2. JobsTyped'
    BY <1>8, <2>1 DEF WriteMember, JobsTyped
  <2>3. d \in Doc
    BY DEF JobsTyped
  <2> QED BY <1>8, <2>1, <2>2, <2>3 DEF WriteMember, DocsTyped, FlagsTyped, flagVars
<1>9. CASE WriteFails(j)
  BY <1>9, PcNames DEF WriteFails, DocsTyped, FlagsTyped, JobsTyped, docVars, flagVars
<1>10. CASE ScanLists(j)
  BY <1>10, PcNames DEF ScanLists, DocsTyped, FlagsTyped, JobsTyped, docVars, flagVars
<1>11. CASE ReadMembers(j)
  BY <1>11, PcNames DEF ReadMembers, PinsOf, DocsTyped, FlagsTyped, JobsTyped, docVars, flagVars
<1>12. CASE VisitFails(j) \/ ReadOrphans(j)
  BY <1>12, PcNames, ZenonT(60) DEF VisitFails, ReadOrphans, DocsTyped, FlagsTyped, JobsTyped, docVars, flagVars
<1>13. CASE DeleteOrphans(j)
  BY <1>13, PcNames DEF DeleteOrphans, DocsTyped, FlagsTyped, JobsTyped, flagVars
<1>14. CASE UpdateCount(j)
  <2>1. Cardinality(found[j]) \in Count
    BY Counted DEF JobsTyped
  <2> QED BY <1>14, <2>1, PcNames DEF UpdateCount, DocsTyped, FlagsTyped, JobsTyped, flagVars
<1> QED BY <1>1, <1>2, <1>3, <1>4, <1>5, <1>6, <1>7, <1>8, <1>9, <1>10, <1>11, <1>12, <1>13, <1>14 DEF JobStep

LEMMA TypedStep == TypeOK /\ [Next]_vars => TypeOK'
<1> SUFFICES ASSUME DocsTyped, FlagsTyped, JobsTyped, [Next]_vars
             PROVE  DocsTyped' /\ FlagsTyped' /\ JobsTyped'
  BY TypeParts DEF TypeOK, DocsTyped, FlagsTyped, JobsTyped, PC
<1>1. CASE Freeze \/ Unfreeze \/ ClearLock
  BY <1>1 DEF Freeze, Unfreeze, ClearLock, DocsTyped, FlagsTyped, JobsTyped, docVars, jobVars
<1>2. CASE UserStep
  <2>1. UNCHANGED <<flagVars, jobVars>>
    BY <1>2 DEF UserStep, RemoveMember, OverrideMember, ClientAdd, ClientRemove, DeleteList
  <2> QED BY <1>2, <2>1, UserTyped DEF FlagsTyped, JobsTyped, flagVars, jobVars
<1>3. CASE UNCHANGED vars
  BY <1>3 DEF vars, docVars, flagVars, jobVars, DocsTyped, FlagsTyped, JobsTyped
<1> QED BY <1>1, <1>2, <1>3, JobTyped DEF Next

LEMMA TypedInit == Init => TypeOK
<1> SUFFICES ASSUME Init PROVE TypeOK
  OBVIOUS
<1>1. (CHOOSE l \in List : TRUE) \in List
  BY ListAssumption
<1>2. NoCount \in Count
  BY DEF Count
<1>3. stored \in [Job -> [List -> Count]]
  BY <1>2 DEF Init
<1> QED BY <1>1, <1>3 DEF Init, TypeOK, Kind, Doc

\* Whatever users, the operator and its jobs do, every variable stays in its
\* domain.
THEOREM TypeCorrect == Spec => []TypeOK
<1> QED BY TypedInit, TypedStep, PTL DEF Spec

-----------------------------------------------------------------------------
(* The lock *)

\* Actions of one job that neither begin nor end its work.
Within(j) ==
  \/ ReadPins(j) \/ ReadLists(j) \/ WriteMember(j) \/ WriteFails(j)
  \/ ScanLists(j) \/ ReadMembers(j) \/ VisitFails(j)
  \/ ReadOrphans(j) \/ DeleteOrphans(j) \/ UpdateCount(j)

LEMMA WithinKeeps ==
  ASSUME NEW j \in Job, JobsTyped, Within(j)
  PROVE  /\ UNCHANGED <<flagVars, kind, lists, claims>>
         /\ pc[j] \in Working /\ pc'[j] \in Working
         /\ \A k \in Job \ {j} :
              /\ pc'[k] = pc[k] /\ todo'[k] = todo[k] /\ left'[k] = left[k] /\ at'[k] = at[k]
              /\ found'[k] = found[k] /\ stored'[k] = stored[k] /\ ok'[k] = ok[k]
<1>1. UNCHANGED <<flagVars, kind, lists, claims>>
  BY DEF Within, ReadPins, ReadLists, WriteMember, WriteFails, ScanLists, ReadMembers, VisitFails,
         ReadOrphans, DeleteOrphans, UpdateCount, docVars
<1>2. pc[j] \in Working /\ pc'[j] \in Working
  BY DEF Within, ReadPins, ReadLists, WriteMember, WriteFails, ScanLists, ReadMembers, VisitFails,
         ReadOrphans, DeleteOrphans, UpdateCount, JobsTyped, Working
<1>3. ASSUME NEW k \in Job \ {j}
      PROVE  /\ pc'[k] = pc[k] /\ todo'[k] = todo[k] /\ left'[k] = left[k] /\ at'[k] = at[k]
             /\ found'[k] = found[k] /\ stored'[k] = stored[k] /\ ok'[k] = ok[k]
  <2>1. CASE ReadPins(j) \/ ReadLists(j) \/ WriteFails(j) \/ ScanLists(j)
    BY <2>1 DEF ReadPins, ReadLists, WriteFails, ScanLists, JobsTyped
  <2>2. CASE WriteMember(j)
    BY <2>2 DEF WriteMember, JobsTyped
  <2>3. CASE ReadMembers(j) \/ VisitFails(j) \/ ReadOrphans(j)
    BY <2>3 DEF ReadMembers, VisitFails, ReadOrphans, JobsTyped
  <2>4. CASE DeleteOrphans(j)
    BY <2>4 DEF DeleteOrphans, JobsTyped
  <2>5. CASE UpdateCount(j)
    BY <2>5 DEF UpdateCount, JobsTyped
  <2> QED BY <2>1, <2>2, <2>3, <2>4, <2>5 DEF Within
<1> QED BY <1>1, <1>2, <1>3

\* Actions at the ends of a job: no document changes.
Ends(j) == \/ \E k \in Kind : Request(j, k)
           \/ Acquire(j) \/ AcquireFails(j) \/ Finish(j) \/ Abort(j) \/ Crash(j)

LEMMA EndsKeep ==
  ASSUME NEW j \in Job, JobsTyped, Ends(j)
  PROVE  /\ UNCHANGED <<docVars, frozen, hasty>>
         /\ pc'[j] \in Working => Acquire(j)
         /\ \A k \in Job \ {j} :
              /\ pc'[k] = pc[k] /\ todo'[k] = todo[k] /\ left'[k] = left[k] /\ at'[k] = at[k]
              /\ found'[k] = found[k] /\ stored'[k] = stored[k] /\ ok'[k] = ok[k]
              /\ kind'[k] = kind[k]
<1>1. CASE \E k \in Kind : Request(j, k)
  BY <1>1 DEF Request, JobsTyped, flagVars, Working
<1>2. CASE Acquire(j)
  BY <1>2 DEF Acquire, JobsTyped
<1>3. CASE AcquireFails(j) \/ Finish(j) \/ Abort(j) \/ Crash(j)
  BY <1>3 DEF AcquireFails, Finish, Abort, Crash, Leave, JobsTyped, Working
<1> QED BY <1>1, <1>2, <1>3 DEF Ends

LEMMA StepsOfAJob == ASSUME NEW j \in Job, JobStep(j) PROVE Within(j) \/ Ends(j)
  BY DEF JobStep, Within, Ends

LEMMA LockStep == TypeOK /\ LockCoversWork /\ [Next]_vars => LockCoversWork'
<1> SUFFICES ASSUME FlagsTyped, JobsTyped, LockCoversWork, [Next]_vars,
                    NEW j \in Job, pc'[j] \in Working, j \notin cleared'
             PROVE  lock' = j /\ frozen' = "on"
  BY TypeParts DEF LockCoversWork
<1>1. CASE Freeze
  BY <1>1 DEF Freeze, LockCoversWork, jobVars
<1>2. CASE Unfreeze
  BY <1>2, ListAssumption DEF Unfreeze, LockCoversWork, jobVars
<1>3. CASE ClearLock
  BY <1>3, ListAssumption DEF ClearLock, LockCoversWork, jobVars
<1>4. CASE UserStep \/ UNCHANGED vars
  <2>1. UNCHANGED <<flagVars, jobVars>>
    BY <1>4 DEF UserStep, RemoveMember, OverrideMember, ClientAdd, ClientRemove, DeleteList, vars
  <2> QED BY <2>1 DEF flagVars, jobVars, LockCoversWork
<1>5. ASSUME NEW k \in Job, Within(k) PROVE lock' = j /\ frozen' = "on"
  BY <1>5, WithinKeeps DEF flagVars, LockCoversWork
<1>6. ASSUME NEW k \in Job, Ends(k) PROVE lock' = j /\ frozen' = "on"
  <2>1. CASE j = k
    BY <1>6, <2>1, EndsKeep DEF Acquire
  <2>2. CASE j # k
    <3>1. pc[j] \in Working /\ frozen' = frozen
      BY <1>6, <2>2, EndsKeep
    <3>2. CASE j \in cleared
      BY <1>6, <2>2, <3>2 DEF Ends, Request, Acquire, AcquireFails, Finish, Abort, Crash, Leave, flagVars
    <3>3. CASE j \notin cleared
      <4>1. lock = j /\ frozen = "on"
        BY <3>1, <3>3 DEF LockCoversWork
      <4> QED BY <1>6, <2>2, <3>1, <4>1, ListAssumption
              DEF Ends, Request, Acquire, AcquireFails, Finish, Abort, Crash, Unlock, flagVars
    <3> QED BY <3>2, <3>3
  <2> QED BY <2>1, <2>2
<1> QED BY <1>1, <1>2, <1>3, <1>4, <1>5, <1>6, StepsOfAJob DEF Next

LEMMA LockInit == Init => LockCoversWork /\ Calm /\ Kinds
  BY DEF Init, LockCoversWork, Calm, Kinds, Working

\* A job works under the freeze and its own lock, from the first read to the
\* last write, unless the operator took the lock away.
THEOREM LockHolds == Spec => []LockCoversWork
<1> QED BY TypedInit, TypedStep, LockInit, LockStep, PTL DEF Spec

\* Only the operator clears locks.
LEMMA CalmStep == TypeOK /\ Calm /\ [Next]_vars => Calm'
<1> SUFFICES ASSUME JobsTyped, Calm, [Next]_vars PROVE Calm'
  BY TypeParts
<1>1. CASE Freeze \/ Unfreeze \/ ClearLock
  BY <1>1 DEF Freeze, Unfreeze, ClearLock, Calm
<1>2. CASE UserStep \/ UNCHANGED vars
  <2>1. UNCHANGED flagVars
    BY <1>2 DEF UserStep, RemoveMember, OverrideMember, ClientAdd, ClientRemove, DeleteList, vars
  <2> QED BY <2>1 DEF flagVars, Calm
<1>3. ASSUME NEW j \in Job, Within(j) PROVE Calm'
  BY <1>3, WithinKeeps DEF flagVars, Calm
<1>4. ASSUME NEW j \in Job, Ends(j) PROVE Calm'
  BY <1>4 DEF Ends, Request, Acquire, AcquireFails, Finish, Abort, Crash, Leave, flagVars, Calm
<1> QED BY <1>1, <1>2, <1>3, <1>4, StepsOfAJob DEF Next

LEMMA KindsStep == TypeOK /\ Kinds /\ [Next]_vars => Kinds'
<1> SUFFICES ASSUME JobsTyped, Kinds, [Next]_vars PROVE Kinds'
  BY TypeParts
<1>1. CASE Freeze \/ Unfreeze \/ ClearLock \/ UserStep \/ UNCHANGED vars
  <2>1. UNCHANGED jobVars
    BY <1>1 DEF Freeze, Unfreeze, ClearLock, UserStep, RemoveMember, OverrideMember,
                ClientAdd, ClientRemove, DeleteList, vars
  <2> QED BY <2>1 DEF jobVars, Kinds
<1>2. ASSUME NEW j \in Job, Within(j) PROVE Kinds'
  <2>1. kind' = kind /\ \A k \in Job \ {j} : pc'[k] = pc[k]
    BY <1>2, WithinKeeps
  <2>2. kind[j] \in Kind
    BY DEF JobsTyped
  <2>3. \/ pc[j] \in {"pins", "lists", "write"} /\ pc'[j] \in {"lists", "write"}
        \/ pc[j] = "scan" /\ pc'[j] = "visit"
        \/ pc[j] = "visit" /\ pc'[j] = IF kind[j] = "scrub" THEN "resolve" ELSE "update"
        \/ pc[j] = "resolve" /\ pc'[j] \in {"delete", "visit"}
        \/ pc[j] \in {"delete", "update"} /\ pc'[j] = "visit"
    BY <1>2 DEF Within, ReadPins, ReadLists, WriteMember, WriteFails, ScanLists, ReadMembers, VisitFails,
                ReadOrphans, DeleteOrphans, UpdateCount, JobsTyped
  <2>4. \A k \in Job \ {j} :
          /\ pc'[k] \in {"pins", "lists", "write"} => kind[k] = "backfill"
          /\ pc'[k] \in {"resolve", "delete"} => kind[k] = "scrub"
          /\ pc'[k] = "update" => kind[k] = "reconcile"
          /\ pc'[k] \in {"scan", "visit"} => kind[k] \in {"scrub", "reconcile"}
    BY <2>1 DEF Kinds
  <2>5. /\ pc'[j] \in {"pins", "lists", "write"} => kind[j] = "backfill"
        /\ pc'[j] \in {"resolve", "delete"} => kind[j] = "scrub"
        /\ pc'[j] = "update" => kind[j] = "reconcile"
        /\ pc'[j] \in {"scan", "visit"} => kind[j] \in {"scrub", "reconcile"}
    BY <2>2, <2>3 DEF Kinds, Kind
  <2> QED BY <2>1, <2>4, <2>5 DEF Kinds
<1>3. ASSUME NEW j \in Job, Ends(j) PROVE Kinds'
  <2>1. \A k \in Job \ {j} : pc'[k] = pc[k] /\ kind'[k] = kind[k]
    BY <1>3, EndsKeep
  <2>2. pc'[j] \in {"idle", "asked"} \/ Acquire(j)
    BY <1>3 DEF Ends, Request, AcquireFails, Finish, Abort, Crash, Leave, JobsTyped
  <2>3. Acquire(j) => kind'[j] = kind[j] /\ pc'[j] = IF kind[j] = "backfill" THEN "pins" ELSE "scan"
    BY DEF Acquire, JobsTyped
  <2>4. kind[j] \in Kind
    BY DEF JobsTyped
  <2> QED BY <2>1, <2>2, <2>3, <2>4 DEF Kinds, Kind
<1> QED BY <1>1, <1>2, <1>3, StepsOfAJob DEF Next

-----------------------------------------------------------------------------
(* What a job has read stays true until it writes *)

LEMMA Alone ==
  ASSUME LockCoversWork, Calm, ~hasty, NEW j \in Job, pc[j] \in Working
  PROVE  lock = j /\ frozen = "on" /\ \A k \in Job : pc[k] \in Working => k = j
<1>1. \A k \in Job : pc[k] \in Working => lock = k /\ frozen = "on"
  BY DEF LockCoversWork, Calm
<1> QED BY <1>1

LEMMA Ignorant ==
  ASSUME NEW j \in Job, pc[j] \notin {"lists", "write", "visit", "resolve", "delete", "update"}
  PROVE  FillKnows(j) /\ ScrubKnows(j) /\ CountKnows(j)
  BY DEF FillKnows, ScrubKnows, CountKnows

LEMMA KnowsFrame ==
  ASSUME NEW j \in Job, UNCHANGED docVars,
         pc'[j] = pc[j], kind'[j] = kind[j], todo'[j] = todo[j], left'[j] = left[j], at'[j] = at[j],
         found'[j] = found[j], stored'[j] = stored[j], ok'[j] = ok[j],
         FillKnows(j), ScrubKnows(j), CountKnows(j)
  PROVE  FillKnows(j)' /\ ScrubKnows(j)' /\ CountKnows(j)'
<1>1. FillKnows(j)'
  BY DEF FillKnows, docVars
<1>2. ScrubKnows(j)'
  BY DEF ScrubKnows, docVars
<1>3. CountKnows(j)'
  BY DEF CountKnows, docVars, PinsOf
<1> QED BY <1>1, <1>2, <1>3

LEMMA KnowsDelete ==
  ASSUME DocsTyped, JobsTyped, NEW j \in Job, NEW l \in List, DeleteList(l),
         FillKnows(j), ScrubKnows(j), CountKnows(j)
  PROVE  FillKnows(j)' /\ ScrubKnows(j)' /\ CountKnows(j)'
<1>1. FillKnows(j)'
  BY DEF DeleteList, FillKnows, DocsTyped, Doc, jobVars
<1>2. ScrubKnows(j)'
  BY DEF DeleteList, ScrubKnows, jobVars
<1>3. CountKnows(j)'
  <2>1. \A k \in lists' : k # l /\ k \in lists /\ count'[k] = count[k]
    BY DEF DeleteList, DocsTyped
  <2>2. \A k \in lists' : PinsOf(members', k) = PinsOf(members, k)
    BY <2>1 DEF DeleteList, PinsOf
  <2> QED BY <2>1, <2>2 DEF DeleteList, CountKnows, jobVars
<1> QED BY <1>1, <1>2, <1>3

LEMMA FillWithin ==
  ASSUME DocsTyped, JobsTyped, Kinds, NEW j \in Job, Within(j), FillKnows(j)
  PROVE  FillKnows(j)'
<1>1. CASE ReadPins(j)
  BY <1>1 DEF ReadPins, FillKnows, JobsTyped, docVars
<1>2. CASE ReadLists(j)
  BY <1>2 DEF ReadLists, FillKnows, JobsTyped, docVars
<1>3. CASE WriteMember(j)
  <2>1. PICK d \in todo[j] :
          /\ todo' = [todo EXCEPT ![j] = todo[j] \ {d}]
          /\ IF d[1] \in lists
             THEN members' = members \cup {d} /\ corrupt' = corrupt \ {d} /\ ok' = ok
             ELSE members' = members /\ corrupt' = corrupt /\ ok' = [ok EXCEPT ![j] = FALSE]
    BY <1>3 DEF WriteMember
  <2>2. pc[j] = "write" /\ pc' = pc /\ lists' = lists /\ claims' = claims
    BY <1>3 DEF WriteMember
  <2>3. todo'[j] = todo[j] \ {d}
    BY <2>1 DEF JobsTyped
  <2>4. todo'[j] \subseteq claims'
    BY <2>2, <2>3 DEF FillKnows
  <2>5. ASSUME ok'[j], NEW c \in claims, c[1] \in lists
        PROVE  c \in todo'[j] \/ c \in members' \ corrupt'
    <3>1. CASE d[1] \in lists
      BY <2>1, <2>2, <2>3, <2>5, <3>1 DEF FillKnows
    <3>2. CASE d[1] \notin lists
      BY <2>1, <2>5, <3>2 DEF JobsTyped
    <3> QED BY <3>1, <3>2
  <2> QED BY <2>2, <2>4, <2>5 DEF FillKnows
<1>4. CASE WriteFails(j)
  BY <1>4 DEF WriteFails, FillKnows, JobsTyped, docVars
<1>5. CASE ScanLists(j) \/ ReadMembers(j) \/ VisitFails(j) \/ ReadOrphans(j) \/ DeleteOrphans(j) \/ UpdateCount(j)
  <2>1. pc'[j] \in {"visit", "resolve", "update", "delete"}
    BY <1>5 DEF ScanLists, ReadMembers, VisitFails, ReadOrphans, DeleteOrphans, UpdateCount, JobsTyped
  <2> QED BY <2>1 DEF FillKnows
<1> QED BY <1>1, <1>2, <1>3, <1>4, <1>5 DEF Within

LEMMA ScrubWithin ==
  ASSUME DocsTyped, NoMemberOfDeletedList, JobsTyped, Kinds, NEW j \in Job, Within(j), ScrubKnows(j)
  PROVE  ScrubKnows(j)'
<1>1. CASE ReadPins(j) \/ ReadLists(j) \/ WriteMember(j) \/ WriteFails(j)
  <2>1. pc'[j] \in {"lists", "write"}
    BY <1>1 DEF ReadPins, ReadLists, WriteMember, WriteFails, JobsTyped
  <2> QED BY <2>1 DEF ScrubKnows
<1>2. CASE ScanLists(j)
  <2>1. pc'[j] = "visit" /\ left'[j] = lists /\ members' = members /\ claims' = claims
    BY <1>2 DEF ScanLists, JobsTyped, docVars
  <2>2. \A l \in List, p \in Pin : <<l, p>> \in members => l \in lists
    BY DEF NoMemberOfDeletedList
  <2> QED BY <2>1, <2>2 DEF ScrubKnows
<1>3. CASE ReadMembers(j)
  <2>1. PICK l \in left[j] : /\ left'[j] = left[j] \ {l} /\ at'[j] = l
                             /\ found'[j] = PinsOf(members, l)
    BY <1>3 DEF ReadMembers, JobsTyped
  <2>2. /\ pc[j] = "visit" /\ pc'[j] \in {"resolve", "update"} /\ kind'[j] = kind[j] /\ ok'[j] = ok[j]
        /\ members' = members /\ claims' = claims
        /\ pc'[j] = "update" => kind[j] # "scrub"
    BY <1>3 DEF ReadMembers, JobsTyped, docVars
  <2> QED BY <2>1, <2>2 DEF ScrubKnows, PinsOf
<1>4. CASE VisitFails(j)
  BY <1>4 DEF VisitFails, ScrubKnows, JobsTyped, docVars
<1>5. CASE ReadOrphans(j)
  <2>1. /\ pc[j] = "resolve" /\ pc'[j] = "delete" /\ found'[j] = found[j] \ PinsOf(claims, at[j])
        /\ at' = at /\ left' = left /\ kind' = kind /\ ok' = ok /\ members' = members /\ claims' = claims
    BY <1>5 DEF ReadOrphans, JobsTyped, docVars
  <2> QED BY <2>1 DEF ScrubKnows, PinsOf
<1>6. CASE DeleteOrphans(j)
  <2>1. PICK done \in SUBSET found[j] :
          /\ members' = members \ ({at[j]} \X done)
          /\ ok'[j] = (ok[j] /\ done = found[j])
    BY <1>6 DEF DeleteOrphans, JobsTyped
  <2>2. /\ pc[j] = "delete" /\ pc'[j] = "visit"
        /\ at' = at /\ left' = left /\ kind' = kind /\ claims' = claims
    BY <1>6 DEF DeleteOrphans, JobsTyped
  <2>3. ASSUME kind[j] = "scrub", ok'[j], NEW l \in List, NEW p \in Pin, <<l, p>> \in members' \ claims
        PROVE  l \in left[j]
    <3>1. ok[j] /\ done = found[j]
      BY <2>1, <2>3
    <3>2. l \in left[j] \/ l = at[j]
      BY <2>1, <2>2, <2>3, <3>1 DEF ScrubKnows
    <3>3. l # at[j]
      BY <2>1, <2>2, <2>3, <3>1 DEF ScrubKnows
    <3> QED BY <3>2, <3>3
  <2> QED BY <2>2, <2>3 DEF ScrubKnows
<1>7. CASE UpdateCount(j)
  <2>1. pc'[j] = "visit" /\ pc[j] = "update" /\ kind' = kind
    BY <1>7 DEF UpdateCount, JobsTyped
  <2>2. kind[j] = "reconcile"
    BY <2>1 DEF Kinds
  <2> QED BY <2>1, <2>2 DEF ScrubKnows
<1> QED BY <1>1, <1>2, <1>3, <1>4, <1>5, <1>6, <1>7 DEF Within

LEMMA CountWithin ==
  ASSUME DocsTyped, JobsTyped, Kinds, NEW j \in Job, Within(j), CountKnows(j)
  PROVE  CountKnows(j)'
<1>1. CASE ReadPins(j) \/ ReadLists(j) \/ WriteMember(j) \/ WriteFails(j)
  <2>1. pc'[j] \in {"lists", "write"}
    BY <1>1 DEF ReadPins, ReadLists, WriteMember, WriteFails, JobsTyped
  <2> QED BY <2>1 DEF CountKnows
<1>2. CASE ScanLists(j)
  <2>1. /\ pc'[j] = "visit" /\ left'[j] = lists /\ kind' = kind
        /\ kind[j] = "reconcile" => stored'[j] = count
        /\ lists' = lists /\ count' = count
    BY <1>2 DEF ScanLists, JobsTyped, docVars
  <2> QED BY <2>1 DEF CountKnows
<1>3. CASE ReadMembers(j)
  <2>1. PICK l \in left[j] : /\ left'[j] = left[j] \ {l} /\ at'[j] = l
                             /\ found'[j] = PinsOf(members, l)
    BY <1>3 DEF ReadMembers, JobsTyped
  <2>2. /\ pc[j] = "visit" /\ pc'[j] = IF kind[j] = "scrub" THEN "resolve" ELSE "update"
        /\ kind' = kind /\ ok' = ok /\ stored' = stored
        /\ UNCHANGED docVars
    BY <1>3 DEF ReadMembers, JobsTyped
  <2>3. \A k \in List : PinsOf(members', k) = PinsOf(members, k)
    BY <2>2 DEF PinsOf, docVars
  <2>4. lists \subseteq List /\ l \in List
    BY DEF DocsTyped, JobsTyped
  <2> QED BY <2>1, <2>2, <2>3, <2>4 DEF CountKnows, docVars
<1>4. CASE VisitFails(j)
  <2>1. /\ pc[j] \in {"resolve", "delete", "update"} /\ pc'[j] = "visit" /\ ok'[j] = FALSE
        /\ kind' = kind /\ left' = left /\ stored' = stored
        /\ UNCHANGED docVars
    BY <1>4 DEF VisitFails, JobsTyped
  <2>2. kind[j] = "reconcile" => pc[j] = "update"
    BY <2>1 DEF Kinds
  <2> QED BY <2>1, <2>2 DEF CountKnows, docVars
<1>5. CASE ReadOrphans(j) \/ DeleteOrphans(j)
  <2>1. pc[j] \in {"resolve", "delete"} /\ pc'[j] \in {"delete", "visit"} /\ kind' = kind
    BY <1>5 DEF ReadOrphans, DeleteOrphans, JobsTyped
  <2>2. kind[j] = "scrub"
    BY <2>1 DEF Kinds
  <2> QED BY <2>1, <2>2 DEF CountKnows
<1>6. CASE UpdateCount(j)
  <2> DEFINE n == Cardinality(found[j])
  <2>1. /\ pc[j] = "update" /\ pc'[j] = "visit"
        /\ kind' = kind /\ left' = left /\ stored' = stored /\ lists' = lists /\ members' = members
        /\ count' = IF stored[j][at[j]] # n /\ at[j] \in lists THEN [count EXCEPT ![at[j]] = n] ELSE count
        /\ ok'[j] => ok[j]
    BY <1>6 DEF UpdateCount, JobsTyped
  <2>2. kind[j] = "reconcile" /\ at[j] \in List
    BY <2>1 DEF Kinds, JobsTyped
  <2>3. ASSUME at[j] \in lists
        PROVE  count'[at[j]] = n /\ n = Cardinality(PinsOf(members, at[j]))
    <3>1. stored[j][at[j]] = count[at[j]] /\ found[j] = PinsOf(members, at[j])
      BY <2>1, <2>2, <2>3 DEF CountKnows
    <3> QED BY <2>1, <2>2, <2>3, <3>1 DEF DocsTyped
  <2>4. \A l \in lists : l # at[j] => count'[l] = count[l]
    BY <2>1 DEF DocsTyped
  <2>5. ASSUME NEW l \in lists, l \notin left[j], ok'[j]
        PROVE  count'[l] = Cardinality(PinsOf(members', l))
    BY <2>1, <2>2, <2>3, <2>4, <2>5, ZenonT(60) DEF CountKnows, PinsOf
  <2>6. ASSUME NEW l \in lists, l \in left[j]
        PROVE  stored[j][l] = count'[l]
    <3>1. stored[j][l] = count[l]
      BY <2>1, <2>2, <2>6 DEF CountKnows
    <3>2. l # at[j]
      BY <2>1, <2>6 DEF CountKnows
    <3> QED BY <2>4, <3>1, <3>2
  <2> QED BY <2>1, <2>5, <2>6 DEF CountKnows
<1> QED BY <1>1, <1>2, <1>3, <1>4, <1>5, <1>6 DEF Within

\* Under a working job, of the users only the one who deletes a list acts.
LEMMA UsersWait ==
  ASSUME UserStep, frozen = "on"
  PROVE  \E l \in List : DeleteList(l)
  BY DEF UserStep, RemoveMember, OverrideMember, ClientAdd, ClientRemove, Sound

LEMMA HastyStays == JobsTyped /\ [Next]_vars => (hasty => hasty')
<1> SUFFICES ASSUME JobsTyped, [Next]_vars, hasty PROVE hasty'
  OBVIOUS
<1>1. CASE Freeze \/ Unfreeze \/ ClearLock \/ UserStep \/ UNCHANGED vars
  BY <1>1 DEF Freeze, Unfreeze, ClearLock, UserStep, RemoveMember, OverrideMember,
              ClientAdd, ClientRemove, DeleteList, flagVars, vars
<1>2. ASSUME NEW j \in Job, Within(j) \/ Ends(j) PROVE hasty'
  BY <1>2, WithinKeeps, EndsKeep DEF flagVars
<1> QED BY <1>1, <1>2, StepsOfAJob DEF Next

LEMMA KnowsStep ==
  DocsTyped /\ JobsTyped /\ LockCoversWork /\ Calm /\ Kinds /\ NoMemberOfDeletedList /\ Knows
    /\ [Next]_vars => Knows'
<1> SUFFICES ASSUME DocsTyped, JobsTyped, LockCoversWork, Calm, Kinds, NoMemberOfDeletedList, Knows,
                    [Next]_vars, ~hasty', NEW j \in Job
             PROVE  FillKnows(j)' /\ ScrubKnows(j)' /\ CountKnows(j)'
  BY DEF Knows
<1>1. ~hasty /\ FillKnows(j) /\ ScrubKnows(j) /\ CountKnows(j)
  BY HastyStays DEF Knows
<1>2. CASE UNCHANGED <<docVars, jobVars>>
  BY <1>1, <1>2, KnowsFrame DEF jobVars
<1>3. CASE pc'[j] \notin Working
  <2>1. pc'[j] \notin {"lists", "write", "visit", "resolve", "delete", "update"}
    BY <1>3 DEF Working
  <2> QED BY <2>1 DEF FillKnows, ScrubKnows, CountKnows
<1>4. CASE UserStep /\ pc'[j] \in Working
  <2>1. pc[j] \in Working
    BY <1>4 DEF UserStep, RemoveMember, OverrideMember, ClientAdd, ClientRemove, DeleteList, jobVars
  <2>2. PICK l \in List : DeleteList(l)
    BY <1>1, <1>4, <2>1, Alone, UsersWait
  <2> QED BY <1>1, <2>2, KnowsDelete
<1>5. ASSUME NEW k \in Job, Within(k), pc'[j] \in Working
      PROVE  FillKnows(j)' /\ ScrubKnows(j)' /\ CountKnows(j)'
  <2>1. pc[k] \in Working /\ (j # k => pc[j] \in Working)
    BY <1>5, WithinKeeps
  <2>2. j = k
    BY <1>1, <2>1, Alone
  <2> QED BY <1>1, <1>5, <2>2, FillWithin, ScrubWithin, CountWithin
<1>6. ASSUME NEW k \in Job, Ends(k), pc'[j] \in Working
      PROVE  FillKnows(j)' /\ ScrubKnows(j)' /\ CountKnows(j)'
  <2>1. CASE j = k
    <3>1. pc'[j] \in {"pins", "scan"}
      BY <1>6, <2>1, EndsKeep DEF Acquire, JobsTyped
    <3> QED BY <3>1 DEF FillKnows, ScrubKnows, CountKnows
  <2>2. CASE j # k
    BY <1>1, <1>6, <2>2, EndsKeep, KnowsFrame
  <2> QED BY <2>1, <2>2
<1>7. CASE Freeze \/ Unfreeze \/ ClearLock \/ UNCHANGED vars
  BY <1>2, <1>7 DEF Freeze, Unfreeze, ClearLock, vars
<1> QED BY <1>3, <1>4, <1>5, <1>6, <1>7, StepsOfAJob DEF Next

-----------------------------------------------------------------------------
(* Member documents and their lists *)

LEMMA DeletedStep == TypeOK /\ NoMemberOfDeletedList /\ [Next]_vars => NoMemberOfDeletedList'
<1> SUFFICES ASSUME DocsTyped, JobsTyped, NoMemberOfDeletedList, [Next]_vars
             PROVE  NoMemberOfDeletedList'
  BY TypeParts
<1>1. CASE UNCHANGED <<lists, members>>
  BY <1>1 DEF NoMemberOfDeletedList
<1>2. CASE UserStep
  <2>1. ASSUME NEW l \in List, NEW p \in Pin,
               RemoveMember(l, p) \/ OverrideMember(l, p) \/ ClientAdd(l, p) \/ ClientRemove(l, p)
        PROVE  NoMemberOfDeletedList'
    BY <2>1 DEF RemoveMember, OverrideMember, ClientAdd, ClientRemove, NoMemberOfDeletedList
  <2>2. ASSUME NEW l \in List, DeleteList(l) PROVE NoMemberOfDeletedList'
    BY <2>2 DEF DeleteList, NoMemberOfDeletedList, DocsTyped, Doc
  <2> QED BY <1>2, <2>1, <2>2 DEF UserStep
<1>3. ASSUME NEW j \in Job, WriteMember(j) PROVE NoMemberOfDeletedList'
  BY <1>3 DEF WriteMember, NoMemberOfDeletedList
<1>4. ASSUME NEW j \in Job, DeleteOrphans(j) PROVE NoMemberOfDeletedList'
  BY <1>4 DEF DeleteOrphans, NoMemberOfDeletedList
<1>5. ASSUME NEW j \in Job, JobStep(j), ~WriteMember(j), ~DeleteOrphans(j)
      PROVE  UNCHANGED <<lists, members>>
  BY <1>5 DEF JobStep, Request, Acquire, AcquireFails, Finish, Abort, Crash, ReadPins, ReadLists,
              WriteFails, ScanLists, ReadMembers, VisitFails, ReadOrphans, UpdateCount, docVars
<1>6. CASE Freeze \/ Unfreeze \/ ClearLock \/ UNCHANGED vars
  BY <1>1, <1>6 DEF Freeze, Unfreeze, ClearLock, vars, docVars
<1> QED BY <1>1, <1>2, <1>3, <1>4, <1>5, <1>6 DEF Next

LEMMA DeletedInit == Init => NoMemberOfDeletedList
  BY DEF Init, NoMemberOfDeletedList

\* No member document is ever written below a deleted list.
THEOREM DeletedListsStayEmpty == Spec => []NoMemberOfDeletedList
<1> QED BY TypedInit, TypedStep, DeletedInit, DeletedStep, PTL DEF Spec

-----------------------------------------------------------------------------
(* The promises of the migration *)

LEMMA PinsAreCounted == ASSUME NEW docs, NEW l, NEW p
  PROVE /\ Cardinality(PinsOf(docs, l)) \in Nat
        /\ p \notin PinsOf(docs, l)
             => Cardinality(PinsOf(docs, l) \cup {p}) = Cardinality(PinsOf(docs, l)) + 1
        /\ p \in PinsOf(docs, l)
             => Cardinality(PinsOf(docs, l) \ {p}) = Cardinality(PinsOf(docs, l)) - 1
<1>1. PinsOf(docs, l) \subseteq Pin
  BY DEF PinsOf
<1>2. IsFiniteSet(PinsOf(docs, l)) /\ Cardinality(PinsOf(docs, l)) \in Nat
  BY <1>1, Counted
<1>3. p \notin PinsOf(docs, l) => Cardinality(PinsOf(docs, l) \cup {p}) = Cardinality(PinsOf(docs, l)) + 1
  BY <1>2, FS_AddElement
<1>4. p \in PinsOf(docs, l) => Cardinality(PinsOf(docs, l) \ {p}) = Cardinality(PinsOf(docs, l)) - 1
  BY <1>2, FS_RemoveElement
<1> QED BY <1>2, <1>3, <1>4

Covered == \A d \in claims : d[1] \in lists => d \in members \ corrupt
Claimed == members \subseteq claims
Agreeing == \A l \in lists : count[l] = Cardinality(PinsOf(members, l))

LEMMA StagesInParts ==
  StagesHold <=> \/ hasty
                 \/ /\ stage # "none" => Covered
                    /\ stage \in {"scrubbed", "agreed"} => Claimed
                    /\ stage = "agreed" => Agreeing
  BY DEF StagesHold, Covered, Claimed, Agreeing

\* A removal, by an editor or by the app.
LEMMA RemovalKeeps ==
  ASSUME DocsTyped, NEW l \in List, NEW p \in Pin, RemoveMember(l, p) \/ ClientRemove(l, p)
  PROVE  /\ Covered => Covered'
         /\ Claimed => Claimed'
         /\ Covered /\ Agreeing => Agreeing'
<1>1. /\ lists' = lists /\ l \in lists /\ <<l, p>> \in claims
      /\ members' = members \ {<<l, p>>} /\ claims' = claims \ {<<l, p>>}
      /\ corrupt' \subseteq corrupt /\ count' = [count EXCEPT ![l] = @ - 1]
  BY DEF RemoveMember, ClientRemove, Sound
<1>2. (Covered => Covered') /\ (Claimed => Claimed')
  BY <1>1 DEF Covered, Claimed
<1>3. ASSUME Covered, Agreeing, NEW k \in lists
      PROVE  count'[k] = Cardinality(PinsOf(members', k))
  <2>1. k \in List /\ PinsOf(members', k) = IF k = l THEN PinsOf(members, k) \ {p} ELSE PinsOf(members, k)
    BY <1>1 DEF DocsTyped, PinsOf
  <2>2. p \in PinsOf(members, l)
    BY <1>1, <1>3 DEF Covered, PinsOf
  <2>3. count[k] = Cardinality(PinsOf(members, k))
    BY <1>3 DEF Agreeing
  <2>4. CASE k = l
    BY <1>1, <2>1, <2>2, <2>3, <2>4, PinsAreCounted, ZenonT(60) DEF DocsTyped
  <2>5. CASE k # l
    BY <1>1, <2>1, <2>3, <2>5 DEF DocsTyped
  <2> QED BY <2>4, <2>5
<1> QED BY <1>1, <1>2, <1>3 DEF Agreeing

LEMMA AdditionKeeps ==
  ASSUME DocsTyped, NEW l \in List, NEW p \in Pin, ClientAdd(l, p)
  PROVE  /\ Covered => Covered'
         /\ Claimed => Claimed'
         /\ Claimed /\ Agreeing => Agreeing'
<1>1. /\ lists' = lists /\ l \in lists /\ <<l, p>> \notin claims
      /\ members' = members \cup {<<l, p>>} /\ claims' = claims \cup {<<l, p>>}
      /\ corrupt' = corrupt \ {<<l, p>>}
      /\ count' = [count EXCEPT ![l] = IF @ = NoCount THEN 1 ELSE @ + 1]
  BY DEF ClientAdd
<1>2. (Covered => Covered') /\ (Claimed => Claimed')
  BY <1>1 DEF Covered, Claimed
<1>3. ASSUME Claimed, Agreeing, NEW k \in lists
      PROVE  count'[k] = Cardinality(PinsOf(members', k))
  <2>1. k \in List /\ PinsOf(members', k) = IF k = l THEN PinsOf(members, k) \cup {p} ELSE PinsOf(members, k)
    BY <1>1 DEF DocsTyped, PinsOf
  <2>2. p \notin PinsOf(members, l)
    BY <1>1, <1>3 DEF Claimed, PinsOf
  <2>3. count[k] = Cardinality(PinsOf(members, k)) /\ count[k] # NoCount
    <3>1. Cardinality(PinsOf(members, k)) \in Nat
      BY Counted DEF PinsOf
    <3> QED BY <1>3, <3>1, ListAssumption DEF Agreeing
  <2>4. CASE k = l
    BY <1>1, <2>1, <2>2, <2>3, <2>4, PinsAreCounted DEF DocsTyped
  <2>5. CASE k # l
    BY <1>1, <2>1, <2>3, <2>5 DEF DocsTyped
  <2> QED BY <2>4, <2>5
<1> QED BY <1>1, <1>2, <1>3 DEF Agreeing

LEMMA DeletionKeeps ==
  ASSUME DocsTyped, NEW l \in List, DeleteList(l)
  PROVE  (Covered => Covered') /\ (Claimed => Claimed') /\ (Agreeing => Agreeing')
<1>1. Covered => Covered'
  BY DEF DeleteList, Covered, DocsTyped, Doc
<1>2. Claimed => Claimed'
  BY DEF DeleteList, Claimed
<1>3. ASSUME Agreeing, NEW k \in lists' PROVE count'[k] = Cardinality(PinsOf(members', k))
  <2>1. k \in lists /\ k # l /\ count'[k] = count[k]
    BY <1>3 DEF DeleteList, DocsTyped
  <2>2. PinsOf(members', k) = PinsOf(members, k)
    BY <2>1 DEF DeleteList, PinsOf
  <2> QED BY <1>3, <2>1, <2>2 DEF Agreeing
<1> QED BY <1>1, <1>2, <1>3 DEF Agreeing

\* The writes of a job keep what has been reached.
LEMMA WritesKeep ==
  ASSUME DocsTyped, JobsTyped, NEW j \in Job, Within(j), FillKnows(j), ScrubKnows(j), CountKnows(j)
  PROVE  /\ Covered => Covered'
         /\ Claimed => Claimed'
         /\ Covered /\ Claimed /\ Agreeing => Agreeing'
<1>1. CASE WriteMember(j)
  <2>1. PICK d \in todo[j] :
          \/ d[1] \in lists /\ members' = members \cup {d} /\ corrupt' = corrupt \ {d}
          \/ members' = members /\ corrupt' = corrupt
    BY <1>1 DEF WriteMember
  <2>2. lists' = lists /\ claims' = claims /\ count' = count /\ d \in claims
    BY <1>1 DEF WriteMember, FillKnows
  <2>3. (Covered => Covered') /\ (Claimed => Claimed')
    BY <2>1, <2>2 DEF Covered, Claimed
  <2>4. Covered => members' = members
    BY <2>1, <2>2 DEF Covered
  <2> QED BY <2>2, <2>3, <2>4 DEF Agreeing, PinsOf
<1>2. CASE DeleteOrphans(j)
  <2>1. PICK done \in SUBSET found[j] :
          members' = members \ ({at[j]} \X done) /\ corrupt' = corrupt \ ({at[j]} \X done)
    BY <1>2 DEF DeleteOrphans
  <2>2. lists' = lists /\ claims' = claims /\ count' = count
    BY <1>2 DEF DeleteOrphans
  <2>3. \A p \in done : <<at[j], p>> \notin claims
    BY <1>2 DEF DeleteOrphans, ScrubKnows, JobsTyped
  <2>4. (Covered => Covered') /\ (Claimed => Claimed')
    BY <2>1, <2>2, <2>3 DEF Covered, Claimed
  <2>5. Claimed => members' = members
    BY <2>1, <2>3 DEF Claimed
  <2> QED BY <2>2, <2>4, <2>5 DEF Agreeing, PinsOf
<1>3. CASE UpdateCount(j)
  <2>1. /\ lists' = lists /\ claims' = claims /\ members' = members /\ corrupt' = corrupt
        /\ pc[j] = "update"
        /\ \/ count' = count
           \/ at[j] \in lists /\ count' = [count EXCEPT ![at[j]] = Cardinality(found[j])]
    BY <1>3 DEF UpdateCount
  <2>2. at[j] \in lists => found[j] = PinsOf(members, at[j])
    BY <2>1 DEF CountKnows
  <2>3. ASSUME Agreeing, NEW k \in lists PROVE count'[k] = Cardinality(PinsOf(members', k))
    BY <2>1, <2>2, <2>3 DEF Agreeing, DocsTyped, PinsOf
  <2> QED BY <2>1, <2>3 DEF Covered, Claimed, Agreeing
<1>4. CASE \/ ReadPins(j) \/ ReadLists(j) \/ WriteFails(j) \/ ScanLists(j)
           \/ ReadMembers(j) \/ VisitFails(j) \/ ReadOrphans(j)
  <2>1. UNCHANGED docVars
    BY <1>4 DEF ReadPins, ReadLists, WriteFails, ScanLists, ReadMembers, VisitFails, ReadOrphans
  <2> QED BY <2>1 DEF docVars, Covered, Claimed, Agreeing, PinsOf
<1> QED BY <1>1, <1>2, <1>3, <1>4 DEF Within

\* The clean end of a job reaches the next stage.
LEMMA FinishReaches ==
  ASSUME DocsTyped, JobsTyped, Kinds, NEW j \in Job, Finish(j),
         FillKnows(j), ScrubKnows(j), CountKnows(j)
  PROVE  \/ stage' = stage
         \/ stage = "none" /\ stage' = "filled" /\ Covered
         \/ stage = "filled" /\ stage' = "scrubbed" /\ Claimed
         \/ stage = "scrubbed" /\ stage' = "agreed" /\ Agreeing
<1>1. CASE ~ok[j]
  BY <1>1 DEF Finish
<1>2. CASE ok[j] /\ kind[j] = "backfill"
  <2>1. pc[j] = "write" /\ todo[j] = {}
    BY <1>2 DEF Finish, Kinds
  <2>2. Covered
    BY <1>2, <2>1 DEF FillKnows, Covered
  <2> QED BY <1>2, <2>2 DEF Finish, Advance
<1>3. CASE ok[j] /\ kind[j] = "scrub"
  <2>1. pc[j] = "visit" /\ left[j] = {}
    BY <1>3 DEF Finish, Kinds
  <2>2. Claimed
    BY <1>3, <2>1 DEF ScrubKnows, Claimed, DocsTyped, Doc
  <2> QED BY <1>3, <2>2 DEF Finish, Advance
<1>4. CASE ok[j] /\ kind[j] = "reconcile"
  <2>1. pc[j] = "visit" /\ left[j] = {}
    BY <1>4 DEF Finish, Kinds
  <2>2. Agreeing
    BY <1>4, <2>1 DEF CountKnows, Agreeing
  <2> QED BY <1>4, <2>2 DEF Finish, Advance
<1> QED BY <1>1, <1>2, <1>3, <1>4 DEF JobsTyped, Kind

LEMMA SameDocs ==
  ASSUME UNCHANGED <<lists, claims, members, corrupt, count>>
  PROVE  Covered' = Covered /\ Claimed' = Claimed /\ Agreeing' = Agreeing
  BY DEF Covered, Claimed, Agreeing, PinsOf

LEMMA StagesStep ==
  TypeOK /\ Kinds /\ Knows /\ StagesHold /\ [Next]_vars => StagesHold'
<1> DEFINE Reached(s) == /\ s # "none" => Covered
                         /\ s \in {"scrubbed", "agreed"} => Claimed
                         /\ s = "agreed" => Agreeing
           Kept == /\ Covered => Covered'
                   /\ Claimed => Claimed'
                   /\ Covered /\ Claimed /\ Agreeing => Agreeing'
<1> SUFFICES ASSUME DocsTyped, FlagsTyped, JobsTyped, Kinds, Knows, StagesHold, [Next]_vars, ~hasty'
             PROVE  StagesHold'
  BY TypeParts DEF StagesHold
<1>1. ~hasty /\ Reached(stage)
  BY HastyStays, StagesInParts
<1>2. ASSUME NEW s, s = stage', Reached(s), Kept PROVE StagesHold'
  BY <1>2 DEF StagesHold, Covered, Claimed, Agreeing
<1> HIDE DEF Reached
<1>3. CASE Freeze \/ Unfreeze \/ ClearLock \/ UNCHANGED vars
  <2>1. UNCHANGED <<lists, claims, members, corrupt, count>>
    BY <1>3 DEF Freeze, Unfreeze, ClearLock, vars, docVars
  <2>2. stage' \in {stage, "none"}
    BY <1>3 DEF Freeze, Unfreeze, ClearLock, vars, flagVars
  <2>3. Reached(stage')
    BY <1>1, <2>2 DEF Reached
  <2> QED BY <1>2, <2>1, <2>3, SameDocs
<1>4. CASE UserStep
  <2>1. stage' = stage
    BY <1>4 DEF UserStep, RemoveMember, OverrideMember, ClientAdd, ClientRemove, DeleteList, flagVars
  <2>2. ASSUME NEW l \in List, NEW p \in Pin, OverrideMember(l, p) PROVE Kept
    BY <2>2, SameDocs DEF OverrideMember
  <2>3. Kept
    BY <1>4, <2>2, RemovalKeeps, AdditionKeeps, DeletionKeeps DEF UserStep
  <2> QED BY <1>1, <1>2, <2>1, <2>3
<1>5. ASSUME NEW j \in Job, Within(j) PROVE StagesHold'
  <2>1. stage' = stage
    BY <1>5, WithinKeeps DEF flagVars
  <2>2. Kept
    BY <1>1, <1>5, WritesKeep DEF Knows
  <2> QED BY <1>1, <1>2, <2>1, <2>2
<1>6. ASSUME NEW j \in Job, Ends(j) PROVE StagesHold'
  <2>1. UNCHANGED <<lists, claims, members, corrupt, count>>
    BY <1>6, EndsKeep DEF docVars
  <2>2. CASE Finish(j)
    <3>1. \/ stage' = stage
          \/ stage = "none" /\ stage' = "filled" /\ Covered
          \/ stage = "filled" /\ stage' = "scrubbed" /\ Claimed
          \/ stage = "scrubbed" /\ stage' = "agreed" /\ Agreeing
      BY <1>1, <2>2, FinishReaches DEF Knows
    <3>2. Reached(stage')
      BY <1>1, <3>1 DEF Reached
    <3> QED BY <1>2, <2>1, <3>2, SameDocs
  <2>3. CASE ~Finish(j)
    <3>1. stage' = stage
      BY <1>6, <2>3 DEF Ends, Request, Acquire, AcquireFails, Abort, Crash, flagVars
    <3> QED BY <1>1, <1>2, <2>1, <3>1, SameDocs
  <2> QED BY <2>2, <2>3
<1> QED BY <1>3, <1>4, <1>5, <1>6, StepsOfAJob DEF Next

LEMMA InvInit == Init => IInv
<1> SUFFICES ASSUME Init PROVE IInv
  OBVIOUS
<1>1. StagesHold
  BY DEF Init, StagesHold
<1>2. Knows
  BY DEF Init, Knows, FillKnows, ScrubKnows, CountKnows
<1> QED BY <1>1, <1>2, TypedInit, LockInit, DeletedInit DEF IInv

LEMMA InvStep == IInv /\ [Next]_vars => IInv'
<1> SUFFICES ASSUME IInv, [Next]_vars PROVE IInv'
  OBVIOUS
<1>1. TypeOK' /\ LockCoversWork' /\ Calm' /\ Kinds' /\ NoMemberOfDeletedList'
  BY TypedStep, LockStep, CalmStep, KindsStep, DeletedStep DEF IInv
<1>2. Knows' /\ StagesHold'
  BY KnowsStep, StagesStep, TypeParts DEF IInv
<1> QED BY <1>1, <1>2 DEF IInv

LEMMA InvHolds == Spec => []IInv
<1> QED BY InvInit, InvStep, PTL DEF Spec

\* What a clean backfill, scrub and reconcile promise in turn is true when
\* they end and stays true, whatever users and later jobs do, unless the
\* operator clears the lock of a running job.
THEOREM StagesReached == Spec => []StagesHold
<1>1. IInv => StagesHold
  BY DEF IInv
<1> QED BY <1>1, InvHolds, PTL

-----------------------------------------------------------------------------
(* What single steps never do *)

LEMMA ClaimsStep ==
  TypeOK /\ Knows /\ [Next]_vars
    => (hasty \/ \A d \in members \ members' : d[1] \notin lists' \/ d \notin claims')
<1> SUFFICES ASSUME DocsTyped, JobsTyped, Knows, [Next]_vars, ~hasty, NEW d \in members \ members'
             PROVE  d[1] \notin lists' \/ d \notin claims'
  BY TypeParts
<1>1. ASSUME NEW l \in List, NEW p \in Pin,
             RemoveMember(l, p) \/ OverrideMember(l, p) \/ ClientAdd(l, p) \/ ClientRemove(l, p)
      PROVE  d \notin claims'
  BY <1>1 DEF RemoveMember, OverrideMember, ClientAdd, ClientRemove
<1>2. ASSUME NEW l \in List, DeleteList(l) PROVE d[1] \notin lists'
  BY <1>2 DEF DeleteList, DocsTyped, Doc
<1>3. ASSUME NEW j \in Job, DeleteOrphans(j) PROVE d \notin claims'
  <2>1. claims' = claims /\ d \in {at[j]} \X found[j]
    BY <1>3 DEF DeleteOrphans
  <2>2. \A p \in found[j] : <<at[j], p>> \notin claims
    BY <1>3 DEF DeleteOrphans, Knows, ScrubKnows, JobsTyped
  <2> QED BY <2>1, <2>2
<1>4. ASSUME NEW j \in Job, JobStep(j), ~DeleteOrphans(j) PROVE FALSE
  BY <1>4 DEF JobStep, Request, Acquire, AcquireFails, Finish, Abort, Crash, ReadPins, ReadLists,
              WriteMember, WriteFails, ScanLists, ReadMembers, VisitFails, ReadOrphans, UpdateCount, docVars
<1>5. CASE Freeze \/ Unfreeze \/ ClearLock \/ UNCHANGED vars
  BY <1>5 DEF Freeze, Unfreeze, ClearLock, vars, docVars
<1> QED BY <1>1, <1>2, <1>3, <1>4, <1>5 DEF Next, UserStep

\* A member document goes only with its list or its claim: what a scrub read
\* of the claims is still so when it deletes.
THEOREM ClaimsKept == Spec => MembersFollowClaims
<1>1. IInv /\ [Next]_vars
        => [hasty \/ \A d \in members \ members' : d[1] \notin lists' \/ d \notin claims']_vars
  BY ClaimsStep DEF IInv
<1> QED BY <1>1, InvHolds, PTL DEF Spec, MembersFollowClaims

LEMMA OverridesStep ==
  TypeOK /\ [Next]_vars => (frozen = "on" => edited \ edited' \subseteq members \ members')
<1> SUFFICES ASSUME DocsTyped, [Next]_vars, frozen = "on"
             PROVE  edited \ edited' \subseteq members \ members'
  BY TypeParts
<1>1. CASE UserStep
  <2>1. PICK l \in List : DeleteList(l)
    BY <1>1, UsersWait
  <2> QED BY <2>1 DEF DeleteList, DocsTyped
<1>2. ASSUME NEW j \in Job, DeleteOrphans(j) PROVE edited \ edited' \subseteq members \ members'
  BY <1>2 DEF DeleteOrphans, DocsTyped
<1>3. ASSUME NEW j \in Job, JobStep(j), ~DeleteOrphans(j) PROVE edited' = edited
  BY <1>3 DEF JobStep, Request, Acquire, AcquireFails, Finish, Abort, Crash, ReadPins, ReadLists,
              WriteMember, WriteFails, ScanLists, ReadMembers, VisitFails, ReadOrphans, UpdateCount, docVars
<1>4. CASE Freeze \/ Unfreeze \/ ClearLock \/ UNCHANGED vars
  BY <1>4 DEF Freeze, Unfreeze, ClearLock, vars, docVars
<1> QED BY <1>1, <1>2, <1>3, <1>4 DEF Next

\* No list loses its overrides during a freeze but with the member itself.
THEOREM OverridesKept == Spec => MigrationKeepsOverrides
<1>1. TypeOK /\ [Next]_vars
        => [frozen = "on" => edited \ edited' \subseteq members \ members']_vars
  BY OverridesStep
<1> QED BY <1>1, TypeCorrect, PTL DEF Spec, MigrationKeepsOverrides
=============================================================================
