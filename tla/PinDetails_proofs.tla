------------------------- MODULE PinDetails_proofs -------------------------
(***************************************************************************)
(* Proofs about PinDetails, for any workers, places, re-creations of the   *)
(* pin and retries.                                                        *)
(***************************************************************************)
EXTENDS PinDetails, TLAPS

-----------------------------------------------------------------------------
(* Types *)

Typed == /\ pin \in Pin /\ task \in Task /\ job \in [Worker -> Job \cup {NoJob}]
         /\ gens \in Gen /\ user \in BOOLEAN
         /\ asks \subseteq Gen \X Rev
         /\ paid \in [Gen \X Rev -> Nat]

LEMMA Bounds == Gen \subseteq Nat /\ Rev \subseteq Nat /\ 1 \in Gen /\ 1 \in Rev
                /\ (\A g \in Gen : g >= 1) /\ (\A r \in Rev : r >= 1)
                /\ (\A g \in Gen : g < MaxGen => g + 1 \in Gen) /\ (\A r \in Rev : r < MaxRev => r + 1 \in Rev)
  BY DetailsConstants DEF Gen, Rev

LEMMA NewDocuments == \A g \in Gen, p \in Place : NewPin(g, p) \in Pin /\ NewTask(g, p) \in Task
  BY Bounds, DetailsConstants DEF NewPin, NewTask, Pin, Task, Gen

LEMMA TypedInit == Init => Typed
  BY NewDocuments, Bounds DEF Init, Typed

LEMMA CancelTyped == ASSUME Typed, Cancel PROVE pin' \in Pin /\ task' \in Task
<1>1. Owned(task) \in Task /\ Cleared(pin) \in Pin
  BY DEF Typed, Owned, Cleared, Pin, Task
<1>2. task' \in Task
  BY <1>1 DEF Cancel, Task
<1>3. pin' \in Pin
  BY <1>1 DEF Typed, Cancel, Pin
<1> QED BY <1>2, <1>3

LEMMA TypedStep == Typed /\ [Next]_vars => Typed'
<1> SUFFICES ASSUME Typed, [Next]_vars PROVE Typed'
  OBVIOUS
<1>0. Owned(task) \in Task /\ Cleared(pin) \in Pin
  BY DEF Typed, Owned, Cleared, Pin, Task
<1>1. ASSUME NEW w \in Worker, Claim(w) \/ AuthorizeDispatch(w) PROVE Typed'
  <2>1. task' \in Task
    BY <1>0, <1>1 DEF Claim, AuthorizeDispatch, Task
  <2>2. job' \in [Worker -> Job \cup {NoJob}]
    BY <1>1 DEF Claim, AuthorizeDispatch, Take, Goto, Job, NoJob, Typed, Task
  <2> QED BY <1>1, <2>1, <2>2 DEF Claim, AuthorizeDispatch, Typed
<1>2. ASSUME NEW w \in Worker, DispatchRefused(w) \/ Send(w) \/ FetchEnds(w) \/ ReadExpired(w) \/ FinishStale(w) \/ Crash(w)
      PROVE  Typed'
  <2>1. job' \in [Worker -> Job \cup {NoJob}]
    BY <1>2 DEF DispatchRefused, Send, FetchEnds, ReadExpired, FinishStale, Crash, Take, Goto, Leave, Job, NoJob, Typed, Task
  <2>2. paid' \in [Gen \X Rev -> Nat]
    BY <1>2 DEF DispatchRefused, Send, FetchEnds, ReadExpired, FinishStale, Crash, Typed
  <2> QED BY <1>2, <2>1, <2>2 DEF DispatchRefused, Send, FetchEnds, ReadExpired, FinishStale, Crash, Typed
<1>3. ASSUME NEW w \in Worker, ClaimCancels(w) \/ FinishCancels(w) PROVE Typed'
  <2>1. job' \in [Worker -> Job \cup {NoJob}]
    BY <1>3 DEF ClaimCancels, FinishCancels, Leave, Typed
  <2> QED BY <1>3, <2>1, CancelTyped DEF ClaimCancels, FinishCancels, Typed
<1>4. ASSUME NEW w \in Worker, FinishFails(w) \/ Finish(w) PROVE Typed'
  <2>1. task' \in Task
    BY <1>0, <1>4 DEF FinishFails, Finish, Task
  <2>2. job' \in [Worker -> Job \cup {NoJob}]
    BY <1>4 DEF FinishFails, Finish, Leave, Typed
  <2>3. pin' \in Pin
    <3>1. CASE FinishFails(w)
      BY <3>1 DEF FinishFails, Typed, Pin, Task
    <3>2. CASE Finish(w)
      <4>1. job[w].place \in Place
        BY <3>2 DEF Finish, Typed, Job, NoJob
      <4>2. Filled(pin, task', job[w].place) \in Pin
        BY <4>1 DEF Filled, Typed, Pin
      <4> QED BY <3>2, <4>2 DEF Finish, Typed, Pin, Task
    <3> QED BY <1>4, <3>1, <3>2
  <2> QED BY <1>4, <2>1, <2>2, <2>3 DEF FinishFails, Finish, Typed
<1>5. CASE DeadlinePasses
  BY <1>5 DEF DeadlinePasses, Typed, Task
<1>6. CASE Ask
  BY <1>6 DEF Ask, Typed, Pin
<1>7. ASSUME NEW m \in asks, Retry(m) PROVE Typed'
  <2> DEFINE fresh == IF Replace THEN Cleared(pin) ELSE pin
  <2>1. fresh \in Pin /\ task.rev + 1 \in Rev
    BY <1>0, <1>7, Bounds DEF Retry, Requeue, Typed, Task
  <2>2. pin' \in Pin
    BY <1>7, <2>1, ZenonT(60) DEF Retry, Requeue, Pin, Task, Typed
  <2>3. task' \in Task
    <3>1. pin.place \in Place /\ fresh.info \in Place \cup {"none", "user"} /\ task.rev + 1 \in Rev
      BY <2>1 DEF Pin, Typed
    <3>2. Owned(task).rev = task.rev /\ (Owned(task).protect \/ Replace) \in BOOLEAN
      BY DEF Owned, Typed, Task
    <3> HIDE DEF fresh
    <3>3. task' = [Owned(task) EXCEPT !.place = pin.place, !.base = IF Replace THEN fresh.info ELSE @,
                !.protect = @ \/ Replace, !.touched = FALSE, !.status = "queued", !.rev = @ + 1,
                !.dispatched = FALSE, !.late = FALSE]
      BY <1>7 DEF Retry, Requeue, fresh
    <3>4. CASE Replace
      BY <1>0, <3>1, <3>2, <3>3, <3>4 DEF Task
    <3>5. CASE ~Replace
      BY <1>0, <3>1, <3>2, <3>3, <3>5 DEF Task, Typed
    <3> QED BY <3>4, <3>5
  <2> QED BY <1>7, <2>2, <2>3 DEF Retry, Requeue, Typed
<1>8. CASE EditCore \/ EditInfo \/ CorrectPlace
  <2>1. ASSUME NEW p \in Pin, Edit(p) PROVE Typed'
    BY <2>1 DEF Edit, Typed, Task
  <2>2. \A v \in {"user", "cleared"} : [pin EXCEPT !.core = v] \in Pin
    BY DEF Typed, Pin
  <2>3. \A marked \in BOOLEAN : [pin EXCEPT !.info = "user", !.edited = @ \/ marked] \in Pin
    BY DEF Typed, Pin
  <2>4. \A p \in Place : [pin EXCEPT !.place = p] \in Pin /\ [pin EXCEPT !.place = p, !.state = "needs_action"] \in Pin
    BY DEF Typed, Pin
  <2> QED BY <1>8, <2>1, <2>2, <2>3, <2>4 DEF EditCore, EditInfo, CorrectPlace
<1>9. CASE DeletePin \/ RestorePin \/ SaveAgain \/ DeleteUser
  <2>1. CASE DeletePin \/ DeleteUser
    <3>1. 0 \in 0..MaxGen
      BY DetailsConstants
    <3> QED BY <2>1, <3>1 DEF DeletePin, DeleteUser, Typed, Pin
  <2>2. CASE RestorePin
    <3>1. gens + 1 \in Gen /\ gens + 1 \in 0..MaxGen
      BY <2>2, Bounds, DetailsConstants DEF RestorePin, Typed, Gen
    <3> QED BY <2>2, <3>1 DEF RestorePin, Typed, Pin
  <2>3. CASE SaveAgain
    BY <2>3, Bounds, NewDocuments DEF SaveAgain, Typed
  <2> QED BY <1>9, <2>1, <2>2, <2>3
<1>10. CASE UNCHANGED vars
  BY <1>10 DEF vars, Typed
<1> QED BY <1>1, <1>2, <1>3, <1>4, <1>5, <1>6, <1>7, <1>8, <1>9, <1>10 DEF Next, WorkerStep, End, UserStep

-----------------------------------------------------------------------------
(* Spend: a revision is claimed once, authorized once and sent once *)

\* The revisions before the task's present one, those of earlier tasks included.
Older(t, r)  == t < task.tid \/ (t = task.tid /\ r < task.rev)
AtTask(t, r) == t = task.tid /\ r = task.rev

\* Work is never ahead of its task, and there is none for a queued revision.
Behind == /\ task.tid <= gens
          /\ \A w \in Worker : job[w].pc # "idle" =>
               \/ Older(job[w].tid, job[w].rev)
               \/ AtTask(job[w].tid, job[w].rev) /\ task.status # "queued" /\ job[w].place = task.place

\* What was sent stays marked as dispatched for as long as its revision is the
\* task's; who has authority is the only one, and has not sent yet.
PaidOnce == \A t \in Gen, r \in Rev :
  /\ paid[<<t, r>>] <= 1
  /\ paid[<<t, r>>] # 0 => Older(t, r) \/ (AtTask(t, r) /\ task.status # "queued" /\ task.dispatched)
Authority == \A w \in Worker : job[w].pc = "authorized" =>
  /\ paid[<<job[w].tid, job[w].rev>>] = 0
  /\ AtTask(job[w].tid, job[w].rev) => task.dispatched
  /\ \A v \in Worker \ {w} : ~(job[v].pc = "authorized" /\ job[v].tid = job[w].tid /\ job[v].rev = job[w].rev)

Asked == \A r \in 2..task.rev : <<task.tid, r - 1>> \in asks

SpendInv == Behind /\ PaidOnce /\ Authority /\ Asked

LEMMA SpendInit == Init => SpendInv
<1> SUFFICES ASSUME Init PROVE SpendInv
  OBVIOUS
<1>1. task.tid = 1 /\ task.rev = 1 /\ gens = 1
  BY DEF Init, NewTask
<1>2. \A w \in Worker : job[w].pc = "idle"
  <2>1. job = [w \in Worker |-> NoJob] /\ NoJob.pc = "idle"
    BY DEF Init, NoJob
  <2> QED BY <2>1
<1>3. \A t \in Gen, r \in Rev : paid[<<t, r>>] = 0
  BY DEF Init
<1> QED BY <1>1, <1>2, <1>3 DEF SpendInv, Behind, PaidOnce, Authority, Asked

LEMMA JobTyped == ASSUME Typed, NEW w \in Worker, job[w].pc # "idle"
                  PROVE  job[w] \in Job /\ job[w].tid \in Gen /\ job[w].rev \in Rev
  BY DEF Typed, Job, NoJob

\* What most steps leave alone of the task, and what they do to a job.
QuietTask == /\ task'.tid = task.tid /\ task'.rev = task.rev /\ task'.place = task.place
             /\ task'.dispatched = task.dispatched
             /\ task.status # "queued" => task'.status # "queued"
QuietJob(w) == \/ job'[w].pc = "idle"
               \/ job'[w] = job[w]
               \/ /\ job[w].pc # "idle" /\ job'[w].pc # "authorized"
                  /\ job'[w].tid = job[w].tid /\ job'[w].rev = job[w].rev /\ job'[w].place = job[w].place
               \/ /\ job'[w].pc = "failed" /\ task.status # "queued"
                  /\ job'[w].tid = task.tid /\ job'[w].rev = task.rev /\ job'[w].place = task.place

LEMMA QuietSpend ==
  ASSUME Typed, SpendInv, QuietTask, \A w \in Worker : QuietJob(w), paid' = paid, asks \subseteq asks',
         gens' \in {gens, gens + 1}
  PROVE  SpendInv'
<1>0. gens \in Nat /\ task.tid \in Nat
  BY Bounds DEF Typed, Task
<1>1. \A t, r : (Older(t, r)' <=> Older(t, r)) /\ (AtTask(t, r)' <=> AtTask(t, r))
  BY DEF QuietTask, Older, AtTask
<1>2. Behind'
  <2> SUFFICES ASSUME NEW w \in Worker, job'[w].pc # "idle"
               PROVE  \/ Older(job'[w].tid, job'[w].rev)
                      \/ /\ AtTask(job'[w].tid, job'[w].rev) /\ task'.status # "queued"
                         /\ job'[w].place = task'.place
    BY <1>0, <1>1 DEF Behind, SpendInv, QuietTask, Older, AtTask
  <2> QED BY DEF Behind, SpendInv, QuietTask, QuietJob, AtTask
<1>3. PaidOnce'
  BY <1>1 DEF PaidOnce, SpendInv, QuietTask, Older, AtTask
<1>4. Authority'
  <2>1. \A w \in Worker : job'[w].pc = "authorized" => job'[w] = job[w]
    BY DEF QuietJob
  <2> QED BY <1>1, <2>1 DEF Authority, SpendInv, QuietTask, AtTask
<1>5. Asked'
  BY DEF Asked, SpendInv, QuietTask
<1> QED BY <1>2, <1>3, <1>4, <1>5 DEF SpendInv

LEMMA OwnedFields == ASSUME Typed
  PROVE  LET t == Owned(task) IN
         /\ t \in Task /\ t.tid = task.tid /\ t.rev = task.rev /\ t.place = task.place /\ t.base = task.base
         /\ t.status = task.status /\ t.dispatched = task.dispatched /\ t.protect = (task.protect \/ task.touched)
         /\ t.touched = task.touched
  BY DEF Typed, Owned, Task

LEMMA CancelQuiet == ASSUME Typed, Cancel PROVE QuietTask
  BY OwnedFields DEF Cancel, QuietTask, Task

\* The steps that neither claim, authorize, send nor ask anew.
Quiet == \/ \E w \in Worker : \/ ClaimCancels(w) \/ DispatchRefused(w) \/ FetchEnds(w) \/ ReadExpired(w)
                              \/ End(w) \/ Crash(w)
         \/ DeadlinePasses \/ Ask \/ EditCore \/ EditInfo \/ CorrectPlace
         \/ DeletePin \/ RestorePin \/ DeleteUser
         \/ UNCHANGED vars

LEMMA QuietSteps == ASSUME Typed, Quiet
  PROVE  QuietTask /\ (\A w \in Worker : QuietJob(w)) /\ paid' = paid /\ asks \subseteq asks' /\ gens' \in {gens, gens + 1}
<1>0. task \in Task /\ job \in [Worker -> Job \cup {NoJob}]
  BY DEF Typed
<1>1. ASSUME NEW w \in Worker, ClaimCancels(w) \/ FinishCancels(w) PROVE QuietTask /\ \A v \in Worker : QuietJob(v)
  <2>1. \A v \in Worker : QuietJob(v)
    BY <1>0, <1>1 DEF ClaimCancels, FinishCancels, Leave, QuietJob, NoJob
  <2> QED BY <1>1, <2>1, CancelQuiet DEF ClaimCancels, FinishCancels
<1>2. ASSUME NEW w \in Worker, DispatchRefused(w) \/ FetchEnds(w) \/ ReadExpired(w) \/ FinishStale(w) \/ Crash(w)
      PROVE  QuietTask /\ \A v \in Worker : QuietJob(v)
  <2>1. QuietTask
    BY <1>2 DEF DispatchRefused, FetchEnds, ReadExpired, FinishStale, Crash, QuietTask
  <2>2. CASE DispatchRefused(w) \/ FetchEnds(w)
    <3>1. PICK l \in {"fetched", "failed"} : Goto(w, l)
      BY <2>2 DEF DispatchRefused, FetchEnds
    <3>2. job[w].pc # "idle" /\ job[w] \in Job
      BY <2>2, JobTyped DEF DispatchRefused, FetchEnds
    <3>3. job'[w] = [job[w] EXCEPT !.pc = l] /\ \A v \in Worker \ {w} : job'[v] = job[v]
      BY <1>0, <3>1 DEF Goto
    <3> QED BY <2>1, <3>2, <3>3 DEF QuietJob, Job
  <2>3. CASE ReadExpired(w)
    <3>1. job'[w] = [pc |-> "failed", tid |-> task.tid, rev |-> task.rev, place |-> task.place]
          /\ \A v \in Worker \ {w} : job'[v] = job[v]
      BY <1>0, <2>3 DEF ReadExpired, Take
    <3> QED BY <2>1, <2>3, <3>1 DEF QuietJob, ReadExpired
  <2>4. CASE FinishStale(w) \/ Crash(w)
    BY <1>0, <2>1, <2>4 DEF FinishStale, Crash, Leave, QuietJob, NoJob
  <2> QED BY <1>2, <2>2, <2>3, <2>4
<1>3. ASSUME NEW w \in Worker, FinishFails(w) \/ Finish(w) PROVE QuietTask /\ \A v \in Worker : QuietJob(v)
  <2>1. QuietTask
    BY <1>3, OwnedFields DEF FinishFails, Finish, QuietTask, Task
  <2> QED BY <1>0, <1>3, <2>1 DEF FinishFails, Finish, Leave, QuietJob, NoJob
<1>4. ASSUME DeadlinePasses \/ Ask \/ EditCore \/ EditInfo \/ CorrectPlace \/ DeletePin \/ RestorePin \/ DeleteUser
             \/ UNCHANGED vars
      PROVE  QuietTask /\ \A v \in Worker : QuietJob(v)
  <2>1. job' = job
    BY <1>4 DEF DeadlinePasses, Ask, EditCore, EditInfo, CorrectPlace, Edit, DeletePin, RestorePin, DeleteUser, vars
  <2>2. QuietTask
    <3>1. task' = task \/ task' = [task EXCEPT !.late = TRUE] \/ task' = [task EXCEPT !.touched = TRUE]
      BY <1>4 DEF DeadlinePasses, Ask, EditCore, EditInfo, CorrectPlace, Edit, DeletePin, RestorePin, DeleteUser, vars
    <3> QED BY <1>0, <3>1 DEF QuietTask, Task
  <2> QED BY <2>1, <2>2 DEF QuietJob
<1>5. paid' = paid /\ asks \subseteq asks' /\ gens' \in {gens, gens + 1}
  BY DEF Quiet, ClaimCancels, DispatchRefused, FetchEnds, ReadExpired, End, FinishStale, FinishCancels, FinishFails, Finish,
         Crash, DeadlinePasses, Ask, EditCore, EditInfo, CorrectPlace, Edit, DeletePin, RestorePin, DeleteUser, vars
<1> QED BY <1>1, <1>2, <1>3, <1>4, <1>5 DEF Quiet, End

LEMMA TaskBounds == ASSUME Typed
  PROVE task.tid \in Nat /\ task.rev \in Nat /\ gens \in Nat /\ task \in Task /\ task.tid \in Gen /\ task.rev \in Rev
  BY Bounds DEF Typed, Task

LEMMA ClaimSpend == ASSUME Typed, SpendInv, NEW w \in Worker, Claim(w) PROVE SpendInv'
<1>0. task \in Task /\ job \in [Worker -> Job \cup {NoJob}]
  BY DEF Typed
<1>1. /\ task'.tid = task.tid /\ task'.rev = task.rev /\ task'.place = task.place
      /\ task'.status = "running" /\ task.status = "queued"
  BY OwnedFields DEF Claim, Task
<1>2. job'[w] = [pc |-> "fetching", tid |-> task.tid, rev |-> task.rev, place |-> task.place]
      /\ \A v \in Worker \ {w} : job'[v] = job[v]
  BY <1>0 DEF Claim, Take
<1>3. gens' = gens /\ paid' = paid /\ asks' = asks
  BY DEF Claim
<1>4. Behind'
  <2> SUFFICES ASSUME NEW v \in Worker, job'[v].pc # "idle"
               PROVE  \/ Older(job[v].tid, job[v].rev)'
                      \/ AtTask(job[v].tid, job[v].rev)' /\ task'.status # "queued" /\ job'[v].place = task'.place
    BY <1>1, <1>3 DEF Behind, SpendInv
  <2>1. CASE v = w
    BY <1>1, <1>2, <2>1 DEF AtTask
  <2>2. CASE v # w
    BY <1>1, <1>2, <2>2 DEF Older, AtTask, Behind, SpendInv
  <2> QED BY <2>1, <2>2
<1>5. PaidOnce'
  BY <1>1, <1>3 DEF PaidOnce, SpendInv, Older, AtTask
<1>6. Authority'
  <2> SUFFICES ASSUME NEW v \in Worker, job'[v].pc = "authorized"
               PROVE  /\ paid'[<<job'[v].tid, job'[v].rev>>] = 0
                      /\ AtTask(job[v].tid, job[v].rev)' => task'.dispatched
                      /\ \A u \in Worker \ {v} : ~(job'[u].pc = "authorized" /\ job'[u].tid = job'[v].tid /\ job'[u].rev = job'[v].rev)
    BY DEF Authority
  <2>1. v # w /\ job'[v] = job[v] /\ job'[w].pc # "authorized"
    BY <1>2
  <2>2. ~AtTask(job[v].tid, job[v].rev)
    BY <1>1, <2>1, TaskBounds DEF Behind, SpendInv, Older, AtTask
  <2> QED BY <1>1, <1>2, <1>3, <2>1, <2>2 DEF Authority, SpendInv, AtTask
<1>7. Asked'
  BY <1>1, <1>3 DEF Asked, SpendInv
<1> QED BY <1>4, <1>5, <1>6, <1>7 DEF SpendInv

LEMMA AuthorizeSpend == ASSUME Typed, SpendInv, NEW w \in Worker, AuthorizeDispatch(w) PROVE SpendInv'
<1>0. task \in Task /\ job \in [Worker -> Job \cup {NoJob}] /\ job[w].tid \in Gen /\ job[w].rev \in Rev /\ job[w] \in Job
  BY JobTyped DEF Typed, AuthorizeDispatch
<1>1. /\ task'.tid = task.tid /\ task'.rev = task.rev /\ task'.place = task.place
      /\ task'.status = task.status /\ task.status = "running" /\ task'.dispatched /\ ~task.dispatched
  BY OwnedFields DEF AuthorizeDispatch, Task, Current
<1>2. /\ job'[w].pc = "authorized" /\ job'[w].tid = job[w].tid /\ job'[w].rev = job[w].rev /\ job'[w].place = job[w].place
      /\ \A v \in Worker \ {w} : job'[v] = job[v]
      /\ job[w].pc = "fetching" /\ job[w].tid = task.tid /\ job[w].rev = task.rev
  BY <1>0 DEF AuthorizeDispatch, Goto, Job, Current
<1>3. gens' = gens /\ paid' = paid /\ asks' = asks
  BY DEF AuthorizeDispatch
<1>4. Behind'
  <2> SUFFICES ASSUME NEW v \in Worker, job'[v].pc # "idle"
               PROVE  \/ Older(job[v].tid, job[v].rev)'
                      \/ AtTask(job[v].tid, job[v].rev)' /\ task'.status # "queued" /\ job'[v].place = task'.place
    BY <1>1, <1>3 DEF Behind, SpendInv
  <2>1. job[v].pc # "idle" /\ job'[v].tid = job[v].tid /\ job'[v].rev = job[v].rev /\ job'[v].place = job[v].place
    BY <1>2
  <2> QED BY <1>1, <2>1 DEF Older, AtTask, Behind, SpendInv
<1>5. PaidOnce'
  BY <1>1, <1>3 DEF PaidOnce, SpendInv, Older, AtTask
<1>6. Authority'
  <2> SUFFICES ASSUME NEW v \in Worker, job'[v].pc = "authorized"
               PROVE  /\ paid'[<<job'[v].tid, job'[v].rev>>] = 0
                      /\ AtTask(job[v].tid, job[v].rev)' => task'.dispatched
                      /\ \A u \in Worker \ {v} : ~(job'[u].pc = "authorized" /\ job'[u].tid = job'[v].tid /\ job'[u].rev = job'[v].rev)
    BY DEF Authority
  <2>1. \A u \in Worker : job[u].pc = "authorized" => ~AtTask(job[u].tid, job[u].rev)
    BY <1>1 DEF Authority, SpendInv
  <2>2. paid[<<task.tid, task.rev>>] = 0
    BY <1>1, TaskBounds DEF PaidOnce, SpendInv, Older, AtTask
  <2> QED BY <1>1, <1>2, <1>3, <2>1, <2>2 DEF Authority, SpendInv, AtTask
<1>7. Asked'
  BY <1>1, <1>3 DEF Asked, SpendInv
<1> QED BY <1>4, <1>5, <1>6, <1>7 DEF SpendInv

LEMMA SendSpend == ASSUME Typed, SpendInv, NEW w \in Worker, Send(w) PROVE SpendInv'
<1> DEFINE k == <<job[w].tid, job[w].rev>>
<1>0. /\ job \in [Worker -> Job \cup {NoJob}] /\ job[w].tid \in Gen /\ job[w].rev \in Rev /\ job[w] \in Job
      /\ k \in Gen \X Rev /\ paid \in [Gen \X Rev -> Nat] /\ job[w].pc = "authorized" /\ paid[k] = 0
  BY JobTyped DEF Typed, Send, Authority, SpendInv
<1>1. UNCHANGED <<task, gens, asks>> /\ paid' = [paid EXCEPT ![k] = 1]
  BY <1>0 DEF Send
<1>2. /\ job'[w].pc \in {"fetching", "fetched", "failed"}
      /\ job'[w].tid = job[w].tid /\ job'[w].rev = job[w].rev /\ job'[w].place = job[w].place
      /\ \A v \in Worker \ {w} : job'[v] = job[v]
  <2>1. PICK l \in {"fetching", "fetched", "failed"} : job' = [job EXCEPT ![w].pc = l]
    BY DEF Send, Goto
  <2> QED BY <1>0, <2>1 DEF Job
<1>3. Behind'
  BY <1>0, <1>1, <1>2 DEF Behind, SpendInv, Older, AtTask
<1>4. PaidOnce'
  <2> SUFFICES ASSUME NEW t \in Gen, NEW r \in Rev
               PROVE  /\ paid'[<<t, r>>] <= 1
                      /\ paid'[<<t, r>>] # 0 => Older(t, r) \/ (AtTask(t, r) /\ task.status # "queued" /\ task.dispatched)
    BY <1>1 DEF PaidOnce, Older, AtTask
  <2>1. CASE <<t, r>> = k
    BY <1>0, <1>1, <2>1 DEF Behind, Authority, SpendInv
  <2>2. CASE <<t, r>> # k
    BY <1>0, <1>1, <2>2 DEF PaidOnce, SpendInv
  <2> QED BY <2>1, <2>2
<1>5. Authority'
  <2> SUFFICES ASSUME NEW v \in Worker, job'[v].pc = "authorized"
               PROVE  /\ paid'[<<job'[v].tid, job'[v].rev>>] = 0
                      /\ AtTask(job[v].tid, job[v].rev)' => task'.dispatched
                      /\ \A u \in Worker \ {v} : ~(job'[u].pc = "authorized" /\ job'[u].tid = job'[v].tid /\ job'[u].rev = job'[v].rev)
    BY DEF Authority
  <2>1. v # w /\ job'[v] = job[v] /\ job[v].tid \in Gen /\ job[v].rev \in Rev
    BY <1>2, JobTyped
  <2>2. <<job[v].tid, job[v].rev>> # k
    BY <1>0, <1>2, <2>1 DEF Authority, SpendInv
  <2> QED BY <1>0, <1>1, <1>2, <2>1, <2>2 DEF Authority, SpendInv, AtTask
<1>6. Asked'
  BY <1>1 DEF Asked, SpendInv
<1> QED BY <1>3, <1>4, <1>5, <1>6 DEF SpendInv

LEMMA RetryFields == ASSUME Typed, NEW m \in asks, Retry(m)
  PROVE  /\ m = <<task.tid, task.rev>> /\ task.status \in {"needs_action", "cancelled", "complete", "running", "queued"}
         /\ task'.tid = task.tid /\ task'.rev = task.rev + 1 /\ task'.status = "queued" /\ task'.place = pin.place
         /\ UNCHANGED <<gens, job, asks, paid>> /\ SamePin
<1>1. m \in Gen \X Rev /\ m[1] = task.tid /\ m[2] = task.rev
  BY DEF Typed, Retry
<1> QED BY <1>1, OwnedFields, TaskBounds DEF Retry, Requeue, Task

\* A retry, or a new task, leaves all the work there is behind.
LEMMA NewRevision ==
  ASSUME Typed, SpendInv, UNCHANGED <<job, asks, paid>>, gens' >= gens, gens' \in Nat, task'.tid <= gens', task'.tid \in Nat,
         task'.rev \in Nat, task'.tid > task.tid \/ (task'.tid = task.tid /\ task'.rev > task.rev), Asked'
  PROVE  SpendInv'
<1>1. \A t \in Gen, r \in Rev : Older(t, r) \/ AtTask(t, r) => Older(t, r)' /\ ~AtTask(t, r)'
  <2>1. \A t \in Gen, r \in Rev : t \in Nat /\ r \in Nat
    BY Bounds
  <2> QED BY <2>1, TaskBounds DEF Older, AtTask
<1>2. \A w \in Worker : job[w].pc # "idle" => Older(job[w].tid, job[w].rev)' /\ ~AtTask(job[w].tid, job[w].rev)'
  <2> SUFFICES ASSUME NEW w \in Worker, job[w].pc # "idle"
               PROVE  Older(job[w].tid, job[w].rev)' /\ ~AtTask(job[w].tid, job[w].rev)'
    OBVIOUS
  <2>1. job[w].tid \in Gen /\ job[w].rev \in Rev
    BY JobTyped
  <2>2. Older(job[w].tid, job[w].rev) \/ AtTask(job[w].tid, job[w].rev)
    BY DEF Behind, SpendInv
  <2>3. job' = job
    OBVIOUS
  <2> QED BY <1>1, <2>1, <2>2, <2>3 DEF Older, AtTask
<1>3. Behind'
  BY <1>2 DEF Behind, Older
<1>4. PaidOnce'
  BY <1>1 DEF PaidOnce, SpendInv
<1>5. Authority'
  BY <1>2 DEF Authority, SpendInv, AtTask
<1> QED BY <1>3, <1>4, <1>5 DEF SpendInv

LEMMA SpendStep == Typed /\ SpendInv /\ [Next]_vars => SpendInv'
<1> SUFFICES ASSUME Typed, SpendInv, [Next]_vars PROVE SpendInv'
  OBVIOUS
<1>1. ASSUME NEW w \in Worker, Claim(w) \/ AuthorizeDispatch(w) \/ Send(w) PROVE SpendInv'
  BY <1>1, ClaimSpend, AuthorizeSpend, SendSpend
<1>2. ASSUME NEW m \in asks, Retry(m) PROVE SpendInv'
  <2>1. Asked'
    <3> SUFFICES ASSUME NEW r \in 2..(task.rev + 1) PROVE <<task.tid, r - 1>> \in asks
      BY <1>2, RetryFields DEF Asked
    <3>1. CASE r = task.rev + 1
      BY <1>2, <3>1, RetryFields, TaskBounds
    <3>2. CASE r # task.rev + 1
      BY <3>2, TaskBounds DEF Asked, SpendInv
    <3> QED BY <3>1, <3>2
  <2> QED BY <1>2, <2>1, RetryFields, NewRevision, TaskBounds DEF Behind, SpendInv
<1>3. CASE SaveAgain
  <2>1. task'.tid = gens + 1 /\ task'.rev = 1 /\ gens' = gens + 1 /\ UNCHANGED <<job, asks, paid>>
    BY <1>3 DEF SaveAgain, NewTask
  <2>2. Asked'
    BY <2>1 DEF Asked
  <2> QED BY <2>1, <2>2, NewRevision, TaskBounds DEF Behind, SpendInv
<1>4. CASE Quiet
  BY <1>4, QuietSteps, QuietSpend
<1> QED BY <1>1, <1>2, <1>3, <1>4 DEF Next, WorkerStep, UserStep, Quiet

\* Money follows a request: for any workers, retries, re-creations and crashes
\* no revision is sent to the provider twice, and a later revision than the
\* first exists only if the user asked for it.
THEOREM SpendFollowsRequest == Safety => []SpendIsAsked
<1>1. Init => Typed /\ SpendInv
  BY TypedInit, SpendInit
<1>2. Typed /\ SpendInv /\ [Next]_vars => Typed' /\ SpendInv'
  BY TypedStep, SpendStep
<1>3. Typed /\ SpendInv => SpendIsAsked
  <2> SUFFICES ASSUME Typed, SpendInv PROVE SpendIsAsked
    OBVIOUS
  <2>1. \A r \in Gen \X Rev : paid[r] <= 1
    BY DEF PaidOnce, SpendInv
  <2> QED BY <2>1 DEF SpendIsAsked, Asked, SpendInv
<1> QED BY <1>1, <1>2, <1>3, PTL DEF Safety

-----------------------------------------------------------------------------
(* The pin: results of the right place, and nothing of the user's lost *)

\* A pin that carries its task has no details but those of the task's place.
Shown == /\ pin.edited => pin.info = "user"
         /\ SamePin => pin.info \in {"none", "user", task.place}
         /\ SamePin /\ pin.state = "complete" => pin.place = task.place

\* A core field the user emptied is known to be his; an optional one was there
\* at the last replacement only if he had marked it.
Kept == /\ SamePin /\ pin.core = "cleared" => task.protect \/ task.touched
        /\ SamePin /\ task.base = "user" => pin.edited

PinInv == Shown /\ Kept

LEMMA PinInit == Init => PinInv
  BY DetailsConstants DEF Init, NewPin, NewTask, PinInv, Shown, Kept

LEMMA CancelPin == ASSUME Typed, PinInv, Cancel PROVE PinInv'
<1> DEFINE cleared == Cleared(pin)
<1>0. pin \in Pin
  BY DEF Typed
<1>1. /\ cleared \in Pin /\ cleared.gen = pin.gen /\ cleared.core = pin.core /\ cleared.edited = pin.edited /\ cleared.place = pin.place
      /\ cleared.info = IF pin.edited THEN pin.info ELSE "none"
  BY <1>0 DEF Cleared, Pin
<1>2. /\ task'.tid = task.tid /\ task'.place = task.place /\ task'.base = task.base
      /\ task.protect \/ task.touched => task'.protect
  BY OwnedFields DEF Cancel, Task
<1>3. /\ pin'.gen = pin.gen /\ pin'.core = pin.core /\ pin'.edited = pin.edited /\ pin'.place = pin.place
      /\ pin'.info = pin.info \/ (pin'.info = "none" /\ ~pin.edited)
      /\ pin'.state = "complete" => pin.state = "complete"
  <2>1. \/ pin' = pin
        \/ pin' = [pin EXCEPT !.state = "needs_action"]
        \/ pin' = [[cleared EXCEPT !.reset = TRUE] EXCEPT !.state = "needs_action"]
    BY DEF Cancel
  <2> HIDE DEF cleared
  <2> QED BY <1>0, <1>1, <2>1 DEF Pin
<1> QED BY <1>2, <1>3 DEF PinInv, Shown, Kept, SamePin

LEMMA FinishPin == ASSUME Typed, SpendInv, PinInv, NEW w \in Worker, Finish(w)
  PROVE  /\ PinInv'
         /\ pin.core \in {"user", "cleared"} => pin'.core = pin.core
         /\ pin.info = "user" => pin'.info = "user"
<1> DEFINE filled == Filled(pin, task', job[w].place)
<1>0. pin \in Pin /\ SamePin /\ pin.place = task.place
  BY DEF Typed, Finish, Matching
<1>1. job[w].place = task.place /\ task.place \in Place
  BY DetailsConstants, TaskBounds DEF Finish, Current, SpendInv, Behind, Older, Task
<1>2. /\ task'.tid = task.tid /\ task'.place = task.place /\ task'.base = task.base
      /\ task'.protect = (task.protect \/ task.touched)
  BY OwnedFields DEF Finish, Task
<1>3. /\ filled \in Pin /\ filled.gen = pin.gen /\ filled.edited = pin.edited /\ filled.place = pin.place
      /\ filled.core = IF pin.core \in {"none", "cleared"} /\ ~task'.protect THEN "details" ELSE pin.core
      /\ filled.info = IF ~pin.edited /\ pin.info = task'.base THEN job[w].place ELSE pin.info
  BY <1>0, <1>1 DEF Filled, Pin
<1>4. /\ pin'.gen = pin.gen /\ pin'.edited = pin.edited /\ pin'.place = pin.place
      /\ pin'.core = filled.core /\ pin'.info = filled.info
  <2>1. pin' = [filled EXCEPT !.state = "complete", !.rev = task.rev]
    BY DEF Finish
  <2> HIDE DEF filled
  <2> QED BY <1>3, <2>1 DEF Pin
<1>5. pin.core \in {"user", "cleared"} => pin'.core = pin.core
  BY <1>0, <1>2, <1>3, <1>4 DEF PinInv, Kept
<1>6. pin.info = "user" => pin'.info = "user"
  BY <1>0, <1>2, <1>3, <1>4 DEF PinInv, Kept
<1>7. Shown'
  BY <1>0, <1>1, <1>2, <1>3, <1>4, <1>6 DEF PinInv, Shown, SamePin
<1>8. Kept'
  BY <1>0, <1>2, <1>3, <1>4 DEF PinInv, Kept, SamePin
<1> QED BY <1>5, <1>6, <1>7, <1>8 DEF PinInv

LEMMA RetryPin == ASSUME Typed, PinInv, NEW m \in asks, Retry(m) PROVE PinInv'
<1> DEFINE fresh == IF Replace THEN Cleared(pin) ELSE pin
<1>0. pin \in Pin /\ SamePin
  BY DEF Typed, Retry
<1>1. /\ fresh \in Pin /\ fresh.gen = pin.gen /\ fresh.core = pin.core /\ fresh.edited = pin.edited /\ fresh.place = pin.place
      /\ fresh.info = IF Replace /\ ~pin.edited THEN "none" ELSE pin.info
  BY <1>0 DEF Cleared, Pin
<1>2. /\ task'.tid = task.tid /\ task'.place = pin.place /\ task'.base = IF Replace THEN fresh.info ELSE task.base
      /\ task'.protect = (task.protect \/ task.touched \/ Replace)
  <2>1. task' = [Owned(task) EXCEPT !.place = pin.place, !.base = IF Replace THEN fresh.info ELSE @,
                   !.protect = @ \/ Replace, !.touched = FALSE, !.status = "queued", !.rev = @ + 1,
                   !.dispatched = FALSE, !.late = FALSE]
    BY DEF Retry, Requeue
  <2> HIDE DEF fresh
  <2> QED BY <2>1, OwnedFields DEF Task
<1>3. /\ pin'.gen = pin.gen /\ pin'.core = pin.core /\ pin'.edited = pin.edited /\ pin'.place = pin.place
      /\ pin'.info = fresh.info /\ pin'.state = "pending"
  <2>1. pin' = [fresh EXCEPT !.reset = FALSE, !.state = "pending", !.tid = task.tid, !.rev = task.rev + 1]
    BY DEF Retry, Requeue
  <2> HIDE DEF fresh
  <2> QED BY <1>1, <2>1 DEF Pin
<1>4. ~Replace => pin.place = task.place
  BY DEF Replace
<1>5. Shown'
  <2>1. CASE Replace
    BY <1>0, <1>1, <1>2, <1>3, <2>1 DEF PinInv, Shown, SamePin
  <2>2. CASE ~Replace
    BY <1>0, <1>1, <1>2, <1>3, <1>4, <2>2 DEF PinInv, Shown, SamePin
  <2> QED BY <2>1, <2>2
<1>6. Kept'
  <2>1. CASE Replace
    BY <1>0, <1>1, <1>2, <1>3, <2>1 DEF PinInv, Kept, SamePin
  <2>2. CASE ~Replace
    BY <1>0, <1>1, <1>2, <1>3, <2>2 DEF PinInv, Kept, SamePin
  <2> QED BY <2>1, <2>2
<1> QED BY <1>5, <1>6 DEF PinInv

LEMMA PinStep == Typed /\ SpendInv /\ PinInv /\ [Next]_vars => PinInv'
<1> SUFFICES ASSUME Typed, SpendInv, PinInv, [Next]_vars PROVE PinInv'
  OBVIOUS
<1>0. pin \in Pin /\ task \in Task /\ task.tid <= gens /\ gens \in Nat /\ task.tid \in Nat /\ task.tid >= 1
  BY TaskBounds, Bounds DEF Typed, SpendInv, Behind
<1>1. ASSUME pin' = pin, task'.tid = task.tid, task'.place = task.place, task'.base = task.base,
             task.protect \/ task.touched => task'.protect \/ task'.touched
      PROVE  PinInv'
  BY <1>1 DEF PinInv, Shown, Kept, SamePin
<1>2. ASSUME NEW w \in Worker, Claim(w) \/ AuthorizeDispatch(w) PROVE PinInv'
  BY <1>1, <1>2, OwnedFields DEF Claim, AuthorizeDispatch, Task
<1>3. ASSUME NEW w \in Worker,
             DispatchRefused(w) \/ Send(w) \/ FetchEnds(w) \/ ReadExpired(w) \/ FinishStale(w) \/ Crash(w)
      PROVE  PinInv'
  BY <1>1, <1>3 DEF DispatchRefused, Send, FetchEnds, ReadExpired, FinishStale, Crash
<1>4. ASSUME NEW w \in Worker, ClaimCancels(w) \/ FinishCancels(w) PROVE PinInv'
  BY <1>4, CancelPin DEF ClaimCancels, FinishCancels
<1>5. ASSUME NEW w \in Worker, FinishFails(w) PROVE PinInv'
  <2>1. /\ task'.tid = task.tid /\ task'.place = task.place /\ task'.base = task.base
        /\ task.protect \/ task.touched => task'.protect
    BY <1>5, OwnedFields DEF FinishFails, Task
  <2>2. /\ pin'.gen = pin.gen /\ pin'.core = pin.core /\ pin'.edited = pin.edited /\ pin'.place = pin.place
        /\ pin'.info = pin.info /\ pin'.state = "needs_action"
    BY <1>0, <1>5 DEF FinishFails, Pin
  <2> QED BY <2>1, <2>2 DEF PinInv, Shown, Kept, SamePin
<1>6. ASSUME NEW w \in Worker, Finish(w) PROVE PinInv'
  BY <1>6, FinishPin
<1>7. ASSUME NEW m \in asks, Retry(m) PROVE PinInv'
  BY <1>7, RetryPin
<1>8. CASE DeadlinePasses \/ Ask \/ DeleteUser \/ UNCHANGED vars
  BY <1>0, <1>1, <1>8 DEF DeadlinePasses, Ask, DeleteUser, vars, Task
<1>9. CASE EditCore \/ EditInfo \/ CorrectPlace
  <2>1. ASSUME NEW p \in Pin, Edit(p), p.gen = pin.gen, p.edited => p.info = "user", pin.edited => p.edited,
               p.info \in {pin.info, "user"}, p.state = "complete" => pin.state = "complete" /\ p.place = pin.place
        PROVE  PinInv'
    <3>1. /\ pin' = p /\ task'.tid = task.tid /\ task'.place = task.place /\ task'.base = task.base /\ task'.touched
      BY <1>0, <2>1 DEF Edit, Task
    <3> QED BY <2>1, <3>1 DEF PinInv, Shown, Kept, SamePin
  <2>2. CASE EditCore
    <3>1. PICK v \in {"user", "cleared"} : Edit([pin EXCEPT !.core = v])
      BY <2>2 DEF EditCore
    <3>2. [pin EXCEPT !.core = v] \in Pin
      BY <1>0 DEF Pin
    <3> QED BY <1>0, <2>1, <3>1, <3>2 DEF Pin, PinInv, Shown
  <2>3. CASE EditInfo
    <3>1. PICK marked \in BOOLEAN : Edit([pin EXCEPT !.info = "user", !.edited = @ \/ marked])
      BY <2>3 DEF EditInfo
    <3> DEFINE p == [pin EXCEPT !.info = "user", !.edited = @ \/ marked]
    <3>2. p \in Pin /\ p.gen = pin.gen /\ p.info = "user" /\ p.state = pin.state /\ p.place = pin.place
      BY <1>0 DEF Pin
    <3>3. pin.edited => p.edited
      BY <1>0 DEF Pin
    <3> HIDE DEF p
    <3>4. Edit(p)
      BY <3>1 DEF p
    <3> QED BY <2>1, <3>2, <3>3, <3>4
  <2>4. CASE CorrectPlace
    <3>1. PICK p \in Place : \/ Edit([pin EXCEPT !.place = p, !.state = "needs_action"])
                             \/ pin.state = "pending" /\ Edit([pin EXCEPT !.place = p])
      BY <2>4 DEF CorrectPlace
    <3>2. CASE Edit([pin EXCEPT !.place = p, !.state = "needs_action"])
      <4>1. [pin EXCEPT !.place = p, !.state = "needs_action"] \in Pin
        BY <1>0 DEF Pin
      <4> QED BY <1>0, <2>1, <3>2, <4>1 DEF Pin, PinInv, Shown
    <3>3. CASE pin.state = "pending" /\ Edit([pin EXCEPT !.place = p])
      <4>1. [pin EXCEPT !.place = p] \in Pin
        BY <1>0 DEF Pin
      <4> QED BY <1>0, <2>1, <3>3, <4>1 DEF Pin, PinInv, Shown
    <3> QED BY <3>1, <3>2, <3>3
  <2> QED BY <1>9, <2>2, <2>3, <2>4
<1>10. CASE DeletePin \/ RestorePin
  <2>1. task' = task /\ pin'.gen # task.tid /\ pin'.edited = pin.edited /\ pin'.info = pin.info
    BY <1>0, <1>10 DEF DeletePin, RestorePin, Pin
  <2> QED BY <2>1 DEF PinInv, Shown, Kept, SamePin
<1>11. CASE SaveAgain
  BY <1>11, DetailsConstants DEF SaveAgain, NewPin, NewTask, PinInv, Shown, Kept
<1> QED BY <1>2, <1>3, <1>4, <1>5, <1>6, <1>7, <1>8, <1>9, <1>10, <1>11 DEF Next, WorkerStep, End, UserStep

PinDetailsInv == Typed /\ SpendInv /\ PinInv

LEMMA Invariant == Safety => []PinDetailsInv
<1>1. Init => PinDetailsInv
  BY TypedInit, SpendInit, PinInit DEF PinDetailsInv
<1>2. PinDetailsInv /\ [Next]_vars => PinDetailsInv'
  BY TypedStep, SpendStep, PinStep DEF PinDetailsInv
<1> QED BY <1>1, <1>2, PTL DEF Safety

\* Every variable stays in its domain, and no revision is paid for twice.
THEOREM TypeCorrect == Safety => []TypeOK
<1>1. PinDetailsInv => TypeOK
  <2> SUFFICES ASSUME PinDetailsInv PROVE TypeOK
    OBVIOUS
  <2>1. \A r \in Gen \X Rev : paid[r] \in 0..1
    BY DEF PinDetailsInv, SpendInv, PaidOnce, Typed
  <2> QED BY <2>1 DEF PinDetailsInv, Typed, TypeOK
<1> QED BY <1>1, Invariant, PTL

\* Whatever the user corrects while a request is under way, a complete pin
\* never shows the details of a place it is no longer at.
THEOREM DetailsFollowPlace == Safety => []DetailsOfPlace
<1>1. PinDetailsInv => DetailsOfPlace
  BY DEF PinDetailsInv, PinInv, Shown, SamePin, DetailsOfPlace
<1> QED BY <1>1, Invariant, PTL

\* No result overwrites what the user wrote or removed, marked or not.
THEOREM UserWritesStay == Safety => EditsKept
<1>1. PinDetailsInv /\ [Next]_vars =>
        [\A w \in Worker : Finish(w) => /\ pin.core \in {"user", "cleared"} => pin'.core = pin.core
                                        /\ pin.info = "user" => pin'.info = "user"]_vars
  BY FinishPin DEF PinDetailsInv
<1> QED BY <1>1, Invariant, PTL DEF Safety, EditsKept
=============================================================================
