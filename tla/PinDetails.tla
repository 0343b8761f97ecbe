----------------------------- MODULE PinDetails -----------------------------
(***************************************************************************)
(* The outbox that fetches the rich details of a saved pin: a private task *)
(* document next to each pin, workers that claim it and pay for one        *)
(* request, the user's own writes to the pin meanwhile, and explicit       *)
(* retries.  One pin document id; an action is one transaction or one      *)
(* local step of a worker.                                                 *)
(*                                                                         *)
(* Of a pin's fields there are two: core stands for the accepted ones      *)
(* (name, address, category), info for the optional ones.  A generation is *)
(* a creation of the document; every task write records it, so the commit  *)
(* times by which the code recognises it are one number here.  Only one    *)
(* claim is ever made of a task's revision: the two stand for its owner.   *)
(***************************************************************************)
EXTENDS Integers

CONSTANTS
  Worker,  \* processes, each with one details worker
  Place,   \* provider places
  Edits,   \* bound: whether clients edit fields
  MaxGen,  \* bound: creations of the pin document
  MaxRev   \* bound: revisions of a task

ASSUME DetailsConstants == Edits \in BOOLEAN /\ MaxGen \in Nat \ {0} /\ MaxRev \in Nat \ {0} /\ Place # {}
                           /\ Place \cap {"none", "user"} = {}

VARIABLES
  pin,     \* the pin document
  task,    \* its task document
  gens,    \* how often the pin document was created
  user,    \* whether the account exists
  job,     \* what each worker is at
  asks,    \* retries the phone has sent, which may arrive at any time
  paid     \* requests sent to the provider, by task and revision

vars == <<pin, task, gens, user, job, asks, paid>>

Gen == 1..MaxGen
Rev == 1..MaxRev

\* pin.gen is 0 when there is no pin; tid is the generation of its enqueue.
Pin  == [gen : 0..MaxGen, place : Place, state : {"pending", "complete", "needs_action"}, rev : Rev,
         tid : Gen, reset : BOOLEAN, info : Place \cup {"none", "user"}, edited : BOOLEAN,
         core : {"none", "cleared", "user", "details"}]

\* late: the deadline of a running task has passed.
\* touched: the pin was written by others since the last commit of both.
Task == [tid : Gen, rev : Rev, place : Place, status : {"queued", "running", "needs_action", "complete", "cancelled"},
         protect : BOOLEAN, touched : BOOLEAN, dispatched : BOOLEAN, late : BOOLEAN,
         base : Place \cup {"none", "user"}]

Job   == [pc : {"fetching", "authorized", "fetched", "failed"}, tid : Gen, rev : Rev, place : Place]
NoJob == [pc |-> "idle"]

NewPin(g, p)  == [gen |-> g, place |-> p, state |-> "pending", rev |-> 1, tid |-> g, reset |-> FALSE,
                  info |-> "none", edited |-> FALSE, core |-> "none"]
NewTask(g, p) == [tid |-> g, rev |-> 1, place |-> p, status |-> "queued", protect |-> FALSE,
                  touched |-> FALSE, dispatched |-> FALSE, late |-> FALSE, base |-> "none"]

\* Every variable stays in its domain: no revision is paid for twice.
TypeOK == /\ pin \in Pin /\ task \in Task /\ job \in [Worker -> Job \cup {NoJob}]
          /\ gens \in Gen /\ user \in BOOLEAN
          /\ asks \subseteq Gen \X Rev
          /\ paid \in [Gen \X Rev -> 0..1]

Init == \E p \in Place :
  /\ pin = NewPin(1, p) /\ task = NewTask(1, p) /\ gens = 1 /\ user = TRUE
  /\ job = [w \in Worker |-> NoJob]
  /\ asks = {} /\ paid = [r \in Gen \X Rev |-> 0]

-----------------------------------------------------------------------------
(* What every transaction looks at *)

SamePin  == pin.gen = task.tid
Matching == SamePin /\ pin.place = task.place /\ ~pin.reset
Current(w) == job[w].tid = task.tid /\ job[w].rev = task.rev /\ task.status = "running"

\* Fault: who wrote the pin is forgotten with every commit of both documents.
OwnedLastOnly(t) == [t EXCEPT !.protect = t.touched]

\* provenance: once anybody else wrote the pin, its core fields are his.
Owned(t) == [t EXCEPT !.protect = @ \/ t.touched]

\* The optional fields the user did not mark as edited are dropped.
Cleared(p) == IF p.edited THEN p ELSE [p EXCEPT !.info = "none"]

\* Fault: a cancelled task leaves the pin waiting.
CancelQuietly == task' = [Owned(task) EXCEPT !.status = "cancelled", !.late = FALSE] /\ pin' = pin

\* cancel: the task ends; the pin is told only if it still waits for it.
Cancel ==
  LET visible == /\ user /\ SamePin
                 /\ pin.tid = task.tid /\ pin.rev = task.rev /\ pin.state = "pending" IN
  /\ task' = [Owned(task) EXCEPT !.status = "cancelled", !.touched = @ /\ ~visible, !.late = FALSE]
  /\ pin' = IF ~visible THEN pin
            ELSE [IF pin.place = task.place THEN pin ELSE [Cleared(pin) EXCEPT !.reset = TRUE]
                  EXCEPT !.state = "needs_action"]

-----------------------------------------------------------------------------
(* The worker *)

Goto(w, l) == job' = [job EXCEPT ![w].pc = l]
Take(w, l) == job' = [job EXCEPT ![w] = [pc |-> l, tid |-> task.tid, rev |-> task.rev, place |-> task.place]]
Leave(w)   == job' = [job EXCEPT ![w] = NoJob]

\* Fault: work that ran out of time is taken up again.
ClaimLate(w) == /\ job[w].pc = "idle"
                /\ task.status = "queued" \/ (task.status = "running" /\ task.late)
                /\ user /\ Matching
                /\ task' = [Owned(task) EXCEPT !.status = "running", !.dispatched = FALSE, !.late = FALSE]
                /\ Take(w, "fetching")
                /\ UNCHANGED <<pin, gens, user, asks, paid>>

Claim(w) == /\ job[w].pc = "idle"
            /\ task.status = "queued"
            /\ user /\ Matching
            /\ task' = [Owned(task) EXCEPT !.status = "running", !.dispatched = FALSE, !.late = FALSE]
            /\ Take(w, "fetching")
            /\ UNCHANGED <<pin, gens, user, asks, paid>>

ClaimCancels(w) == /\ job[w].pc = "idle"
                   /\ task.status = "queued"
                   /\ ~(user /\ Matching)
                   /\ Cancel
                   /\ UNCHANGED <<gens, user, job, asks, paid>>

\* authorizeDispatch: the last transaction before the money.
AuthorizeDispatch(w) == /\ job[w].pc = "fetching"
                        /\ Current(w) /\ ~task.dispatched /\ ~task.late /\ user /\ Matching
                        /\ task' = [Owned(task) EXCEPT !.dispatched = TRUE]
                        /\ Goto(w, "authorized")
                        /\ UNCHANGED <<pin, gens, user, asks, paid>>

DispatchRefused(w) == /\ job[w].pc = "fetching"
                      /\ ~(Current(w) /\ ~task.dispatched /\ ~task.late /\ user /\ Matching)
                      /\ Goto(w, "failed")
                      /\ UNCHANGED <<pin, task, gens, user, asks, paid>>

\* The request; a further attempt of the same fetch asks for authority again.
Send(w) == /\ job[w].pc = "authorized"
           /\ paid' = [paid EXCEPT ![<<job[w].tid, job[w].rev>>] = @ + 1]
           /\ \E l \in {"fetching", "fetched", "failed"} : Goto(w, l)
           /\ UNCHANGED <<pin, task, gens, user, asks>>

\* A cached answer, another caller's answer, or none before the deadline.
FetchEnds(w) == /\ job[w].pc \in {"fetching", "authorized"}
                /\ \E l \in {"fetched", "failed"} : Goto(w, l)
                /\ UNCHANGED <<pin, task, gens, user, asks, paid>>

\* expire: another worker's task, as it was read.
ReadExpired(w) == /\ job[w].pc = "idle"
                  /\ task.status = "running" /\ task.late
                  /\ Take(w, "failed")
                  /\ UNCHANGED <<pin, task, gens, user, asks, paid>>

FinishStale(w) == /\ job[w].pc \in {"fetched", "failed"}
                  /\ ~Current(w)
                  /\ Leave(w)
                  /\ UNCHANGED <<pin, task, gens, user, asks, paid>>

FinishCancels(w) == /\ job[w].pc \in {"fetched", "failed"}
                    /\ Current(w) /\ ~(user /\ Matching)
                    /\ Cancel
                    /\ Leave(w)
                    /\ UNCHANGED <<gens, user, asks, paid>>

\* No answer, a late one, or one whose commit failed.
FinishFails(w) == /\ job[w].pc \in {"fetched", "failed"}
                  /\ Current(w) /\ user /\ Matching
                  /\ task' = [Owned(task) EXCEPT !.status = "needs_action", !.touched = FALSE, !.late = FALSE]
                  /\ pin' = [pin EXCEPT !.state = "needs_action", !.rev = task.rev]
                  /\ Leave(w)
                  /\ UNCHANGED <<gens, user, asks, paid>>

\* Details fill what is absent and nobody's, and what still is as it was.
Filled(p, t, details) ==
  [p EXCEPT !.core = IF @ \in {"none", "cleared"} /\ ~t.protect THEN "details" ELSE @,
            !.info = IF ~p.edited /\ @ = t.base THEN details ELSE @]

\* Fault: the result is judged by the task alone, not by the pin's place.
FinishUnmatched(w) == /\ job[w].pc = "fetched" /\ ~task.late
                      /\ Current(w) /\ user /\ SamePin
                      /\ task' = [Owned(task) EXCEPT !.status = "complete", !.touched = FALSE, !.late = FALSE]
                      /\ pin' = [Filled(pin, task', job[w].place) EXCEPT !.state = "complete", !.rev = task.rev]
                      /\ Leave(w)
                      /\ UNCHANGED <<gens, user, asks, paid>>

Finish(w) == /\ job[w].pc = "fetched" /\ ~task.late
             /\ Current(w) /\ user /\ Matching
             /\ task' = [Owned(task) EXCEPT !.status = "complete", !.touched = FALSE, !.late = FALSE]
             /\ pin' = [Filled(pin, task', job[w].place) EXCEPT !.state = "complete", !.rev = task.rev]
             /\ Leave(w)
             /\ UNCHANGED <<gens, user, asks, paid>>

\* The process ends, or Firestore fails and the tick gives up.
Crash(w) == /\ job[w].pc # "idle"
            /\ Leave(w)
            /\ UNCHANGED <<pin, task, gens, user, asks, paid>>

DeadlinePasses == /\ task.status = "running" /\ ~task.late
                  /\ task' = [task EXCEPT !.late = TRUE]
                  /\ UNCHANGED <<pin, gens, user, job, asks, paid>>

-----------------------------------------------------------------------------
(* Explicit retries *)

Ask == /\ pin.gen # 0 /\ user /\ pin.state = "needs_action"
       /\ asks' = asks \cup {<<pin.tid, pin.rev>>}
       /\ UNCHANGED <<pin, task, gens, user, job, paid>>

\* The place is no longer the one the task was about, or its metadata is void.
Replace == \/ pin.place # task.place
           \/ pin.reset
           \/ task.status = "complete" /\ pin.state = "needs_action"

Requeue == LET fresh == IF Replace THEN Cleared(pin) ELSE pin IN
  /\ task.rev < MaxRev
  /\ Replace \/ task.status \in {"needs_action", "cancelled"}
  /\ pin' = [fresh EXCEPT !.reset = FALSE, !.state = "pending", !.tid = task.tid, !.rev = task.rev + 1]
  /\ task' = [Owned(task) EXCEPT !.place = pin.place, !.base = IF Replace THEN fresh.info ELSE @,
                !.protect = @ \/ Replace, !.touched = FALSE, !.status = "queued", !.rev = @ + 1,
                !.dispatched = FALSE, !.late = FALSE]
  /\ UNCHANGED <<gens, user, job, asks, paid>>

\* retry: a repeated or late request finds another revision and changes nothing.
Retry(m) == m[1] = task.tid /\ m[2] = task.rev /\ user /\ SamePin /\ Requeue

-----------------------------------------------------------------------------
(* Writes of the user's clients to the pin *)

Edit(p) == /\ pin.gen # 0 /\ user
           /\ pin' = p
           /\ task' = [task EXCEPT !.touched = TRUE]
           /\ UNCHANGED <<gens, user, job, asks, paid>>

EditCore == Edits /\ \E v \in {"user", "cleared"} : Edit([pin EXCEPT !.core = v])

\* Older clients do not mark what they edit.
EditInfo == Edits /\ \E marked \in BOOLEAN : Edit([pin EXCEPT !.info = "user", !.edited = @ \/ marked])

\* Another place; a client that knows of details asks for action.
CorrectPlace == \E p \in Place \ {pin.place} :
  \/ Edit([pin EXCEPT !.place = p, !.state = "needs_action"])
  \/ pin.state = "pending" /\ Edit([pin EXCEPT !.place = p])

DeletePin == /\ pin.gen # 0
             /\ pin' = [pin EXCEPT !.gen = 0]
             /\ UNCHANGED <<task, gens, user, job, asks, paid>>

\* A client puts its copy of the document back: no task comes with it.
RestorePin == /\ pin.gen = 0 /\ user /\ gens < MaxGen
              /\ gens' = gens + 1
              /\ pin' = [pin EXCEPT !.gen = gens + 1]
              /\ UNCHANGED <<task, user, job, asks, paid>>

\* enqueueNewPin: the place is saved again, pin and task in one transaction.
SaveAgain == /\ pin.gen = 0 /\ user /\ gens < MaxGen
             /\ gens' = gens + 1
             /\ \E p \in Place : pin' = NewPin(gens + 1, p) /\ task' = NewTask(gens + 1, p)
             /\ UNCHANGED <<user, job, asks, paid>>

DeleteUser == /\ user
              /\ user' = FALSE
              /\ UNCHANGED <<pin, task, gens, job, asks, paid>>

-----------------------------------------------------------------------------

End(w) == FinishStale(w) \/ FinishCancels(w) \/ FinishFails(w) \/ Finish(w)
WorkerStep(w) == \/ Claim(w) \/ ClaimCancels(w) \/ AuthorizeDispatch(w) \/ DispatchRefused(w)
                 \/ Send(w) \/ FetchEnds(w) \/ ReadExpired(w) \/ End(w)
UserStep == \/ EditCore \/ EditInfo \/ CorrectPlace
            \/ DeletePin \/ RestorePin \/ SaveAgain \/ DeleteUser

Next == \/ \E w \in Worker : WorkerStep(w) \/ Crash(w)
        \/ DeadlinePasses
        \/ Ask \/ (\E m \in asks : Retry(m))
        \/ UserStep

\* Ticks come again, the clock runs, a fetch has a deadline, and a worker that
\* is restarted over and over reaches the end of a task some time.
Fairness == /\ WF_vars(\E w \in Worker : Claim(w) \/ ClaimCancels(w))
            /\ WF_vars(\E w \in Worker : ReadExpired(w))
            /\ WF_vars(DeadlinePasses)
            /\ \A w \in Worker : WF_vars(FetchEnds(w)) /\ SF_vars(End(w))

Safety == Init /\ [][Next]_vars
Spec == Safety /\ Fairness

-----------------------------------------------------------------------------

\* Money follows a request: whatever is retried, repeated or restarted, the
\* provider is asked at most once for a revision, and a later revision than the
\* first exists only if the user asked for another one of the revision before.
SpendIsAsked == /\ \A r \in Gen \X Rev : paid[r] <= 1
                /\ \A r \in 2..task.rev : <<task.tid, r - 1>> \in asks

\* A complete pin never shows the details of a place it is no longer at,
\* whatever the user corrected while a request was under way.
DetailsOfPlace == pin.gen = task.tid /\ pin.state = "complete" => pin.info \in {"none", "user", pin.place}

\* What the user wrote or removed, marked or not, no result overwrites.
EditsKept == [][\A w \in Worker : Finish(w) =>
                  /\ pin.core \in {"user", "cleared"} => pin'.core = pin.core
                  /\ pin.info = "user" => pin'.info = "user"]_vars

\* Work that is not over: a task to do, or a pin that shows its user it waits.
Open == task.status \in {"queued", "running"} \/ (pin.state = "pending" /\ SamePin /\ user)

\* A pin of the creation its task was made for does not wait for ever: the
\* details come or the user is told to act.  And no task stays open, also when
\* its pin was deleted, saved anew or put back by a client.  A pin that was put
\* back is not promised anything: no task is its own, and if the copy says
\* pending it stays so until a client writes to it.
PendingResolves == Open ~> ~Open
=============================================================================
