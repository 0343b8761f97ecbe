------------------------------ MODULE Backfills ------------------------------
(***************************************************************************)
(* The operator's paged backfills over pins, users and lists while their   *)
(* owners go on editing (enrich/backfill*.js, lib/backfill*.js,            *)
(* lib/repairThumbnails.js).  Each goes through a collection in the order  *)
(* of the document names, from a page read once: it skips what needs       *)
(* nothing, looks an answer up, and writes it.  They differ in what they   *)
(* check again when they write; one of them pays for its answers under a   *)
(* lock that it has to renew.                                              *)
(*                                                                         *)
(* Of a document there is the key its answer goes by and the value that is *)
(* filled in, named by the key it is the answer to:                        *)
(*   types     pin     place           types of the place                  *)
(*   category  pin     types           category they mean                  *)
(*   meals     pin     place           details, with the version stamp     *)
(*   home      user    home city       coordinates                         *)
(*   profiles  list    collaborators   map of their profiles               *)
(*   images    pin     link            hosted thumbnail                    *)
(* A behaviour is about one of the jobs.                                   *)
(***************************************************************************)
EXTENDS Integers, FiniteSets

CONSTANTS
  Docs,      \* documents, numbered in the order of their names
  Keys,
  Vague,     \* keys whose answer decides nothing
  Run,       \* operators, each with a chain of calls
  NoRun,
  PageSize,
  LOCK_STALE, LOCK_SAFETY_MARGIN, CALL_TIMEOUT,
  Delay,     \* how late the answer to a renewal may be seen
  MaxTime,   \* bound on the clock
  Scenarios  \* the job of a behaviour, and how often what may happen

Job == {"types", "category", "meals", "home", "profiles", "images"}

\* Documents of before the backfill; some have their value already.  A list and
\* the types of a pin are always a key, if a vague one.
Document == [there : BOOLEAN, cohort : BOOLEAN, key : Keys \cup {"none"}, value : Keys \cup {"none"},
             by : {"nobody", "client", "run"}]
NoDoc == [there |-> FALSE, cohort |-> FALSE, key |-> "none", value |-> "none", by |-> "nobody"]
Old(k, v) == [there |-> TRUE, cohort |-> TRUE, key |-> k, value |-> v, by |-> "nobody"]

\* Which documents there are at first, and what may be in them; which operators.
Scenario == [job : Job, dry : BOOLEAN, any : BOOLEAN, edits : Nat, failures : Nat, runs : SUBSET Run,
             docs : SUBSET Docs, old : SUBSET Document]

ASSUME BackfillConstants ==
  /\ Docs \subseteq Nat \ {0} /\ IsFiniteSet(Docs) /\ Vague \subseteq Keys /\ "none" \notin Keys
  /\ NoRun \notin Run /\ PageSize \in Nat \ {0} /\ Scenarios \subseteq Scenario
  /\ {LOCK_STALE, LOCK_SAFETY_MARGIN, CALL_TIMEOUT, Delay, MaxTime} \subseteq Nat
  /\ CALL_TIMEOUT + Delay < LOCK_SAFETY_MARGIN

VARIABLES
  doc,    \* the documents
  run,    \* the operators' chains and what their calls are at
  lock,   \* configs/backfillLocks.placeTypes
  clock,
  left    \* the scenario, and what is left of its bounds

vars == <<doc, run, lock, clock, left>>

job == left.job
Looping == {"home", "profiles"}              \* one call goes through all pages
Paid    == {"types", "meals", "home", "images"}  \* answers are looked up

\* by: who wrote the value of a document last.
NoLock == [by |-> NoRun, at |-> 0]

\* cursor: where the chain goes on; last: lastDocId; fresh: lastSuccessfulRenewAtMs;
\* since: when the call in flight was made; beat: a renewal whose answer is not
\* seen yet.  History: owed, what the chain found to do; tried, what it got to;
\* cut, what errors have cut off pages that it does not come back to.
Chain == [pc : {"idle", "read", "work", "looking", "write", "ending", "over"}, started : BOOLEAN,
          cursor : Nat, page : SUBSET Docs, snap : [Docs -> Document], at : Nat, full : BOOLEAN, last : Nat,
          aborted : BOOLEAN, fresh : Nat, since : Nat, lost : BOOLEAN, beat : {"none", "renewed", "lost"}, sent : Nat,
          owed : SUBSET Docs, tried : SUBSET Docs, cut : SUBSET Docs]
Unread == [d \in Docs |-> NoDoc]
NoChain == [pc |-> "idle", started |-> FALSE, cursor |-> 0, page |-> {}, snap |-> Unread, at |-> 0,
            full |-> FALSE, last |-> 0, aborted |-> FALSE, fresh |-> 0, since |-> 0, lost |-> FALSE,
            beat |-> "none", sent |-> 0, owed |-> {}, tried |-> {}, cut |-> {}]

Init ==
  /\ left \in Scenarios
  /\ \E old \in [left.docs -> left.old] : doc = [d \in Docs |-> IF d \in left.docs THEN old[d] ELSE NoDoc]
  /\ run = [r \in Run |-> NoChain] /\ lock = NoLock /\ clock = 0

-----------------------------------------------------------------------------
(* What the jobs look at *)

\* hasClassifyingTypeSignal, category # 'food', the version stamp, isHomeLocationValid,
\* the map shape, a hosted thumbnail: nothing to do for this document.
Settled(x) == x.value # "none" /\ (job = "types" => x.value \notin Vague)

Wanted(x) == ~Settled(x) /\ (job \in Paid => x.key # "none")

\* What the lookup of a job makes of a key: a place without types, a city that
\* is no confident match and a thumbnail that cannot be hosted give nothing.
Answers(k) == job \in {"home", "images"} => k \notin Vague

\* Fault: a document that was settled meanwhile is written all the same.
WritesThere(now, snap) == now.there

\* Fault: of an image the transaction looks at the link alone.
WritesSameLink(now, snap) ==
  /\ now.there /\ (job \in {"types", "category", "home"} => ~Settled(now))
  /\ job = "images" => now.key = snap.key

\* What the write checks again, in its transaction or as the document's update.
Writes(now, snap) ==
  /\ now.there
  /\ job \in {"types", "home"} => ~Settled(now)
  /\ job = "category" => ~Settled(now) /\ (left.any \/ now.key \in Keys \ Vague)
  /\ job = "images"   => now.key = snap.key /\ now.value = snap.value

\* deriveFromPin: the category the types of a pin mean.
Derived(x) == x.key

\* The answer for the place, home, collaborators or link the page showed.
Patch(x) == x.key

\* The category is derived from the document as it is, the rest from the page.
Result(now, snap) == IF job = "category" THEN Derived(now) ELSE Patch(snap)

-----------------------------------------------------------------------------
(* The lock of the paid types backfill *)

Set(r, c) == run' = [run EXCEPT ![r] = c]
Active(r) == run[r].pc \notin {"idle", "over"}

\* Fault: the run goes on until its lock is stale.
HealthyWhileHeld(r) == ~run[r].lost /\ clock - run[r].fresh <= LOCK_STALE

\* lockHealth: not known to be lost, and renewed long enough before it goes stale.
Healthy(r) == job = "types" => ~run[r].lost /\ clock - run[r].fresh <= LOCK_STALE - LOCK_SAFETY_MARGIN

Free == lock.by = NoRun \/ clock - lock.at >= LOCK_STALE

\* Only the holder's own lock is released.
Released(r) == IF lock.by = r THEN NoLock ELSE lock

\* The transaction of a heartbeat, at most one in a tick; its answer is seen
\* later, or never.
Renew(r) ==
  /\ job = "types" /\ Active(r) /\ run[r].beat = "none" /\ run[r].sent < clock
  /\ lock' = IF lock.by = r THEN [lock EXCEPT !.at = clock] ELSE lock
  /\ Set(r, [run[r] EXCEPT !.beat = IF lock.by = r THEN "renewed" ELSE "lost", !.sent = clock])
  /\ UNCHANGED <<doc, clock, left>>

SeeRenewal(r) ==
  /\ run[r].beat # "none"
  /\ Set(r, [run[r] EXCEPT !.beat = "none", !.lost = @ \/ run[r].beat = "lost",
                           !.fresh = IF run[r].beat = "renewed" THEN clock ELSE @])
  /\ UNCHANGED <<doc, lock, clock, left>>

-----------------------------------------------------------------------------
(* A call *)

\* A call of the chain; the types job needs the lock.
Begin(r) ==
  /\ r \in left.runs /\ run[r].pc = "idle"
  /\ job = "types" => Free
  /\ lock' = IF job = "types" THEN [by |-> r, at |-> clock] ELSE lock
  /\ Set(r, [run[r] EXCEPT !.pc = "read", !.fresh = clock, !.lost = FALSE, !.beat = "none", !.sent = clock,
                           !.last = 0, !.aborted = FALSE])
  /\ UNCHANGED <<doc, clock, left>>

\* Of pins the types and meals jobs query only those of the food category.
Listed(r) == {d \in Docs : d > run[r].cursor /\ doc[d].there /\ (job \in {"types", "meals"} => doc[d].cohort)}
Page(r)   == {d \in Listed(r) : Cardinality({e \in Listed(r) : e <= d}) <= PageSize}

\* Fault: a page counts as full when there was enough to do in it.
FullOfWork(page) == Cardinality({d \in page : Wanted(doc[d])}) = PageSize

Full(page) == Cardinality(page) = PageSize

ReadPage(r) ==
  /\ run[r].pc = "read"
  /\ LET page == Page(r)
     IN Set(r, [run[r] EXCEPT !.pc = IF page = {} THEN "ending" ELSE "work", !.page = page, !.full = Full(page),
                              !.snap = [d \in Docs |-> IF d \in page THEN doc[d] ELSE NoDoc], !.started = TRUE,
                              !.owed = IF run[r].started THEN @ ELSE {d \in Listed(r) : Wanted(doc[d])}])
  /\ UNCHANGED <<doc, lock, clock, left>>

\* The next document of the page, unless the lock is in danger.
Visit(r) ==
  /\ run[r].pc = "work" /\ run[r].page # {}
  /\ \E d \in run[r].page :
       /\ \A e \in run[r].page : d <= e
       /\ IF Healthy(r)
          THEN LET want == Wanted(run[r].snap[d])
               IN Set(r, [run[r] EXCEPT !.page = @ \ {d}, !.at = d, !.last = d, !.since = clock,
                          !.pc = IF ~want THEN "work" ELSE IF job \in Paid THEN "looking" ELSE "write",
                          !.tried = IF want THEN @ ELSE @ \cup {d}])
          ELSE Set(r, [run[r] EXCEPT !.aborted = TRUE, !.page = {}, !.pc = "ending"])
  /\ UNCHANGED <<doc, lock, clock, left>>

\* What becomes of a document is in the answer of the call, also a failure; of
\* an image only that it was examined.
Done(r) == [run[r] EXCEPT !.pc = "work", !.tried = @ \cup {run[r].at}, !.since = 0]
Costs   == left.failures > 0 /\ left' = [left EXCEPT !.failures = @ - 1]

LookedUp(r) ==
  /\ run[r].pc = "looking"
  /\ \/ Answers(run[r].snap[run[r].at].key) /\ Set(r, [run[r] EXCEPT !.pc = "write"]) /\ UNCHANGED left
     \/ ~Answers(run[r].snap[run[r].at].key) /\ Set(r, Done(r)) /\ UNCHANGED left
     \/ Costs /\ Set(r, Done(r))
  /\ UNCHANGED <<doc, lock, clock>>

\* The document in hand and the rest of the page.
Unfinished(r) == Docs \cap (run[r].page \cup {run[r].at})

\* Where the operator goes on after an error.  The images script prints the end
\* of its page, nextAfter, before it repairs any of it.
Resumes(r) ==
  IF job \in Looping THEN 0
  ELSE IF job = "images" /\ Unfinished(r) # {} THEN CHOOSE d \in Unfinished(r) : \A e \in Unfinished(r) : e <= d
  ELSE run[r].cursor

\* The jobs that do not catch the error of a write are over with it.
Throws(r) == [run[r] EXCEPT !.pc = "idle", !.page = {}, !.snap = Unread, !.beat = "none", !.at = 0, !.since = 0,
                            !.cursor = Resumes(r), !.cut = IF job = "images" THEN @ \cup Unfinished(r) ELSE @]

At(r) == run[r].at
Due(r) == run[r].pc = "write" /\ UNCHANGED <<lock, clock>>
Holds(r) == ~left.dry /\ Writes(doc[At(r)], run[r].snap[At(r)])

Write(r) ==
  /\ Due(r) /\ Holds(r)
  /\ doc' = [doc EXCEPT ![At(r)].value = Result(doc[At(r)], run[r].snap[At(r)]), ![At(r)].by = "run"]
  /\ Set(r, Done(r)) /\ UNCHANGED left

\* A dry run, or a document that has changed: only the update of a list that
\* is gone is an error.
Skip(r) ==
  /\ Due(r) /\ ~Holds(r)
  /\ Set(r, IF job = "profiles" /\ ~left.dry THEN Throws(r) ELSE Done(r)) /\ UNCHANGED <<doc, left>>

WriteFails(r) ==
  /\ Due(r) /\ ~left.dry /\ Costs
  /\ Set(r, IF job \in {"profiles", "images"} THEN Throws(r) ELSE Done(r)) /\ UNCHANGED doc

\* After a full page the looping jobs read the next one from the last document.
PageDone(r) ==
  /\ run[r].pc = "work" /\ run[r].page = {}
  /\ Set(r, IF job \in Looping /\ run[r].full
            THEN [run[r] EXCEPT !.pc = "read", !.cursor = run[r].at, !.snap = Unread]
            ELSE [run[r] EXCEPT !.pc = "ending", !.snap = Unread])
  /\ UNCHANGED <<doc, lock, clock, left>>

\* The lock is given back and the call answered.  The operator goes on from
\* lastDocId while there is more, or when the call says that it was aborted;
\* a lock that could not be given back goes stale.
End(r) ==
  /\ run[r].pc = "ending"
  /\ \/ lock' = (IF job = "types" THEN Released(r) ELSE lock) /\ UNCHANGED left
     \/ job = "types" /\ Costs /\ UNCHANGED lock
  /\ Set(r, [run[r] EXCEPT !.pc = IF (run[r].full /\ job \notin Looping) \/ run[r].aborted THEN "idle" ELSE "over",
                           !.cursor = IF run[r].last # 0 THEN run[r].last ELSE @,
                           !.at = 0, !.snap = Unread, !.beat = "none", !.fresh = 0, !.since = 0])
  /\ UNCHANGED <<doc, clock>>

\* The process dies, or a read throws: what the call did so far is not known.
Dies(r) ==
  /\ Active(r) /\ Costs
  /\ lock' \in {lock, Released(r)}
  /\ Set(r, Throws(r))
  /\ UNCHANGED <<doc, clock>>

-----------------------------------------------------------------------------
(* The owners, in the app *)

Edits == left.edits > 0 /\ left' = [left EXCEPT !.edits = @ - 1]
World == UNCHANGED <<run, lock, clock>>

\* A place corrected, a category or home chosen, a thumbnail replaced; for a
\* list, POST /lists/join, which puts the profile of who joins into the map.
Choose(d) ==
  /\ doc[d].there /\ Edits
  /\ \E k \in Keys : doc' = [doc EXCEPT ![d].key = k, ![d].value = k, ![d].by = "client"]
  /\ World

\* The types of a pin that stays in the cohort; a link that takes the place of
\* another one.
Rekey(d) ==
  /\ doc[d].there /\ job \in {"category", "images"} /\ Edits
  /\ \E k \in Keys \ {doc[d].key} : doc' = [doc EXCEPT ![d].key = k]
  /\ World

Recategorise(d) ==
  /\ doc[d].there /\ doc[d].cohort /\ job \in {"types", "meals"} /\ Edits
  /\ doc' = [doc EXCEPT ![d].cohort = FALSE]
  /\ World

Remove(d) ==
  /\ doc[d].there /\ Edits
  /\ doc' = [doc EXCEPT ![d] = NoDoc]
  /\ World

\* getPlaceDetailsWithTimeout ends a lookup after CALL_TIMEOUT.
Tick ==
  /\ job = "types" /\ clock < MaxTime
  /\ \A r \in Run : /\ run[r].pc = "looking" => clock < run[r].since + CALL_TIMEOUT
                    /\ run[r].beat # "none" => clock < run[r].sent + Delay
  /\ clock' = clock + 1
  /\ UNCHANGED <<doc, run, lock, left>>

RunStep(r) == \/ Begin(r) \/ ReadPage(r) \/ Visit(r) \/ LookedUp(r) \/ Write(r) \/ Skip(r) \/ WriteFails(r) \/ PageDone(r) \/ End(r)
              \/ Dies(r) \/ Renew(r) \/ SeeRenewal(r)
Owners == \E d \in Docs : Choose(d) \/ Rekey(d) \/ Recategorise(d) \/ Remove(d)

Next == (\E r \in Run : RunStep(r)) \/ Owners \/ Tick

Spec == Init /\ [][Next]_vars

-----------------------------------------------------------------------------

\* Every variable stays in its domain.
TypeOK ==
  /\ doc \in [Docs -> Document] /\ run \in [Run -> Chain]
  /\ lock \in [by : Run \cup {NoRun}, at : 0..MaxTime] /\ clock \in 0..MaxTime
  /\ left \in Scenario

\* What an owner settled, also while a run looked the document up, is never
\* taken back by one, although all go by pages read before: a thumbnail that was
\* replaced, a category, a home, the types of a corrected place.  What a run
\* fills in is of the types the pin has at that moment, of the link it still
\* has; and it fills in nothing that was removed, nor when it is dry.  (Nothing
\* is promised of the meals and profiles jobs, nor of types that decide nothing,
\* backfillPlaceTypes.js:298-300, repairThumbnails.js:45-55.)
EditsPrevail == [][\A d \in Docs :
  /\ job \notin {"meals", "profiles"} /\ doc[d].by = "client" /\ Settled(doc[d]) /\ doc'[d].there => doc'[d].by = "client"
  /\ job \in {"category", "images"} /\ doc'[d].by = "run" /\ doc'[d].value # doc[d].value => doc'[d].value = doc[d].key
  /\ doc'[d].by = "run" /\ doc[d].by # "run" => doc[d].there /\ ~left.dry]_vars

\* When an operator's chain of calls says that nothing is left, every document
\* that needed the job at its start was worked on or reported, or needs it no
\* longer: neither aborts, throws nor deletions between pages leave one out.
\* Only an images script that ended in the middle of a page has skipped the
\* rest of that page (backfill-thumbnails.js:30-40), and nothing else.
ChainVisitsAll == \A r \in Run : run[r].pc = "over" =>
  \A d \in run[r].owed : d \in run[r].tried \cup run[r].cut \/ ~doc[d].there \/ ~doc[d].cohort

\* Two runs of the types job never pay at the same time, whatever heartbeats
\* fail or come late, as long as an answer is not later than Delay.
OneSpender == job = "types" => \A r, s \in Run : run[r].pc = "looking" /\ run[s].pc = "looking" => r = s
=============================================================================
