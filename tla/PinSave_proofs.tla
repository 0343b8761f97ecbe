---------------------------- MODULE PinSave_proofs ----------------------------
(***************************************************************************)
(* Proofs about PinSave: one pin of a place, outcomes that are true, and   *)
(* choices of the user that no retry forgets, for any places, links, jobs  *)
(* and bounds.                                                             *)
(***************************************************************************)
EXTENDS PinSave, FiniteSetTheorems, WellFoundedInduction, TLAPS

\* What a pin's fields hold besides the place does not matter here.
Pin(P, U, X, B) == [place : P, url : U, sources : X, live : BOOLEAN, by : B]
ArePins(q) == \E P, U, X, B : q \in Seq(Pin(P, U, X, B))

Unique(q) == \A i, k \in DOMAIN q : q[i].live /\ q[k].live /\ q[i].place = q[k].place => i = k

Placed == ArePins(pins) /\ Unique(pins)

\* The live pins of a place are one at most.
LEMMA UniqueCounts == Placed => OnePinPerPlace
<1> SUFFICES ASSUME Placed, NEW p \in Places PROVE Cardinality(LivePins(p)) <= 1
  BY DEF OnePinPerPlace
<1>1. \A i, k \in LivePins(p) : i = k
  BY DEF Placed, Unique, LivePins
<1>2. CASE LivePins(p) = {}
  BY <1>2, FS_EmptySet
<1>3. CASE LivePins(p) # {}
  <2>1. PICK i : i \in LivePins(p)
    BY <1>3
  <2>2. LivePins(p) = {i}
    BY <1>1, <2>1
  <2>3. Cardinality({i}) = 1
    BY FS_Singleton
  <2> QED BY <2>2, <2>3
<1> QED BY <1>2, <1>3

LEMMA SeqGrows == ASSUME NEW S, NEW T, S \subseteq T, NEW q \in Seq(S) PROVE q \in Seq(T)
  OBVIOUS

\* A pin that changes in anything but its place, and is live only if it was.
LEMMA ChangedOne ==
  ASSUME Placed, NEW i \in DOMAIN pins, NEW x, NEW live \in BOOLEAN, live => pins[i].live,
         pins' = [pins EXCEPT ![i] = [pins[i] EXCEPT !.sources = x, !.live = live]]
  PROVE  Placed'
<1>1. PICK P, U, X, B : pins \in Seq(Pin(P, U, X, B))
  BY DEF Placed, ArePins
<1>2. [pins[i] EXCEPT !.sources = x, !.live = live] \in Pin(P, U, X \cup {x}, B)
  <2>1. pins[i] \in Pin(P, U, X, B)
    BY <1>1
  <2> QED BY <2>1 DEF Pin
<1>3. pins \in Seq(Pin(P, U, X \cup {x}, B))
  <2>1. Pin(P, U, X, B) \subseteq Pin(P, U, X \cup {x}, B)
    BY DEF Pin
  <2> QED BY <1>1, <2>1, SeqGrows
<1>4. pins' \in Seq(Pin(P, U, X \cup {x}, B)) /\ DOMAIN pins' = DOMAIN pins
  BY <1>2, <1>3
<1>5. ASSUME NEW k \in DOMAIN pins PROVE pins'[k].place = pins[k].place /\ (pins'[k].live => pins[k].live)
  <2>1. pins[i] \in Pin(P, U, X, B) /\ pins'[k] = IF k = i THEN [pins[i] EXCEPT !.sources = x, !.live = live] ELSE pins[k]
    BY <1>1
  <2>2. [pins[i] EXCEPT !.sources = x, !.live = live].place = pins[i].place /\ [pins[i] EXCEPT !.sources = x, !.live = live].live = live
    BY <2>1 DEF Pin
  <2> QED BY <2>1, <2>2
<1> QED BY <1>4, <1>5 DEF Placed, ArePins, Unique

LEMMA AttachedOne == ASSUME Placed, NEW i \in DOMAIN pins, NEW l, pins' = Attached(i, l) PROVE Placed'
<1>1. PICK P, U, X, B : pins \in Seq(Pin(P, U, X, B))
  BY DEF Placed, ArePins
<1> DEFINE x == pins[i].sources \cup {l}
           live == pins[i].live
<1>2. live \in BOOLEAN /\ pins' = [pins EXCEPT ![i] = [pins[i] EXCEPT !.sources = x, !.live = live]]
  <2>1. pins[i] \in Pin(P, U, X, B)
    BY <1>1
  <2>2. live \in BOOLEAN /\ [pins[i] EXCEPT !.sources = x] = [pins[i] EXCEPT !.sources = x, !.live = live]
    BY <2>1 DEF Pin
  <2>3. pins' = [pins EXCEPT ![i] = [pins[i] EXCEPT !.sources = x]]
    BY DEF Attached
  <2> QED BY <2>2, <2>3
<1> QED BY <1>2, ChangedOne

LEMMA AddedOne ==
  ASSUME Placed, NEW p, LivePins(p) = {}, NEW u, NEW x, NEW b,
         pins' = Append(pins, [place |-> p, url |-> u, sources |-> x, live |-> TRUE, by |-> b])
  PROVE  Placed'
<1>1. PICK P, U, X, B : pins \in Seq(Pin(P, U, X, B))
  BY DEF Placed, ArePins
<1> DEFINE new == [place |-> p, url |-> u, sources |-> x, live |-> TRUE, by |-> b]
           All == Pin(P \cup {p}, U \cup {u}, X \cup {x}, B \cup {b})
<1>2. new \in All /\ Pin(P, U, X, B) \subseteq All
  BY DEF Pin
<1>3. pins \in Seq(All)
  <2> HIDE DEF All
  <2> QED BY <1>1, <1>2, SeqGrows
<1>4. pins' \in Seq(All) /\ DOMAIN pins = 1..Len(pins) /\ DOMAIN pins' = 1..(Len(pins) + 1) /\ Len(pins) \in Nat
      /\ pins'[Len(pins) + 1] = new /\ \A k \in 1..Len(pins) : pins'[k] = pins[k]
  <2> HIDE DEF All
  <2> QED BY <1>2, <1>3
<1>5. \A k \in DOMAIN pins : pins[k].live => pins[k].place # p
  BY DEF LivePins
<1>6. new.place = p
  OBVIOUS
<1>7. Unique(pins')
  <2> HIDE DEF new
  <2> QED BY <1>4, <1>5, <1>6 DEF Unique, Placed
<1> QED BY <1>4, <1>7 DEF Placed, ArePins

\* The transaction of the save: it looks for the place among the pins again.
LEMMA WrittenOne ==
  ASSUME Placed, NEW j \in Jobs, NEW p, NEW i \in Target(j, p), pins' = Written(j, p, i)
  PROVE  Placed'
<1>1. CASE i \in DOMAIN pins
  BY <1>1, AttachedOne DEF Written
<1>2. CASE i \notin DOMAIN pins
  <2>1. LivePins(p) = {}
    BY <1>2 DEF Target, LivePins
  <2> QED BY <1>2, <2>1, AddedOne DEF Written
<1> QED BY <1>1, <1>2

LEMMA PlacedInit == Init => Placed
<1> SUFFICES ASSUME Init PROVE Placed
  OBVIOUS
<1> DEFINE S == {[place |-> p, url |-> "none", sources |-> {}, live |-> TRUE, by |-> 0] : p \in left.pinned}
<1>1. left.pinned \subseteq Places /\ IsFiniteSet(Places)
  BY SaveConstants DEF Init, Scenario
<1>2. IsFiniteSet(S) /\ Cardinality(S) \in Nat
  <2>1. IsFiniteSet(left.pinned)
    BY <1>1, FS_Subset
  <2>2. IsFiniteSet(S)
    <3> DEFINE f == [p \in left.pinned |-> [place |-> p, url |-> "none", sources |-> {}, live |-> TRUE, by |-> 0]]
    <3>1. f \in Surjection(left.pinned, S)
      BY DEF Surjection
    <3> HIDE DEF f, S
    <3> QED BY <2>1, <3>1, FS_Surjection
  <2> QED BY <2>2, FS_CardinalityType
<1>3. pins \in [1..Cardinality(S) -> S] /\ \A i, k \in 1..Cardinality(S) : i # k => pins[i] # pins[k]
  BY DEF Init, SetToSeqs
<1>4. S \subseteq Pin(Places, {"none"}, {{}}, {0})
  <2>1. ASSUME NEW y \in S PROVE y \in Pin(Places, {"none"}, {{}}, {0})
    <3>1. PICK p \in left.pinned : y = [place |-> p, url |-> "none", sources |-> {}, live |-> TRUE, by |-> 0]
      BY <2>1
    <3> QED BY <1>1, <3>1 DEF Pin
  <2> QED BY <2>1
<1>5. pins \in Seq(Pin(Places, {"none"}, {{}}, {0}))
  <2> HIDE DEF S
  <2> QED BY <1>2, <1>3, <1>4
<1>6. ASSUME NEW y \in S, NEW z \in S, y.place = z.place PROVE y = z
  <2>1. PICK p \in left.pinned : y = [place |-> p, url |-> "none", sources |-> {}, live |-> TRUE, by |-> 0]
    BY <1>6
  <2>2. PICK q \in left.pinned : z = [place |-> q, url |-> "none", sources |-> {}, live |-> TRUE, by |-> 0]
    BY <1>6
  <2>3. y.place = p /\ z.place = q
    BY <2>1, <2>2
  <2> QED BY <1>6, <2>1, <2>2, <2>3
<1>7. Unique(pins)
  <2> HIDE DEF S
  <2> QED BY <1>3, <1>6 DEF Unique
<1> QED BY <1>5, <1>7 DEF Placed, ArePins

LEMMA PlacedStep == Placed /\ [Next]_vars => Placed'
<1> SUFFICES ASSUME Placed, [Next]_vars PROVE Placed'
  OBVIOUS
<1>1. ASSUME UNCHANGED pins PROVE Placed'
  BY <1>1 DEF Placed
<1>2. ASSUME NEW j \in Jobs, NEW i, Appends(j, i) PROVE Placed'
  <2>1. CASE i \in DOMAIN pins
    BY <1>2, <2>1, AttachedOne DEF Appends
  <2>2. CASE i \notin DOMAIN pins
    <3>1. PICK P, U, X, B : pins \in Seq(Pin(P, U, X, B))
      BY DEF Placed, ArePins
    <3>2. pins' = pins
      BY <1>2, <2>2, <3>1 DEF Appends, Attached
    <3> QED BY <1>1, <3>2
  <2> QED BY <2>1, <2>2
<1>3. ASSUME NEW j \in Jobs, AppendNext(j) \/ Attach(j) PROVE Placed'
  BY <1>1, <1>2, <1>3 DEF AppendNext, Attach
<1>4. ASSUME NEW j \in Jobs, SaveConfirmed(j) \/ SaveSingle(j) PROVE Placed'
  BY <1>1, <1>4, WrittenOne DEF SaveConfirmed, SaveSingle, Saves
<1>5. ASSUME NEW i \in DOMAIN pins, UserDeletes(i) PROVE Placed'
  <2>1. PICK P, U, X, B : pins \in Seq(Pin(P, U, X, B))
    BY DEF Placed, ArePins
  <2> DEFINE x == pins[i].sources
  <2>2. pins[i] \in Pin(P, U, X, B)
    BY <2>1
  <2>3. [pins[i] EXCEPT !.live = FALSE] = [pins[i] EXCEPT !.sources = x, !.live = FALSE]
    BY <2>2 DEF Pin
  <2>4. pins' = [pins EXCEPT ![i] = [pins[i] EXCEPT !.live = FALSE]]
    BY <1>5 DEF UserDeletes
  <2> QED BY <2>3, <2>4, ChangedOne
<1>6. ASSUME NEW j \in Jobs, Work(j) PROVE Placed'
  <2>1. ASSUME ReadContext(j) \/ Checkpoint(j) \/ KnownLink(j) \/ AnalysisFails(j) PROVE UNCHANGED pins
    BY <2>1 DEF ReadContext, Checkpoint, KnownLink, AnalysisFails
  <2>2. ASSUME NEW found, NEW matched, NEW unsure, NEW how, Analyse(j, found, matched, unsure, how) PROVE UNCHANGED pins
    BY <2>2 DEF Analyse
  <2>3. ASSUME StoreMatches(j) PROVE UNCHANGED pins
    BY <2>3 DEF StoreMatches
  <2>4. ASSUME Finish(j) \/ Stopped(j) PROVE UNCHANGED pins
    BY <2>4 DEF Finish, Stopped
  <2>5. ASSUME NEW p, FindByMaps(j, p) \/ (\E unsure \in BOOLEAN : FindFallback(j, p, unsure)) PROVE UNCHANGED pins
    BY <2>5 DEF FindByMaps, FindFallback
  <2> QED BY <1>1, <1>3, <1>4, <1>6, <2>1, <2>2, <2>3, <2>4, <2>5 DEF Work
<1>7. CASE \E j \in Jobs : Crash(j) \/ Sweep(j) \/ (\E S \in SUBSET Places : Select(j, S)) \/ (\E p \in Places : ReviewDismisses(j, p))
  BY <1>1, <1>7 DEF Crash, Sweep, Select, ReviewDismisses
<1>8. CASE \E j \in Jobs : (\E l \in left.links : Share(j, l)) \/ (\E q \in Jobs, kind \in {"places", "analysis"} : Retry(j, q, kind))
  <2>1. ASSUME NEW j, NEW l, NEW q, NEW kind, NEW budget, Admit(j, l, q, kind, budget) PROVE UNCHANGED pins
    BY <2>1 DEF Admit
  <2> QED BY <1>1, <1>8, <2>1 DEF Share, Retry
<1>9. CASE UNCHANGED vars
  BY <1>1, <1>9 DEF vars
<1> QED BY <1>5, <1>6, <1>7, <1>8, <1>9 DEF Next

\* However many jobs look for a place and save it at once, and whichever stop
\* or are repeated, the account has one pin of it.
THEOREM OnePinHolds == Spec => []OnePinPerPlace
<1>1. Spec => []Placed
  BY PlacedInit, PlacedStep, PTL DEF Spec
<1> QED BY <1>1, UniqueCounts, PTL

--------------------------------------------------------------------------
(* The invariant of what jobs and workers know *)

Phases == {"idle", "context", "checkpoint", "analyse", "append", "confirm", "direct", "attach", "select", "report"}
Recoveries == {"absent", "none", "incomplete"}
PinDoc  == [place : Places, url : Links \cup {"none"}, sources : SUBSET Links, live : BOOLEAN, by : 0..MaxJobs]
JobDoc  == [st : Over \cup {"none", "processing"}, link : Links \cup {"none"}, par : Nat, kind : {"places", "analysis"},
            out : [Places -> Outcome], cand : SUBSET Places, rcand : SUBSET Places, picked : BOOLEAN, chosen : SUBSET Places,
            recovery : Recoveries, unstarted : BOOLEAN, partial : BOOLEAN, begun : BOOLEAN,
            wants : SUBSET Places, drops : SUBSET Places, unpicked : SUBSET Places]
Memory  == [pc : Phases, out : [Places -> Outcome], init : [Places -> Outcome], stored : SUBSET Places, rec : Recoveries,
            cand : SUBSET Places, todo : SUBSET Places, unsure : SUBSET (Places \cup Nat), again : SUBSET Places, sure : SUBSET Places,
            reread : BOOLEAN, sound : BOOLEAN, verdict : Over, pin : Nat]

Typed ==
  /\ left \in Scenario /\ pins \in Seq(PinDoc)
  /\ doc \in [Jobs -> JobDoc] /\ worker \in [Jobs -> Memory]

\* The outcome of a candidate before it is saved.
Candidate(conf) == [st |-> "candidate", pin |-> 0, conf |-> conf]

\* A first attempt, or one that stored what it inherited.
Started(j) == doc[j].par = 0 \/ doc[j].begun

\* A retry of a document passes it through for ever or never.
Settled(q) == doc[q].kind = "analysis" => doc[q].st = "failed" \/ doc[q].recovery # "absent"

\* A job shares the link of the job it is a retry of.
Lineal(j) ==
  /\ doc[j].st # "none" => \A i \in 1..(j - 1) : doc[i].st # "none"
  /\ doc[j].par \in 0..(j - 1)
  /\ doc[j].par # 0 => LET q == doc[j].par IN doc[q].st # "none" /\ doc[q].link = doc[j].link /\ Settled(q)

\* What the status of a document says of the rest of it, and of its worker.
Lawful(j) ==
  LET d == doc[j]
      w == worker[j] IN
  /\ d.st = "none" => d = NoDoc /\ w = Idle
  /\ d.st # "none" => d.link \in Links
  /\ d.partial => d.st = "failed" /\ w.pc = "idle"
  /\ d.unstarted => d.st = "failed" /\ ~d.partial /\ w.pc = "idle"
  /\ d.st = "needs_selection" => w.pc = "idle" /\ ~d.picked /\ ~d.partial /\ Started(j) /\ d.link \notin MapsLinks
  /\ d.picked => w.pc \in {"idle", "select"}
  /\ d.kind = "analysis" /\ (d.st \in {"complete", "duplicate", "needs_selection"} \/ d.partial) => d.recovery # "absent"

\* Where a worker is in its attempt.
Phased(j) ==
  LET d == doc[j]
      w == worker[j] IN
  /\ w.pc = "context" => w = [Idle EXCEPT !.pc = "context"]
  /\ w.pc \in {"context", "checkpoint"} => d.out = Blank /\ ~d.begun /\ d.par # 0
  /\ w.pc \in {"idle", "context", "checkpoint", "analyse"} => w.out = w.init /\ w.pin = 0
  /\ w.pc \notin {"idle", "context", "checkpoint"} => Started(j) \/ (w.pc = "report" /\ w.verdict = "failed")
  /\ d.kind = "analysis" /\ w.pc \notin {"idle", "context"} => w.rec # "absent" \/ (w.pc = "report" /\ w.verdict = "failed" /\ w.out = Blank)
  /\ w.pc = "select" => d.picked /\ w.todo \subseteq d.chosen
  /\ w.pc = "attach" => w.unsure \subseteq Nat
  /\ w.pc # "idle" /\ d.link \in MapsLinks =>
       w.pc \in {"context", "checkpoint", "analyse", "direct", "report"} /\ (w.pc = "report" => w.verdict # "needs_selection")

\* Of a place that is not known nothing is.
Plain(o) == o.st = "none" => o = None

\* What a worker inherited, and what it still calls a candidate.
Matched(j) ==
  LET w == worker[j] IN
  /\ \A p \in Places : Plain(doc[j].out[p]) /\ Plain(w.init[p]) /\ Plain(w.out[p]) /\ w.init[p].st # "candidate"
  /\ \A p \in Places : w.init[p].st = "unresolved" /\ w.init[p].conf => p \in w.again
  /\ w.pc = "append" => \A p \in w.cand : w.out[p] = Candidate(w.init[p].conf) /\ p \notin w.todo
  /\ w.pc = "confirm" => /\ w.sure = {p \in w.cand : w.init[p].conf} /\ w.todo \subseteq w.sure
                         /\ \A p \in w.todo \cup Rest(w) : w.out[p] = Candidate(w.init[p].conf)
  /\ w.pc \in {"append", "confirm"} => \A p \in w.cand : w.init[p].conf => p \in w.again
  /\ \A p \in Places : w.out[p].st = "candidate" => CASE w.pc = "append" -> p \in w.cand
                                                     [] w.pc = "confirm" -> p \in w.todo \cup Rest(w)
                                                     [] OTHER -> w.pc = "report"

\* A pin received the link.
Holds(i, l) == i \in DOMAIN pins /\ l \in pins[i].sources
Says(o, l) == o.st \in {"saved", "existing"} => Holds(o.pin, l)
Pinned(p) == \E i \in DOMAIN pins : pins[i].place = p

Truthful(j) ==
  LET w == worker[j]
      l == doc[j].link IN
  /\ \A p \in Places : Says(doc[j].out[p], l) /\ Says(w.init[p], l)
  /\ \A p \in Places : ~(w.pc = "append" /\ p \in w.todo) => Says(w.out[p], l)
  /\ w.pc = "append" => \A p \in w.todo : w.out[p].st = "existing" /\ w.out[p].pin \in DOMAIN pins /\ Pinned(p)
  /\ w.pc \in {"append", "confirm"} /\ w.pin # 0 => Holds(w.pin, l)
  /\ w.pc = "report" /\ w.verdict \in {"complete", "duplicate"} => \A p \in Places : w.out[p].st = "candidate" => Holds(w.pin, l)

\* A dismissal stays in a job's document, and in the memory of its worker.
Dropped(j) ==
  LET d == doc[j]
      w == worker[j] IN
  /\ w.pc # "idle" => \A p \in Places : d.out[p].st \in Dismissed => w.out[p] = d.out[p]
  /\ w.pc \in {"append", "confirm"} => \A p \in Places : w.out[p].st \in Dismissed => w.out[p] = w.init[p]
  /\ d.st = "needs_selection" => \A p \in d.cand : d.out[p].st \notin Dismissed
  /\ w.pc = "select" => \A p \in w.todo : w.out[p].st \notin Dismissed
  /\ w.pc = "report" /\ w.verdict = "needs_selection" => \A p \in Rest(w) : w.out[p].st \notin Dismissed
  /\ w.pc = "checkpoint" => \A p \in d.drops : w.out[p].st \in Dismissed
  /\ d.begun => \A p \in d.drops : d.out[p].st \in Dismissed

\* A choice of the user is carried on the same way, or has become a pin.
Safe(out, p) == Pinned(p) \/ out[p].st \in Dismissed \/ out[p] = Unresolved(TRUE)

\* What a document says of a place that a retry saves without asking, or leaves
\* alone, if it is not pinned.
Held(j, p) ==
  LET d == doc[j]
      o == d.out[p]
      picked == d.picked /\ p \in d.chosen
  IN  \/ o.st \in Dismissed
      \/ o.st = "candidate" /\ (IF d.picked THEN p \in d.chosen ELSE o.conf)
      \/ o.st = "unresolved" /\ (o.conf \/ picked)
      \/ o.st = "none" /\ picked /\ p \in Stored(j)

Wanted(j) ==
  LET d == doc[j]
      w == worker[j] IN
  /\ Started(j) => \A p \in d.wants : Pinned(p) \/ Held(j, p)
  /\ d.st = "needs_selection" => \A p \in d.wants : Safe(d.out, p)
  /\ w.pc # "idle" /\ (Started(j) \/ w.pc = "checkpoint") =>
       \A p \in d.wants : \/ Safe(w.out, p)
                          \/ w.pc \in {"confirm", "select"} /\ p \in w.todo
                          \/ (w.pc = "append" \/ (w.pc = "report" /\ w.verdict = "failed")) /\ w.out[p] = Candidate(TRUE)
  /\ w.pc \in {"append", "confirm"} => \A p \in Places : w.out[p].st \in Committed => w.init[p].st \in Committed \/ Pinned(p)
  /\ w.pc = "report" /\ w.verdict = "needs_selection" => \A p \in Rest(w) : w.out[p].st \in Committed => Pinned(p)
  /\ d.st = "needs_selection" => \A p \in d.cand : d.out[p].st \in Committed => Pinned(p)

\* Until a retry has read its ancestor's document, that is where the user's
\* choices and dismissals are.
Kin(j) ==
  LET d == doc[j]
      q == Ancestor(j) IN
  /\ Lineal(j)
  /\ d.par = 0 => d.drops = {}
  /\ d.par # 0 => \A p \in d.drops : doc[q].out[p].st \in Dismissed
  /\ ~Started(j) => d.wants = {} \/ (Started(q) /\ d.wants \subseteq doc[q].wants)

\* What becomes of the place of a pin in the documents of the job that created it.
Told(j, p) ==
  LET d == doc[j]
      w == worker[j] IN
  /\ d.st # "none" /\ d.out[p].st # "dismissed" /\ w.out[p].st # "dismissed"
  /\ d.out[p].st = "candidate" => (d.picked => p \in d.chosen) /\ d.st # "needs_selection"
  /\ w.pc \in {"idle", "confirm", "report", "select"}
  /\ w.pc = "confirm" => w.out[p].st \in Committed /\ p \in w.sure
  /\ w.pc = "report" /\ w.verdict = "needs_selection" => w.out[p].st # "candidate"
Tells(j) == \A i \in DOMAIN pins : pins[i].by = j => Told(j, pins[i].place)

\* No user dismisses places of a link that names its place.
Undismissed(j) ==
  doc[j].link \in MapsLinks \/ worker[j].pc = "direct" =>
    \A p \in Places : doc[j].out[p].st # "dismissed" /\ worker[j].out[p].st # "dismissed"

\* What is said of a job on its own.
Own(j) == Lawful(j) /\ Phased(j) /\ Matched(j) /\ Truthful(j) /\ Dropped(j) /\ Wanted(j) /\ Undismissed(j) /\ Tells(j)

Inv == Typed /\ Placed /\ \A j \in Jobs : Kin(j) /\ Own(j)

-----------------------------------------------------------------------------
(* Where a lineage ends *)

\* A set of numbers has a least one.
LEMMA Least == ASSUME NEW S \in SUBSET Nat, S # {} PROVE \E m \in S : \A n \in S : m <= n
<1>1. IsWellFoundedOn(OpToRel(<, Nat), Nat)
  BY NatLessThanWellFounded
<1>2. PICK m \in S : \A n \in S : ~ (<<n, m>> \in OpToRel(<, Nat))
  BY <1>1, WFMin
<1>3. \A n \in S : ~ (n < m)
  BY <1>2 DEF OpToRel
<1> QED BY <1>3

\* Retries come after what they are retries of.
Younger == \A j \in Jobs : doc[j].par \in 0..(j - 1)

\* The origin of a retry is that of its parent, where it passes the parent through.
LEMMA OriginIs ==
  ASSUME Younger, NEW kind, NEW par \in 0..MaxJobs
  PROVE  Origin(par, kind) = IF par # 0 /\ PassedThrough(par, kind) THEN Origin(doc[par].par, kind) ELSE par
<1> DEFINE Up(f, n) == [q \in 0..n |-> IF q # 0 /\ PassedThrough(q, kind) THEN f[doc[q].par] ELSE q]
           Bad == {n \in 0..MaxJobs : ~ \E f : f = Up(f, n)}
<1>1. Bad = {}
  <2> SUFFICES ASSUME Bad # {} PROVE FALSE
    OBVIOUS
  <2>1. Bad \in SUBSET Nat /\ MaxJobs \in Nat
    BY SaveConstants
  <2> HIDE DEF Bad
  <2>2. PICK n \in Bad : \A m \in Bad : n <= m
    BY <2>1, Least
  <2> USE DEF Bad
  <2>3. n \in 0..MaxJobs /\ n \in Nat
    BY <2>1
  <2>4. n # 0
    <3>1. [q \in 0..0 |-> q] = Up([q \in 0..0 |-> q], 0)
      OBVIOUS
    <3> QED BY <3>1
  <2>5. n - 1 \in 0..MaxJobs /\ n - 1 \notin Bad
    BY <2>1, <2>2, <2>3, <2>4
  <2>6. PICK g : g = Up(g, n - 1)
    BY <2>5
  <2> DEFINE f == [q \in 0..n |-> IF q = n THEN IF PassedThrough(n, kind) THEN g[doc[n].par] ELSE n ELSE g[q]]
  <2>7. \A q \in 0..n : q # 0 => doc[q].par \in 0..(q - 1)
    BY <2>1, <2>3 DEF Younger, Jobs
  <2>8. \A q \in 0..(n - 1) : f[q] = g[q]
    BY <2>3
  <2>9. f[n] = IF PassedThrough(n, kind) THEN f[doc[n].par] ELSE n
    <3>1. doc[n].par \in 0..(n - 1)
      BY <2>3, <2>4, <2>7
    <3> QED BY <2>3, <2>8, <3>1
  <2>10. ASSUME NEW q \in 0..n PROVE f[q] = IF q # 0 /\ PassedThrough(q, kind) THEN f[doc[q].par] ELSE q
    <3>1. CASE q = n
      BY <2>4, <2>9, <3>1
    <3>2. CASE q # n
      <4>1. q \in 0..(n - 1)
        BY <2>3, <3>2
      <4>2. g[q] = IF q # 0 /\ PassedThrough(q, kind) THEN g[doc[q].par] ELSE q
        <5> HIDE DEF f
        <5> QED BY <2>6, <4>1
      <4>3. q # 0 => doc[q].par \in 0..(n - 1)
        BY <2>3, <2>7, <4>1
      <4> HIDE DEF f
      <4> QED BY <2>8, <4>1, <4>2, <4>3
    <3> QED BY <3>1, <3>2
  <2>11. f = Up(f, n)
    <3>1. f = [q \in 0..n |-> f[q]]
      OBVIOUS
    <3> HIDE DEF f
    <3> QED BY <2>10, <3>1
  <2> QED BY <2>2, <2>11
<1>2. PICK f : f = Up(f, MaxJobs)
  <2>1. MaxJobs \in 0..MaxJobs
    BY SaveConstants
  <2> QED BY <1>1, <2>1
<1> DEFINE up == CHOOSE h : h = Up(h, MaxJobs)
<1>3. up = Up(up, MaxJobs)
  BY <1>2
<1>4. \A q : Origin(q, kind) = up[q]
  BY DEF Origin
<1>5. up[par] = IF par # 0 /\ PassedThrough(par, kind) THEN up[doc[par].par] ELSE par
  <2> HIDE DEF up
  <2> QED BY <1>3
<1> QED BY <1>4, <1>5

\* What no step takes back of a document that is there.
Evolves(j) ==
  LET d == doc[j]
      e == doc'[j] IN
  d.st # "none" =>
    /\ e.st # "none" /\ e.link = d.link /\ e.par = d.par /\ e.kind = d.kind /\ e.unstarted = d.unstarted /\ e.drops = d.drops
    /\ d.wants \subseteq e.wants /\ (e.wants = d.wants \/ Started(j)) /\ (d.begun => e.begun)
    /\ d.recovery # "absent" => e.recovery # "absent"
    /\ d.kind = "analysis" /\ d.st = "failed" /\ d.recovery = "absent" => e.st = "failed" /\ e.recovery = "absent"
    /\ \A p \in Places : d.out[p].st \in Dismissed => e.out[p].st \in Dismissed

\* An unstarted receipt failed, and stays so.
Receipts == \A j \in Jobs : doc[j].unstarted => doc[j].st = "failed"

LEMMA SettledStays == ASSUME NEW q \in Jobs, doc[q].st # "none", Settled(q), Evolves(q) PROVE Settled(q)'
  BY DEF Evolves, Settled

LEMMA PassedStays ==
  ASSUME Receipts, Receipts', NEW q \in Jobs, doc[q].st # "none", Settled(q), Evolves(q), NEW kind \in {"places", "analysis"}
  PROVE  PassedThrough(q, kind)' <=> PassedThrough(q, kind)
<1>1. CASE kind = "places"
  <2>1. /\ PassedThrough(q, "places") <=> doc[q].par # 0 /\ doc[q].kind = "places" /\ doc[q].unstarted
        /\ PassedThrough(q, "places")' <=> doc'[q].par # 0 /\ doc'[q].kind = "places" /\ doc'[q].unstarted
    BY DEF PassedThrough, Receipts
  <2> QED BY <1>1, <2>1 DEF Evolves
<1>2. CASE kind = "analysis"
  BY <1>2 DEF PassedThrough, Evolves, Settled
<1> QED BY <1>1, <1>2

\* The end of a lineage is a job of the same link.
LEMMA OriginKin ==
  ASSUME Younger, \A j \in Jobs : Lineal(j), NEW kind
  PROVE  \A q \in Jobs : doc[q].st # "none" =>
           Origin(q, kind) \in Jobs /\ doc[Origin(q, kind)].st # "none" /\ doc[Origin(q, kind)].link = doc[q].link
<1> DEFINE Fine(q) == Origin(q, kind) \in Jobs /\ doc[Origin(q, kind)].st # "none" /\ doc[Origin(q, kind)].link = doc[q].link
           Bad == {q \in Jobs : doc[q].st # "none" /\ ~Fine(q)}
<1> SUFFICES ASSUME Bad # {} PROVE FALSE
  OBVIOUS
<1>1. Bad \in SUBSET Nat /\ MaxJobs \in Nat
  BY SaveConstants DEF Jobs
<1> HIDE DEF Bad
<1>2. PICK q \in Bad : \A n \in Bad : q <= n
  BY <1>1, Least
<1> USE DEF Bad
<1>3. q \in Jobs /\ q # 0 /\ q \in 0..MaxJobs /\ doc[q].st # "none"
  BY <1>1 DEF Jobs
<1>4. Origin(q, kind) = IF PassedThrough(q, kind) THEN Origin(doc[q].par, kind) ELSE q
  BY <1>3, OriginIs
<1>5. CASE ~PassedThrough(q, kind)
  BY <1>3, <1>4, <1>5
<1>6. CASE PassedThrough(q, kind)
  <2>1. doc[q].par # 0 /\ doc[q].par \in 0..(q - 1) /\ doc[doc[q].par].st # "none" /\ doc[doc[q].par].link = doc[q].link
    BY <1>3, <1>6 DEF PassedThrough, Lineal
  <2>2. doc[q].par \in Jobs /\ ~(q <= doc[q].par)
    BY <1>1, <1>3, <2>1 DEF Jobs
  <2>3. doc[q].par \notin Bad
    <3> HIDE DEF Bad
    <3> QED BY <1>2, <2>2
  <2> QED BY <1>4, <1>6, <2>1, <2>2, <2>3
<1> QED BY <1>5, <1>6

LEMMA OriginAfter ==
  Younger' => (\A kind \in {"places", "analysis"}, par \in 0..MaxJobs :
                 Origin(par, kind) = IF par # 0 /\ PassedThrough(par, kind) THEN Origin(doc[par].par, kind) ELSE par)'
<1>1. Younger => \A kind \in {"places", "analysis"}, par \in 0..MaxJobs :
                   Origin(par, kind) = IF par # 0 /\ PassedThrough(par, kind) THEN Origin(doc[par].par, kind) ELSE par
  BY OriginIs
<1> QED BY <1>1, PTL

\* The end of a lineage does not move.
LEMMA OriginStays ==
  ASSUME Younger, Younger', Receipts, Receipts', \A j \in Jobs : Lineal(j) /\ Evolves(j), NEW kind \in {"places", "analysis"}
  PROVE  \A q \in Jobs : doc[q].st # "none" /\ Settled(q) => Origin(q, kind)' = Origin(q, kind)
<1> DEFINE Bad == {q \in Jobs : doc[q].st # "none" /\ Settled(q) /\ Origin(q, kind)' # Origin(q, kind)}
<1> SUFFICES ASSUME Bad # {} PROVE FALSE
  OBVIOUS
<1>1. Bad \in SUBSET Nat /\ MaxJobs \in Nat
  BY SaveConstants DEF Jobs
<1> HIDE DEF Bad
<1>2. PICK q \in Bad : \A n \in Bad : q <= n
  BY <1>1, Least
<1> USE DEF Bad
<1>3. q \in Jobs /\ q # 0 /\ q \in 0..MaxJobs /\ doc[q].st # "none" /\ Settled(q)
  BY <1>1 DEF Jobs
<1>4. Origin(q, kind) = IF PassedThrough(q, kind) THEN Origin(doc[q].par, kind) ELSE q
  BY <1>3, OriginIs
<1>5. Origin(q, kind)' = IF PassedThrough(q, kind)' THEN Origin(doc[q].par, kind)' ELSE q
  BY <1>3, OriginAfter
<1>6. (PassedThrough(q, kind)' <=> PassedThrough(q, kind)) /\ doc'[q].par = doc[q].par
  BY <1>3, PassedStays DEF Evolves
<1>7. CASE ~PassedThrough(q, kind)
  BY <1>4, <1>5, <1>6, <1>7
<1>8. CASE PassedThrough(q, kind)
  <2>1. doc[q].par # 0 /\ doc[q].par \in 0..(q - 1) /\ doc[doc[q].par].st # "none" /\ Settled(doc[q].par)
    BY <1>3, <1>8 DEF PassedThrough, Lineal
  <2>2. doc[q].par \in Jobs /\ ~(q <= doc[q].par)
    BY <1>1, <1>3, <2>1 DEF Jobs
  <2>3. PICK r \in Jobs : r = doc[q].par /\ r = doc'[q].par
    BY <1>6, <2>2
  <2>4. r \notin Bad
    <3> HIDE DEF Bad
    <3> QED BY <1>2, <2>2, <2>3
  <2>5. Origin(r, kind)' = Origin(r, kind)
    BY <2>1, <2>3, <2>4
  <2>6. Origin(doc[q].par, kind)' = Origin(r, kind)'
    BY <2>3
  <2> QED BY <1>4, <1>5, <1>6, <1>8, <2>3, <2>5, <2>6
<1> QED BY <1>7, <1>8

-----------------------------------------------------------------------------
(* What a step leaves alone *)

LEMMA JobNumbers ==
  \A k \in Jobs : /\ k \in Nat /\ k # 0 /\ k \in 0..MaxJobs /\ 0 \in 0..(k - 1)
                  /\ \A i \in 1..(k - 1) : i \in Jobs /\ i # k
                  /\ \A i \in 0..(k - 1) : i # 0 => i \in Jobs /\ i \in 1..(k - 1)
  BY SaveConstants DEF Jobs

\* Pins are never lost, nor what they received.
PinsKept ==
  /\ DOMAIN pins \subseteq DOMAIN pins'
  /\ \A i \in DOMAIN pins : /\ pins'[i].place = pins[i].place /\ pins'[i].by = pins[i].by
                            /\ pins[i].sources \subseteq pins'[i].sources

LEMMA PinsStay ==
  ASSUME PinsKept
  PROVE  /\ \A i, l : Holds(i, l) => Holds(i, l)'
         /\ \A o, l : Says(o, l) => Says(o, l)'
         /\ \A p : Pinned(p) => Pinned(p)'
         /\ \A out, p : Safe(out, p) => Safe(out, p)'
<1>1. \A i, l : Holds(i, l) => Holds(i, l)'
  BY DEF PinsKept, Holds
<1>2. \A p : Pinned(p) => Pinned(p)'
  BY DEF PinsKept, Pinned
<1>3. \A o, l : Says(o, l) => Says(o, l)'
  BY <1>1 DEF Says
<1>4. \A out, p : Safe(out, p) => Safe(out, p)'
  BY <1>2 DEF Safe
<1> QED BY <1>1, <1>2, <1>3, <1>4

\* A job that no action touches.
LEMMA OthersStay ==
  ASSUME PinsKept, NEW k, doc'[k] = doc[k], worker'[k] = worker[k], Own(k), \A i \in DOMAIN pins' \ DOMAIN pins : pins'[i].by # k
  PROVE  Own(k)'
<1>1. (Lawful(k) => Lawful(k)') /\ (Phased(k) => Phased(k)')
  BY DEF Lawful, Phased, Started
<1>2. (Matched(k) => Matched(k)') /\ (Dropped(k) => Dropped(k)') /\ (Undismissed(k) => Undismissed(k)')
  BY DEF Matched, Dropped, Undismissed
<1>3. Truthful(k) => Truthful(k)'
  <2>1. DOMAIN pins \subseteq DOMAIN pins'
    BY DEF PinsKept
  <2> QED BY <2>1, PinsStay DEF Truthful
<1>4. Wanted(k) => Wanted(k)'
  <2>1. (Started(k) <=> Started(k)') /\ \A p : Held(k, p) <=> Held(k, p)'
    BY DEF Held, Stored, Started
  <2> QED BY <2>1, PinsStay DEF Wanted
<1>5. Tells(k) => Tells(k)'
  <2>1. \A p : Told(k, p) => Told(k, p)'
    BY DEF Told
  <2>2. \A i \in DOMAIN pins' : pins'[i].by = k => i \in DOMAIN pins /\ pins'[i].place = pins[i].place /\ pins[i].by = k
    BY DEF PinsKept
  <2> QED BY <2>1, <2>2 DEF Tells
<1> QED BY <1>1, <1>2, <1>3, <1>4, <1>5 DEF Own

\* Ties between a retry and the end of its lineage outlast every step.
LEMMA KinStays ==
  ASSUME Younger, Younger', Receipts, Receipts', \A j \in Jobs : Kin(j) /\ Evolves(j),
         doc \in [Jobs -> JobDoc], NEW k \in Jobs, doc[k].st # "none"
  PROVE  Kin(k)'
<1> DEFINE q == Ancestor(k)
<1>1. Lineal(k) /\ Evolves(k) /\ doc[k].kind \in {"places", "analysis"} /\ doc[k].drops \subseteq Places
  BY DEF Kin, JobDoc
<1>2. doc'[k].st # "none" /\ doc'[k].par = doc[k].par /\ doc'[k].link = doc[k].link /\ doc'[k].drops = doc[k].drops /\ doc'[k].kind = doc[k].kind
  BY <1>1 DEF Evolves
<1>3. CASE doc[k].par = 0
  <2>1. \A i \in 1..(k - 1) : doc'[i].st # "none"
    BY <1>1, JobNumbers DEF Lineal, Evolves
  <2> QED BY <1>2, <1>3, <2>1, JobNumbers DEF Kin, Lineal, Started
<1>4. CASE doc[k].par # 0
  <2>1. PICK r \in Jobs : r = doc[k].par /\ r = doc'[k].par /\ r \in 0..(k - 1)
    BY <1>1, <1>2, <1>4, JobNumbers DEF Lineal
  <2>2. doc[r].st # "none" /\ Settled(r) /\ doc[r].link = doc[k].link
    BY <1>1, <1>4, <2>1 DEF Lineal
  <2>3. \A i \in 1..(k - 1) : doc'[i].st # "none"
    BY <1>1, JobNumbers DEF Lineal, Evolves
  <2>4. doc'[r].st # "none" /\ Settled(r)' /\ doc'[r].link = doc[r].link
    BY <2>2, SettledStays DEF Evolves
  <2>5. Lineal(k)'
    <3>1. Settled(doc[k].par)' <=> Settled(r)'
      BY <2>1
    <3> QED BY <1>2, <2>1, <2>2, <2>3, <2>4, <3>1 DEF Lineal
  <2>6. \A i \in Jobs : Lineal(i)
    BY DEF Kin
  <2>7. Origin(r, doc[k].kind)' = Origin(r, doc[k].kind) /\ Origin(r, doc[k].kind) \in Jobs /\ doc[Origin(r, doc[k].kind)].st # "none"
    BY <1>1, <1>2, <2>2, <2>6, OriginStays, OriginKin
  <2>8. PICK a \in Jobs : a = Ancestor(k) /\ a = Ancestor(k)' /\ doc[a].st # "none"
    BY <2>1, <2>7 DEF Ancestor
  <2>9. \A p \in doc'[k].drops : doc'[a].out[p].st \in Dismissed
    <3>1. \A p \in doc[k].drops : p \in Places /\ doc[a].out[p].st \in Dismissed
      BY <1>1, <1>4, <2>8 DEF Kin
    <3> QED BY <1>2, <2>8, <3>1 DEF Evolves
  <2>10. ~Started(k)' => doc'[k].wants = {} \/ (Started(a)' /\ doc'[k].wants \subseteq doc'[a].wants)
    <3> SUFFICES ASSUME ~Started(k)' PROVE doc'[k].wants = {} \/ (Started(a)' /\ doc'[k].wants \subseteq doc'[a].wants)
      OBVIOUS
    <3>1. ~Started(k) /\ doc'[k].wants = doc[k].wants
      BY <1>1 DEF Evolves, Started
    <3>2. doc[k].wants = {} \/ (Started(a) /\ doc[k].wants \subseteq doc[a].wants)
      BY <2>8, <3>1 DEF Kin
    <3> QED BY <2>8, <3>1, <3>2 DEF Evolves, Started
  <2> QED BY <1>2, <1>4, <2>5, <2>8, <2>9, <2>10 DEF Kin
<1> QED BY <1>3, <1>4

LEMMA IdleIs ==
  /\ Idle \in Memory /\ [Idle EXCEPT !.pc = "context"] \in Memory /\ NoDoc \in JobDoc
  /\ None \in Outcome /\ Blank \in [Places -> Outcome] /\ \A p \in Places : Blank[p] = None
  /\ Idle.pc = "idle" /\ Idle.out = Blank /\ Idle.init = Blank /\ Idle.pin = 0
<1>1. None \in Outcome
  BY DEF None, Outcome
<1>2. Blank \in [Places -> Outcome] /\ \A p \in Places : Blank[p] = None
  BY <1>1 DEF Blank
<1>3. Idle \in Memory /\ [Idle EXCEPT !.pc = "context"] \in Memory
  BY <1>2 DEF Idle, Memory, Phases, Recoveries, Over
<1>4. NoDoc \in JobDoc
  BY <1>2 DEF NoDoc, JobDoc, Recoveries
<1> QED BY <1>1, <1>2, <1>3, <1>4 DEF Idle

\* What a budget leaves is still a budget.
LEMMA Spends ==
  ASSUME left \in Scenario
  PROVE  /\ Spend("faults") => left' \in Scenario
         /\ Spend("crashes") => left' \in Scenario
         /\ Spend("sweeps") => left' \in Scenario
         /\ Spend("deletes") => left' \in Scenario
         /\ left.shares > 0 => [left EXCEPT !.shares = @ - 1] \in Scenario
         /\ left.retries > 0 => [left EXCEPT !.retries = @ - 1] \in Scenario
         /\ left.shares > 0 /\ left.faults > 0 => [left EXCEPT !.shares = @ - 1, !.faults = @ - 1] \in Scenario
         /\ left.retries > 0 /\ left.faults > 0 => [left EXCEPT !.retries = @ - 1, !.faults = @ - 1] \in Scenario
<1>1. Spend("faults") => left' \in Scenario
  BY DEF Spend, Scenario
<1>2. Spend("crashes") => left' \in Scenario
  BY DEF Spend, Scenario
<1>3. Spend("sweeps") => left' \in Scenario
  BY DEF Spend, Scenario
<1>4. Spend("deletes") => left' \in Scenario
  BY DEF Spend, Scenario
<1>5. left.shares > 0 => [left EXCEPT !.shares = @ - 1] \in Scenario
  BY DEF Scenario
<1>6. left.retries > 0 => [left EXCEPT !.retries = @ - 1] \in Scenario
  BY DEF Scenario
<1>7. left.shares > 0 /\ left.faults > 0 => [left EXCEPT !.shares = @ - 1, !.faults = @ - 1] \in Scenario
  <2>1. left.shares > 0 /\ left.faults > 0 => left.shares - 1 \in Nat /\ left.faults - 1 \in Nat
    BY DEF Scenario
  <2>2. \A m, n \in Nat : [left EXCEPT !.shares = m, !.faults = n] \in Scenario
    BY DEF Scenario
  <2> QED BY <2>1, <2>2
<1>8. left.retries > 0 /\ left.faults > 0 => [left EXCEPT !.retries = @ - 1, !.faults = @ - 1] \in Scenario
  <2>1. left.retries > 0 /\ left.faults > 0 => left.retries - 1 \in Nat /\ left.faults - 1 \in Nat
    BY DEF Scenario
  <2>2. \A m, n \in Nat : [left EXCEPT !.retries = m, !.faults = n] \in Scenario
    BY DEF Scenario
  <2> QED BY <2>1, <2>2
<1> QED BY <1>1, <1>2, <1>3, <1>4, <1>5, <1>6, <1>7, <1>8

\* A step of one job, as far as it is true of every one of them.
Moves(j) ==
  /\ Typed' /\ PinsKept /\ Evolves(j)
  /\ \A k \in Jobs \ {j} : doc'[k] = doc[k] /\ worker'[k] = worker[k]
  /\ \A i \in DOMAIN pins' \ DOMAIN pins : pins'[i].by = j
  /\ Own(j)'

-----------------------------------------------------------------------------
(* The steps of a worker *)

\* Only the worker's memory changes.
LEMMA Remembers ==
  ASSUME Typed, NEW j \in Jobs, NEW w \in Memory, InMemory(j, w), UNCHANGED <<pins, doc>>, left' \in Scenario
  PROVE  /\ Typed' /\ PinsKept /\ Evolves(j) /\ worker'[j] = w /\ doc'[j] = doc[j]
         /\ \A k \in Jobs \ {j} : doc'[k] = doc[k] /\ worker'[k] = worker[k]
         /\ \A i \in DOMAIN pins' \ DOMAIN pins : pins'[i].by = j
<1>1. worker' \in [Jobs -> Memory] /\ worker'[j] = w /\ \A k \in Jobs \ {j} : worker'[k] = worker[k]
  BY DEF InMemory, Typed
<1>2. Typed'
  BY <1>1 DEF Typed
<1>3. PinsKept /\ Evolves(j)
  BY DEF PinsKept, Evolves
<1> QED BY <1>1, <1>2, <1>3

LEMMA Retelling ==
  ASSUME PinsKept, NEW j, Tells(j), pins' \in Seq(PinDoc), \A i \in DOMAIN pins' \ DOMAIN pins : Told(j, pins[i].place)',
         \A p \in Places : Told(j, p) => Told(j, p)'
  PROVE  Tells(j)'
<1>1. SUFFICES ASSUME NEW i \in DOMAIN pins', pins'[i].by = j PROVE Told(j, pins[i].place)'
  BY DEF Tells
<1>2. CASE i \in DOMAIN pins
  <2>1. pins'[i] \in PinDoc
    OBVIOUS
  <2>2. PICK p \in Places : p = pins[i].place /\ p = pins'[i].place
    BY <1>2, <2>1 DEF PinDoc, PinsKept
  <2>3. Told(j, p)
    BY <1>1, <1>2, <2>2 DEF Tells, PinsKept
  <2> QED BY <2>2, <2>3
<1> QED BY <1>2

\* The worker stops: it dies, or a guarded call finds the job lost.
LEMMA Stops ==
  ASSUME Inv, NEW j \in Jobs, InMemory(j, Idle), UNCHANGED <<pins, doc>>, left' \in Scenario
  PROVE  Moves(j)
<1>1. Typed /\ Own(j) /\ Tells(j) /\ pins \in Seq(PinDoc)
  BY DEF Inv, Typed, Own
<1>2. /\ Typed' /\ PinsKept /\ Evolves(j) /\ worker'[j] = Idle /\ doc'[j] = doc[j]
      /\ \A k \in Jobs \ {j} : doc'[k] = doc[k] /\ worker'[k] = worker[k]
      /\ \A i \in DOMAIN pins' \ DOMAIN pins : pins'[i].by = j
  BY <1>1, IdleIs, Remembers
<1>3. Idle.pc = "idle" /\ Idle.out = Blank /\ Idle.init = Blank /\ Idle.pin = 0 /\ \A p \in Places : Blank[p].st = "none" /\ Blank[p] = None
  BY IdleIs DEF None
<1>4. Lawful(j)'
  BY <1>1, <1>2, <1>3 DEF Own, Lawful, Started
<1>5. Phased(j)' /\ Matched(j)' /\ Dropped(j)' /\ Undismissed(j)'
  BY <1>1, <1>2, <1>3 DEF Own, Phased, Matched, Plain, Dropped, Undismissed
<1>6. Truthful(j)'
  BY <1>1, <1>2, <1>3, PinsStay DEF Own, Truthful, Says
<1>7. Wanted(j)'
  <2>1. \A p : Held(j, p) => Held(j, p)'
    BY <1>2 DEF Held, Stored
  <2> QED BY <1>1, <1>2, <1>3, <2>1, PinsStay DEF Own, Wanted, Started
<1>8. \A p \in Places : Told(j, p) => Told(j, p)'
  BY <1>2, <1>3 DEF Told
<1> QED BY <1>1, <1>2, <1>4, <1>5, <1>6, <1>7, <1>8, Retelling DEF Moves, Own, PinsKept

\* The worker's memory as it reports a failure: places it was about to attach
\* the share to are unresolved.
Failed(w, i) == [w EXCEPT !.pc = "report", !.verdict = "failed", !.pin = i,
                          !.out = [p \in Places |-> IF w.pc = "append" /\ p \in w.todo THEN Unresolved(FALSE) ELSE w.out[p]]]

\* Whatever a worker fails at, it keeps what it inherited and found.
LEMMA Fails ==
  ASSUME Inv, NEW j \in Jobs, NEW i \in Nat, worker[j].pc \notin {"idle", "select"},
         InMemory(j, Failed(worker[j], i)), UNCHANGED <<pins, doc>>, left' \in Scenario
  PROVE  Moves(j)
<1> DEFINE w == worker[j]
           v == Failed(w, i)
           d == doc[j]
<1>1. Typed /\ Own(j) /\ Tells(j) /\ pins \in Seq(PinDoc) /\ w \in Memory
  BY DEF Inv, Typed, Own
<1>2. /\ v \in Memory /\ v.pc = "report" /\ v.verdict = "failed" /\ v.pin = i /\ v.init = w.init /\ v.again = w.again /\ v.rec = w.rec
      /\ v.todo = w.todo
      /\ \A p \in Places : v.out[p] = IF w.pc = "append" /\ p \in w.todo THEN Unresolved(FALSE) ELSE w.out[p]
  <2> DEFINE o == [p \in Places |-> IF w.pc = "append" /\ p \in w.todo THEN Unresolved(FALSE) ELSE w.out[p]]
  <2>1. o \in [Places -> Outcome]
    <3>1. Unresolved(FALSE) \in Outcome /\ w.out \in [Places -> Outcome]
      BY <1>1 DEF Unresolved, Outcome, Memory
    <3> QED BY <3>1
  <2>2. v = [w EXCEPT !.pc = "report", !.verdict = "failed", !.pin = i, !.out = o]
    BY DEF Failed
  <2>3. \A p \in Places : o[p] = IF w.pc = "append" /\ p \in w.todo THEN Unresolved(FALSE) ELSE w.out[p]
    OBVIOUS
  <2> HIDE DEF o, v
  <2> QED BY <1>1, <2>1, <2>2, <2>3 DEF Memory, Phases, Over
<1>3. /\ Typed' /\ PinsKept /\ Evolves(j) /\ worker'[j] = v /\ doc'[j] = d
      /\ \A k \in Jobs \ {j} : doc'[k] = doc[k] /\ worker'[k] = worker[k]
      /\ \A n \in DOMAIN pins' \ DOMAIN pins : pins'[n].by = j
  <2>1. InMemory(j, v)
    OBVIOUS
  <2> HIDE DEF v
  <2> QED BY <1>1, <1>2, <2>1, Remembers
<1> HIDE DEF v
<1>4. Unresolved(FALSE).st = "unresolved"
  BY DEF Unresolved
<1>5. w.pc = "append" => \A p \in w.todo : w.out[p].st = "existing" /\ Pinned(p)
  BY <1>1 DEF Own, Truthful
<1>6. Lawful(j)'
  BY <1>1, <1>2, <1>3, IdleIs DEF Own, Lawful, Started
<1>7. Phased(j)'
  <2>1. w.out = Blank /\ w.pc # "append" => v.out = Blank
    <3> SUFFICES ASSUME w.out = Blank, w.pc # "append" PROVE v.out = Blank
      OBVIOUS
    <3>1. v.out = [p \in Places |-> v.out[p]] /\ Blank = [p \in Places |-> Blank[p]]
      BY <1>2, IdleIs DEF Memory
    <3>2. \A p \in Places : v.out[p] = Blank[p]
      BY <1>2
    <3> QED BY <3>1, <3>2
  <2>2. w.pc = "context" => w.out = Blank
    BY <1>1, IdleIs DEF Own, Phased, Idle
  <2> QED BY <1>1, <1>2, <1>3, <2>1, <2>2 DEF Own, Phased, Started
<1>8. Matched(j)'
  <2>1. \A p \in Places : Plain(d.out[p]) /\ Plain(v.init[p]) /\ Plain(v.out[p])
    BY <1>1, <1>2, <1>4 DEF Own, Matched, Plain
  <2> QED BY <1>1, <1>2, <1>3, <2>1 DEF Own, Matched
<1>9. Truthful(j)'
  <2>1. \A l : \A p \in Places : Says(v.out[p], l) \/ (v.out[p] = w.out[p] /\ ~(w.pc = "append" /\ p \in w.todo))
    BY <1>2, <1>4 DEF Says
  <2>2. \A p \in Places : Says(d.out[p], d.link) /\ Says(w.init[p], d.link) /\ (~(w.pc = "append" /\ p \in w.todo) => Says(w.out[p], d.link))
    BY <1>1 DEF Own, Truthful
  <2>3. \A p \in Places : Says(v.out[p], d.link)
    BY <2>1, <2>2
  <2>4. PICK o, l : o = v.out /\ l = d.link
    OBVIOUS
  <2>5. \A p \in Places : Says(o[p], l)'
    BY <1>3, <2>3, <2>4, PinsStay
  <2> QED BY <1>2, <1>3, <2>2, <2>4, <2>5, PinsStay DEF Truthful
<1>10. Dropped(j)'
  <2>1. ASSUME NEW p \in Places, d.out[p].st \in Dismissed PROVE v.out[p] = d.out[p]
    <3>1. w.out[p] = d.out[p]
      BY <1>1, <2>1 DEF Own, Dropped
    <3>2. ~(w.pc = "append" /\ p \in w.todo)
      BY <1>5, <2>1, <3>1 DEF Dismissed
    <3> QED BY <1>2, <3>1, <3>2
  <2> QED BY <1>1, <1>2, <1>3, <2>1 DEF Own, Dropped
<1>11. Wanted(j)'
  <2>1. \A p : Held(j, p) => Held(j, p)'
    BY <1>3 DEF Held, Stored
  <2>2. d.wants \subseteq Places
    BY <1>1 DEF Typed, JobDoc
  <2>3. ASSUME Started(j), NEW p \in d.wants PROVE Safe(v.out, p) \/ v.out[p] = Candidate(TRUE)
    <3>1. \/ Safe(w.out, p)
          \/ w.pc = "confirm" /\ p \in w.todo
          \/ w.out[p] = Candidate(TRUE)
      BY <1>1, <2>3 DEF Own, Wanted
    <3>2. CASE w.pc = "append" /\ p \in w.todo
      BY <1>5, <3>2 DEF Safe
    <3>3. CASE ~(w.pc = "append" /\ p \in w.todo)
      <4>1. v.out[p] = w.out[p]
        BY <1>2, <2>2, <3>3
      <4>2. w.pc = "confirm" /\ p \in w.todo => w.out[p] = Candidate(TRUE)
        BY <1>1, <2>2 DEF Own, Matched, Typed, Memory, Outcome
      <4> QED BY <3>1, <4>1, <4>2 DEF Safe
    <3> QED BY <3>2, <3>3
  <2> QED BY <1>1, <1>2, <1>3, <2>1, <2>3, PinsStay DEF Own, Wanted, Started
<1>12. Undismissed(j)'
  BY <1>1, <1>2, <1>3, <1>4 DEF Own, Undismissed
<1>13. \A p \in Places : Told(j, p) => Told(j, p)'
  BY <1>2, <1>3, <1>4 DEF Told
<1> QED BY <1>1, <1>3, <1>6, <1>7, <1>8, <1>9, <1>10, <1>11, <1>12, <1>13, Retelling DEF Moves, Own, PinsKept, Typed

\* What a retry takes over of a place: it is true and no candidate any more, and
\* neither a dismissal nor a choice is lost.
LEMMA RecoveredIs ==
  ASSUME Typed, NEW q \in Jobs, Own(q), NEW p \in Places
  PROVE  /\ Recovered(q, p) \in Outcome /\ Recovered(q, p).st # "candidate" /\ Plain(Recovered(q, p))
         /\ Says(Recovered(q, p), doc[q].link)
         /\ doc[q].out[p].st \in Dismissed => Recovered(q, p) = doc[q].out[p]
         /\ Recovered(q, p).st = "dismissed" => doc[q].out[p].st = "dismissed"
         /\ Pinned(p) \/ Held(q, p) => Safe(Lineage(q), p)
<1> DEFINE d == doc[q]
           o == d.out[p]
           picked == d.picked /\ p \in d.chosen
           i == CHOOSE i \in LivePins(p) : TRUE
           r == Recovered(q, p)
<1>1. o \in Outcome /\ d.picked \in BOOLEAN /\ o.conf \in BOOLEAN /\ Plain(o) /\ Says(o, d.link)
  BY DEF Typed, JobDoc, Outcome, Own, Matched, Truthful
<1>2. \A c \in BOOLEAN : Unresolved(c) \in Outcome /\ Unresolved(c).st = "unresolved"
  BY DEF Unresolved, Outcome
<1>3. None \in Outcome /\ None.st = "none"
  BY IdleIs DEF None
<1>4. LivePins(p) # {} => i \in LivePins(p) /\ i \in DOMAIN pins /\ i \in Nat /\ Pinned(p)
  BY DEF LivePins, Pinned, Typed
<1> DEFINE found == [st |-> IF d.link \in pins[i].sources THEN "existing" ELSE "adopted", pin |-> i, conf |-> o.conf]
<1>5. \/ /\ o.st = "candidate" /\ d.picked /\ ~picked /\ r = None
      \/ /\ o.st = "candidate" /\ (picked \/ ~d.picked) /\ LivePins(p) = {} /\ r = Unresolved(o.conf \/ picked)
      \/ /\ o.st = "candidate" /\ (picked \/ ~d.picked) /\ LivePins(p) # {} /\ r = found
      \/ /\ o.st = "unresolved" /\ r = Unresolved(o.conf \/ picked)
      \/ /\ o.st = "none" /\ picked /\ p \in Stored(q) /\ r = Unresolved(TRUE)
      \/ /\ o.st \notin {"candidate", "unresolved"} /\ ~(o.st = "none" /\ picked /\ p \in Stored(q)) /\ r = o
  BY DEF Recovered
<1> HIDE DEF r
<1>6. LivePins(p) # {} => found \in Outcome /\ found.st \in {"existing", "adopted"} /\ Says(found, d.link)
  BY <1>1, <1>4 DEF Outcome, Says, Holds, Committed
<1> HIDE DEF found
<1>7. r \in Outcome /\ r.st # "candidate" /\ Plain(r)
  BY <1>1, <1>2, <1>3, <1>5, <1>6 DEF Plain
<1>8. Says(r, d.link)
  BY <1>1, <1>2, <1>3, <1>5, <1>6 DEF Says
<1>9. (o.st \in Dismissed => r = o) /\ (r.st = "dismissed" => o.st = "dismissed")
  BY <1>2, <1>3, <1>5, <1>6 DEF Dismissed
<1>10. Pinned(p) \/ Held(q, p) => Pinned(p) \/ r.st \in Dismissed \/ r = Unresolved(TRUE)
  BY <1>1, <1>4, <1>5 DEF Held, Dismissed
<1>11. Lineage(q)[p] = r
  BY DEF Lineage, r
<1> QED BY <1>7, <1>8, <1>9, <1>10, <1>11 DEF Safe, r

\* A retry reads what it is a retry of.
LEMMA Inherited ==
  ASSUME Inv, NEW j \in Jobs, worker[j].pc = "context", doc[j].kind = "analysis" => HasRecovery(Ancestor(j)),
         InMemory(j, Inherits(j)), UNCHANGED <<pins, doc>>, left' \in Scenario
  PROVE  Moves(j)
<1> DEFINE v == Inherits(j)
           d == doc[j]
           q == Ancestor(j)
<1>1. Typed /\ Own(j) /\ Tells(j) /\ Kin(j) /\ pins \in Seq(PinDoc)
  BY DEF Inv, Typed, Own
<1>2. d.out = Blank /\ ~d.begun /\ d.par # 0 /\ d.st # "none"
  BY <1>1, IdleIs DEF Own, Phased, Lawful
<1>3. q \in Jobs /\ doc[q].link = d.link /\ Own(q)
  <2>1. Younger /\ \A i \in Jobs : Lineal(i)
    BY DEF Younger, Lineal, Kin, Inv
  <2>2. d.par \in Jobs /\ doc[d.par].st # "none" /\ doc[d.par].link = d.link
    BY <1>1, <1>2, JobNumbers DEF Kin, Lineal
  <2> QED BY <2>1, <2>2, OriginKin DEF Ancestor, Inv
<1>4. \A p \in Places : /\ Lineage(q)[p] \in Outcome /\ Lineage(q)[p].st # "candidate" /\ Plain(Lineage(q)[p])
                        /\ Says(Lineage(q)[p], d.link)
                        /\ doc[q].out[p].st \in Dismissed => Lineage(q)[p] = doc[q].out[p]
                        /\ Lineage(q)[p].st = "dismissed" => doc[q].out[p].st = "dismissed"
                        /\ Pinned(p) \/ Held(q, p) => Safe(Lineage(q), p)
  <2>1. \A p \in Places : Lineage(q)[p] = Recovered(q, p)
    BY DEF Lineage
  <2> QED BY <1>1, <1>3, <2>1, RecoveredIs
<1>5. Lineage(q) \in [Places -> Outcome]
  BY <1>4 DEF Lineage
<1>6. /\ v \in Memory /\ v.pc = "checkpoint" /\ v.pin = 0 /\ v.out = Lineage(q) /\ v.init = Lineage(q)
      /\ \A p \in Places : Lineage(q)[p].st = "unresolved" /\ Lineage(q)[p].conf => p \in v.again
      /\ d.kind = "analysis" => v.rec # "absent"
  <2> DEFINE open == At(Lineage(q), {"unresolved"})
             stored == open \cap Stored(q)
             retained == {p \in open : Lineage(q)[p].conf \/ p \in stored}
             again == IF d.kind = "analysis" THEN retained ELSE open
             reread == d.kind = "analysis" \/ open # retained
             rec == IF HasRecovery(q) THEN "incomplete" ELSE "absent"
  <2>1. v = [Idle EXCEPT !.pc = "checkpoint", !.out = Lineage(q), !.init = Lineage(q), !.stored = stored,
                         !.again = again, !.reread = reread, !.rec = rec]
    BY DEF Inherits
  <2>2. stored \subseteq Places /\ again \subseteq Places /\ reread \in BOOLEAN /\ rec \in Recoveries
    BY DEF At, Recoveries
  <2>3. \A p \in Places : Lineage(q)[p].st = "unresolved" /\ Lineage(q)[p].conf => p \in again
    BY DEF At
  <2>4. d.kind = "analysis" => rec # "absent"
    OBVIOUS
  <2> HIDE DEF v, stored, again, reread, rec, q
  <2> QED BY <1>5, <2>1, <2>2, <2>3, <2>4, IdleIs DEF Memory, Phases
<1>7. InMemory(j, v)
  OBVIOUS
<1> HIDE DEF v, q
<1>8. /\ Typed' /\ PinsKept /\ Evolves(j) /\ worker'[j] = v /\ doc'[j] = d
      /\ \A k \in Jobs \ {j} : doc'[k] = doc[k] /\ worker'[k] = worker[k]
      /\ \A n \in DOMAIN pins' \ DOMAIN pins : pins'[n].by = j
  BY <1>1, <1>6, <1>7, Remembers
<1>9. \A p \in Places : d.out[p] = None /\ None.st = "none"
  BY <1>2, IdleIs DEF None
<1>10. Lawful(j)'
  BY <1>1, <1>2, <1>6, <1>8 DEF Own, Lawful, Started
<1>11. Phased(j)'
  BY <1>1, <1>2, <1>6, <1>8 DEF Own, Phased, Started
<1>12. Matched(j)'
  BY <1>1, <1>4, <1>6, <1>8 DEF Own, Matched
<1>13. Truthful(j)'
  BY <1>1, <1>4, <1>6, <1>8, PinsStay DEF Own, Truthful
<1>14. Dropped(j)'
  <2>1. \A p \in d.drops : p \in Places /\ Lineage(q)[p].st \in Dismissed
    <3>1. d.drops \subseteq Places
      BY <1>1 DEF Typed, JobDoc
    <3> QED BY <1>1, <1>2, <1>4, <3>1 DEF Kin, q
  <2> QED BY <1>1, <1>2, <1>6, <1>8, <1>9, <2>1 DEF Own, Dropped, Dismissed
<1>15. Wanted(j)'
  <2>1. ASSUME NEW p \in d.wants PROVE Safe(Lineage(q), p)
    <3>1. p \in Places
      BY <1>1, <2>1 DEF Typed, JobDoc
    <3>2. Started(q) /\ p \in doc[q].wants
      BY <1>1, <1>2, <2>1 DEF Kin, Started, q
    <3> QED BY <1>3, <1>4, <3>1, <3>2 DEF Own, Wanted
  <2> QED BY <1>1, <1>2, <1>6, <1>8, <2>1, PinsStay DEF Wanted, Started, Own, Lawful
<1>16. Undismissed(j)'
  BY <1>3, <1>4, <1>6, <1>8, <1>9 DEF Undismissed, Own
<1>17. \A p \in Places : ~Told(j, p)
  BY DEF Told
<1> QED BY <1>1, <1>8, <1>10, <1>11, <1>12, <1>13, <1>14, <1>15, <1>16, <1>17, Retelling DEF Moves, Own, PinsKept, Typed

-----------------------------------------------------------------------------
(* The pins a step writes *)

LEMMA AppendsIs ==
  ASSUME Typed, NEW j \in Jobs, doc[j].link \in Links, doc' = doc, NEW i, Appends(j, i)
  PROVE  /\ pins' \in Seq(PinDoc) /\ PinsKept /\ DOMAIN pins' = DOMAIN pins
         /\ i \in DOMAIN pins => Holds(i, doc[j].link)'
<1> DEFINE l == doc[j].link
           x == [pins[i] EXCEPT !.sources = @ \cup {l}]
<1>1. pins \in Seq(PinDoc) /\ pins' = [pins EXCEPT ![i] = x]
  BY DEF Typed, Appends, Attached
<1>2. CASE i \notin DOMAIN pins
  <2>1. pins' = pins
    BY <1>1, <1>2
  <2> QED BY <1>1, <1>2, <2>1 DEF PinsKept
<1>3. CASE i \in DOMAIN pins
  <2>1. pins[i] \in PinDoc
    BY <1>1, <1>3
  <2>2. x \in PinDoc /\ x.place = pins[i].place /\ x.by = pins[i].by /\ x.sources = pins[i].sources \cup {l}
    BY <2>1 DEF PinDoc
  <2> HIDE DEF x
  <2>3. pins' \in Seq(PinDoc) /\ DOMAIN pins' = DOMAIN pins /\ pins'[i] = x /\ \A k \in DOMAIN pins : k # i => pins'[k] = pins[k]
    BY <1>1, <1>3, <2>2
  <2>4. PinsKept
    BY <2>2, <2>3 DEF PinsKept
  <2>5. i \in DOMAIN pins' /\ l \in pins'[i].sources
    BY <1>3, <2>2, <2>3
  <2>6. Holds(i, doc[j].link)' <=> (i \in DOMAIN pins' /\ doc'[j].link \in pins'[i].sources)
    BY DEF Holds
  <2> QED BY <2>3, <2>4, <2>5, <2>6
<1> QED BY <1>2, <1>3

LEMMA WrittenIs ==
  ASSUME Typed, NEW j \in Jobs, doc[j].link \in Links, doc' = doc, NEW p \in Places, NEW i \in Target(j, p), pins' = Written(j, p, i)
  PROVE  /\ pins' \in Seq(PinDoc) /\ PinsKept /\ i \in Nat /\ i # 0 /\ Holds(i, doc[j].link)'
         /\ \A n \in DOMAIN pins' \ DOMAIN pins : n = i /\ pins'[n].by = j /\ pins'[n].place = p
         /\ worker[j].again # {} \/ worker[j].pc = "select" => Pinned(p)'
<1> DEFINE l == doc[j].link
           new == [place |-> p, url |-> l, sources |-> {l}, live |-> TRUE, by |-> j]
<1>1. pins \in Seq(PinDoc) /\ Len(pins) \in Nat /\ DOMAIN pins = 1..Len(pins)
  BY DEF Typed
<1>2. i \in DOMAIN pins \/ i = Len(pins) + 1
  BY DEF Target, LivePins
<1>3. worker[j].again # {} \/ worker[j].pc = "select" => i = Len(pins) + 1 \/ (i \in DOMAIN pins /\ pins[i].place = p)
  BY DEF Target, LivePins
<1>4. CASE i \in DOMAIN pins
  <2>1. Appends(j, i) \/ ~pins[i].live
    BY <1>4 DEF Written, Appends
  <2>2. pins[i].live
    BY <1>1, <1>4 DEF Target, LivePins
  <2>3. pins' \in Seq(PinDoc) /\ PinsKept /\ DOMAIN pins' = DOMAIN pins /\ Holds(i, doc[j].link)'
    BY <1>4, <2>1, <2>2, AppendsIs
  <2>4. worker[j].again # {} \/ worker[j].pc = "select" => Pinned(p)'
    BY <1>1, <1>3, <1>4, <2>3 DEF Pinned, PinsKept
  <2> QED BY <1>1, <1>4, <2>3, <2>4
<1>5. CASE i = Len(pins) + 1
  <2>1. new \in PinDoc
    BY JobNumbers DEF PinDoc
  <2>2. new.place = p /\ new.by = j /\ new.sources = {l}
    OBVIOUS
  <2>3. pins' = Append(pins, new)
    BY <1>1, <1>5 DEF Written
  <2> HIDE DEF new
  <2>4. pins' \in Seq(PinDoc) /\ DOMAIN pins' = 1..(Len(pins) + 1) /\ pins'[i] = new /\ \A k \in DOMAIN pins : pins'[k] = pins[k]
    BY <1>1, <1>5, <2>1, <2>3
  <2>5. PinsKept /\ i \in DOMAIN pins' /\ i \in Nat /\ i # 0
    BY <1>1, <1>5, <2>4 DEF PinsKept
  <2>6. \A n \in DOMAIN pins' \ DOMAIN pins : n = i
    BY <1>1, <1>5, <2>4
  <2>7. Holds(i, doc[j].link)' /\ Pinned(p)'
    BY <2>2, <2>4, <2>5 DEF Holds, Pinned
  <2> QED BY <2>2, <2>4, <2>5, <2>6, <2>7
<1> QED BY <1>2, <1>4, <1>5

-----------------------------------------------------------------------------
(* What becomes of the matches *)

\* Failing in any other place changes no outcome.
LEMMA FailIs ==
  ASSUME NEW w \in Memory, w.pc # "append" \/ w.todo = {}
  PROVE  Fail(w) = Failed(w, w.pin) /\ \A v \in Over, i \in Nat : Fail(Report(w, v, i)) = Failed(w, i)
<1>1. [p \in Places |-> IF w.pc = "append" /\ p \in w.todo THEN Unresolved(FALSE) ELSE w.out[p]] = w.out
  <2>1. w.out = [p \in Places |-> w.out[p]]
    BY DEF Memory
  <2> QED BY <2>1
<1>2. \A i : Failed(w, i) = [w EXCEPT !.pc = "report", !.verdict = "failed", !.pin = i, !.out = w.out]
  BY <1>1 DEF Failed
<1>3. \A i \in Nat : [w EXCEPT !.pc = "report", !.verdict = "failed", !.pin = i, !.out = w.out] = [w EXCEPT !.pc = "report", !.verdict = "failed", !.pin = i]
  BY DEF Memory
<1>4. [w EXCEPT !.pc = "report", !.verdict = "failed", !.pin = w.pin] = [w EXCEPT !.pc = "report", !.verdict = "failed"]
  BY DEF Memory
<1>5. \A v \in Over, i \in Nat : Fail(Report(w, v, i)) = [w EXCEPT !.pc = "report", !.verdict = "failed", !.pin = i]
  <2> TAKE v \in Over, i \in Nat
  <2>1. PICK r \in Memory : r = [w EXCEPT !.pc = "report", !.verdict = v, !.pin = i]
    BY DEF Memory, Phases
  <2>2. [r EXCEPT !.pc = "report", !.verdict = "failed"] = [w EXCEPT !.pc = "report", !.verdict = "failed", !.pin = i]
    BY <2>1 DEF Memory
  <2> QED BY <2>1, <2>2 DEF Fail, Report
<1>6. w.pin \in Nat
  BY DEF Memory
<1>7. \A i \in Nat : Failed(w, i) = [w EXCEPT !.pc = "report", !.verdict = "failed", !.pin = i]
  BY <1>2, <1>3
<1>8. Fail(w) = Failed(w, w.pin)
  <2>1. Fail(w) = [w EXCEPT !.pc = "report", !.verdict = "failed"]
    BY DEF Fail
  <2> QED BY <1>4, <1>6, <1>7, <2>1
<1> QED BY <1>5, <1>7, <1>8

\* An attempt that ends as complete or duplicate, whatever it has just saved.
LEMMA Concludes ==
  ASSUME Inv, NEW j \in Jobs, NEW v \in {"complete", "duplicate"}, NEW i \in Nat,
         worker[j].pc \in {"analyse", "direct", "attach"} \/ (worker[j].pc = "confirm" /\ worker[j].todo = {}),
         InMemory(j, Report(worker[j], v, i)), doc' = doc, left' \in Scenario, pins' \in Seq(PinDoc), PinsKept,
         \A p \in Places : worker[j].out[p].st = "candidate" => Holds(i, doc[j].link)',
         \A n \in DOMAIN pins' \ DOMAIN pins : /\ pins'[n].by = j
                                               /\ \E p \in Places : pins'[n].place = p /\ worker[j].out[p].st # "dismissed"
  PROVE  Moves(j)
<1> DEFINE w == worker[j]
           r == Report(w, v, i)
           d == doc[j]
<1>1. Typed /\ Own(j) /\ Tells(j) /\ w \in Memory
  BY DEF Inv, Typed, Own
<1>2. /\ r \in Memory /\ r.pc = "report" /\ r.verdict = v /\ r.pin = i /\ r.init = w.init /\ r.out = w.out /\ r.again = w.again /\ r.rec = w.rec
  BY <1>1 DEF Report, Memory, Phases, Over
<1>3. InMemory(j, r)
  OBVIOUS
<1> HIDE DEF r
<1>4. /\ Typed' /\ Evolves(j) /\ worker'[j] = r /\ doc'[j] = d
      /\ \A k \in Jobs \ {j} : doc'[k] = doc[k] /\ worker'[k] = worker[k]
  <2>1. worker' \in [Jobs -> Memory] /\ worker'[j] = r /\ \A k \in Jobs \ {j} : worker'[k] = worker[k]
    BY <1>1, <1>2, <1>3 DEF InMemory, Typed
  <2> QED BY <1>1, <2>1 DEF Typed, Evolves
<1>5. Started(j) /\ d.st # "none" /\ ~d.picked /\ d.st # "needs_selection"
  BY <1>1, IdleIs DEF Own, Phased, Lawful
<1>6. Lawful(j)'
  BY <1>1, <1>2, <1>4, <1>5 DEF Own, Lawful, Started
<1>7. Phased(j)'
  BY <1>1, <1>2, <1>4, <1>5 DEF Own, Phased, Started
<1>8. Matched(j)'
  BY <1>1, <1>2, <1>4 DEF Own, Matched
<1>9. Truthful(j)'
  BY <1>1, <1>2, <1>4, PinsStay DEF Own, Truthful
<1>10. Dropped(j)'
  BY <1>1, <1>2, <1>4 DEF Own, Dropped
<1>11. Wanted(j)'
  <2>1. \A p : Held(j, p) => Held(j, p)'
    BY <1>4 DEF Held, Stored
  <2>2. \A p \in d.wants : Safe(w.out, p)
    BY <1>1, <1>5 DEF Own, Wanted
  <2> QED BY <1>1, <1>2, <1>4, <2>1, <2>2, PinsStay DEF Own, Wanted, Started
<1>12. Undismissed(j)'
  BY <1>1, <1>2, <1>4 DEF Own, Undismissed
<1>13. \A p \in Places : Told(j, p) => Told(j, p)'
  BY <1>2, <1>4 DEF Told
<1>14. \A n \in DOMAIN pins' \ DOMAIN pins : Told(j, pins[n].place)'
  <2>1. ASSUME NEW p \in Places, w.out[p].st # "dismissed" PROVE Told(j, p)'
    <3>1. d.out[p].st # "dismissed"
      BY <1>1, <2>1 DEF Own, Dropped, Dismissed
    <3> QED BY <1>2, <1>4, <1>5, <2>1, <3>1 DEF Told
  <2> TAKE n \in DOMAIN pins' \ DOMAIN pins
  <2>2. PICK p \in Places : pins'[n].place = p /\ w.out[p].st # "dismissed"
    OBVIOUS
  <2> QED BY <2>1, <2>2
<1> QED BY <1>1, <1>4, <1>6, <1>7, <1>8, <1>9, <1>10, <1>11, <1>12, <1>13, <1>14, Retelling DEF Moves, Own

LEMMA FailsAt ==
  ASSUME Inv, NEW j \in Jobs, worker[j].pc \notin {"idle", "select"}, worker[j].pc # "append" \/ worker[j].todo = {},
         InMemory(j, Fail(worker[j])), UNCHANGED <<pins, doc>>, left' \in Scenario
  PROVE  Moves(j)
<1>1. worker[j] \in Memory /\ worker[j].pin \in Nat
  BY DEF Inv, Typed, Memory
<1>2. InMemory(j, Failed(worker[j], worker[j].pin))
  BY <1>1, FailIs
<1> QED BY <1>1, <1>2, Fails

-----------------------------------------------------------------------------
(* Every step of a job keeps what is said of it *)

LEMMA ReadContextMoves == ASSUME Inv, NEW j \in Jobs, ReadContext(j) PROVE Moves(j)
<1>1. left \in Scenario /\ worker[j].pc = "context" /\ UNCHANGED <<pins, doc>>
  BY DEF Inv, Typed, ReadContext
<1>2. \/ InMemory(j, Inherits(j)) /\ (doc[j].kind = "analysis" => HasRecovery(Ancestor(j))) /\ UNCHANGED left
      \/ InMemory(j, Fail(worker[j])) /\ (UNCHANGED left \/ Spend("faults"))
  BY DEF ReadContext
<1>3. left' \in Scenario
  BY <1>1, <1>2, Spends
<1> QED BY <1>1, <1>2, <1>3, Inherited, FailsAt

LEMMA KnownLinkMoves == ASSUME Inv, NEW j \in Jobs, KnownLink(j) PROVE Moves(j)
<1> DEFINE w == worker[j]
<1>1. Typed /\ Own(j) /\ pins \in Seq(PinDoc) /\ w.pc = "analyse" /\ UNCHANGED <<pins, doc, left>>
  BY DEF Inv, Typed, KnownLink
<1>2. PICK i \in DOMAIN pins : InMemory(j, [w EXCEPT !.pc = "report", !.verdict = "duplicate", !.pin = i])
  BY DEF KnownLink
<1>3. i \in Nat /\ InMemory(j, Report(w, "duplicate", i))
  BY <1>1, <1>2 DEF Report
<1>4. \A p \in Places : w.out[p].st # "candidate"
  BY <1>1 DEF Own, Matched
<1>5. PinsKept /\ DOMAIN pins' \ DOMAIN pins = {} /\ left' \in Scenario /\ pins' \in Seq(PinDoc) /\ doc' = doc
  BY <1>1 DEF PinsKept, Typed
<1> QED BY <1>1, <1>3, <1>4, <1>5, Concludes

LEMMA AnalysisFailsMoves == ASSUME Inv, NEW j \in Jobs, AnalysisFails(j) PROVE Moves(j)
<1>1. worker[j].pc = "analyse" /\ InMemory(j, Fail(worker[j])) /\ UNCHANGED <<pins, doc>> /\ Spend("faults")
  BY DEF AnalysisFails
<1>2. left' \in Scenario
  BY <1>1, Spends DEF Inv, Typed
<1> QED BY <1>1, <1>2, FailsAt

LEMMA AttachMoves == ASSUME Inv, NEW j \in Jobs, Attach(j) PROVE Moves(j)
<1> DEFINE w == worker[j]
<1>1. Typed /\ Own(j) /\ w \in Memory /\ w.pc = "attach" /\ Active(j) /\ doc' = doc
  BY DEF Inv, Typed, Attach
<1>2. PICK i \in w.unsure : \/ Appends(j, i) /\ UNCHANGED left /\ (InMemory(j, Duplicate(w, i)) \/ InMemory(j, Report(w, "duplicate", i)))
                            \/ InMemory(j, Fail(w)) /\ UNCHANGED pins /\ (UNCHANGED left \/ Spend("faults"))
  BY DEF Attach
<1>3. i \in Nat /\ w.pin \in Nat
  BY <1>1 DEF Own, Phased, Memory
<1>4. left' \in Scenario
  BY <1>1, <1>2, Spends DEF Typed
<1>5. ASSUME Appends(j, i), NEW n \in Nat, InMemory(j, Report(w, "duplicate", n)) PROVE Moves(j)
  <2>1. doc[j].link \in Links
    BY <1>1 DEF Own, Lawful, Active
  <2>2. pins' \in Seq(PinDoc) /\ PinsKept /\ DOMAIN pins' \ DOMAIN pins = {}
    BY <1>1, <1>5, <2>1, AppendsIs
  <2>3. \A p \in Places : w.out[p].st # "candidate"
    BY <1>1 DEF Own, Matched
  <2> QED BY <1>1, <1>4, <1>5, <2>2, <2>3, Concludes
<1> QED BY <1>1, <1>2, <1>3, <1>4, <1>5, FailsAt DEF Duplicate

LEMMA EndsMoves == ASSUME Inv, NEW j \in Jobs, Stopped(j) \/ Crash(j) PROVE Moves(j)
<1>1. InMemory(j, Idle) /\ UNCHANGED <<pins, doc>> /\ (UNCHANGED left \/ Spend("crashes"))
  BY DEF Stopped, Crash
<1>2. left' \in Scenario
  BY <1>1, Spends DEF Inv, Typed
<1> QED BY <1>1, <1>2, Stops

\* The link of an attempt becomes its claim to a place.
LEMMA FindByMapsMoves == ASSUME Inv, NEW j \in Jobs, NEW p \in left.shown, FindByMaps(j, p) PROVE Moves(j)
<1> DEFINE w == worker[j]
           v == [w EXCEPT !.pc = "direct", !.cand = {p}]
           d == doc[j]
<1>1. Typed /\ Own(j) /\ Tells(j) /\ pins \in Seq(PinDoc) /\ w \in Memory /\ w.pc = "analyse" /\ d.link \in MapsLinks
      /\ InMemory(j, v) /\ UNCHANGED <<pins, doc, left>>
  BY DEF Inv, Typed, Own, FindByMaps
<1>2. v \in Memory /\ v.pc = "direct" /\ v.init = w.init /\ v.out = w.out /\ v.again = w.again /\ v.rec = w.rec
  <2>1. p \in Places
    BY <1>1, SaveConstants DEF Typed, Scenario
  <2> QED BY <1>1, <2>1 DEF Memory, Phases
<1> HIDE DEF v
<1>3. /\ Typed' /\ PinsKept /\ Evolves(j) /\ worker'[j] = v /\ doc'[j] = d
      /\ \A k \in Jobs \ {j} : doc'[k] = doc[k] /\ worker'[k] = worker[k]
      /\ \A n \in DOMAIN pins' \ DOMAIN pins : pins'[n].by = j
  <2>1. left' \in Scenario
    BY <1>1 DEF Typed
  <2> QED BY <1>1, <1>2, <2>1, Remembers
<1>4. Lawful(j)' /\ Phased(j)'
  <2>1. Lawful(j)'
    BY <1>1, <1>2, <1>3, IdleIs DEF Own, Lawful, Started
  <2> QED BY <1>1, <1>2, <1>3, <2>1 DEF Own, Phased, Started
<1>5. Matched(j)' /\ Dropped(j)' /\ Undismissed(j)'
  BY <1>1, <1>2, <1>3 DEF Own, Matched, Dropped, Undismissed
<1>6. Truthful(j)'
  BY <1>1, <1>2, <1>3, PinsStay DEF Own, Truthful
<1>7. Wanted(j)'
  <2>1. \A n : Held(j, n) => Held(j, n)'
    BY <1>3 DEF Held, Stored
  <2> QED BY <1>1, <1>2, <1>3, <2>1, PinsStay DEF Own, Wanted, Started
<1>8. \A n \in Places : ~Told(j, n)
  BY <1>1 DEF Told
<1> QED BY <1>1, <1>3, <1>4, <1>5, <1>6, <1>7, <1>8, Retelling DEF Moves, Own, PinsKept

\* The document of a job and its worker's memory are written.
LEMMA Writes ==
  ASSUME Typed, NEW j \in Jobs, NEW e \in JobDoc, doc' = [doc EXCEPT ![j] = e], NEW v \in Memory, InMemory(j, v),
         UNCHANGED pins, left' \in Scenario
  PROVE  /\ Typed' /\ PinsKept /\ worker'[j] = v /\ doc'[j] = e
         /\ \A k \in Jobs \ {j} : doc'[k] = doc[k] /\ worker'[k] = worker[k]
         /\ \A i \in DOMAIN pins' \ DOMAIN pins : pins'[i].by = j
<1>1. worker' \in [Jobs -> Memory] /\ worker'[j] = v /\ \A k \in Jobs \ {j} : worker'[k] = worker[k]
  BY DEF InMemory, Typed
<1>2. doc' \in [Jobs -> JobDoc] /\ doc'[j] = e /\ \A k \in Jobs \ {j} : doc'[k] = doc[k]
  BY DEF Typed
<1> QED BY <1>1, <1>2 DEF Typed, PinsKept

\* What a retry inherited is stored before it does anything else.
LEMMA CheckpointMoves == ASSUME Inv, NEW j \in Jobs, Checkpoint(j) PROVE Moves(j)
<1> DEFINE w == worker[j]
           d == doc[j]
           v == [w EXCEPT !.pc = "analyse"]
           e == [d EXCEPT !.out = w.out, !.rcand = w.stored, !.recovery = Recovery(j), !.begun = TRUE]
<1>1. Typed /\ Own(j) /\ Tells(j) /\ pins \in Seq(PinDoc) /\ w \in Memory /\ d \in JobDoc /\ w.pc = "checkpoint" /\ d.st = "processing" /\ UNCHANGED pins
  BY DEF Inv, Typed, Own, Checkpoint, Active
<1>2. CASE Spend("faults") /\ InMemory(j, Fail(w)) /\ UNCHANGED doc
  BY <1>1, <1>2, Spends, FailsAt DEF Typed
<1>3. CASE InMemory(j, v) /\ UNCHANGED left /\ doc' = [doc EXCEPT ![j].out = w.out, ![j].rcand = w.stored, ![j].recovery = Recovery(j), ![j].begun = TRUE]
  <2>1. doc' = [doc EXCEPT ![j] = e]
    BY <1>1, <1>3 DEF Typed
  <2>2. v \in Memory /\ v.pc = "analyse" /\ v.init = w.init /\ v.out = w.out /\ v.again = w.again /\ v.rec = w.rec /\ v.pin = w.pin
    BY <1>1 DEF Memory, Phases
  <2>3. Recovery(j) \in Recoveries /\ (w.rec # "absent" \/ d.recovery # "absent" => Recovery(j) # "absent")
    BY <1>1 DEF Recovery, Memory, JobDoc
  <2>4. /\ e \in JobDoc /\ e.st = d.st /\ e.link = d.link /\ e.par = d.par /\ e.kind = d.kind /\ e.unstarted = d.unstarted /\ e.drops = d.drops
        /\ e.wants = d.wants /\ e.begun /\ e.out = w.out /\ e.recovery = Recovery(j) /\ e.partial = d.partial /\ e.picked = d.picked
    BY <1>1, <2>3 DEF JobDoc, Memory
  <2>5. left' \in Scenario
    BY <1>1, <1>3 DEF Typed
  <2>6. InMemory(j, v)
    BY <1>3
  <2> HIDE DEF v, e
  <2>7. /\ Typed' /\ PinsKept /\ worker'[j] = v /\ doc'[j] = e
        /\ \A k \in Jobs \ {j} : doc'[k] = doc[k] /\ worker'[k] = worker[k]
        /\ \A i \in DOMAIN pins' \ DOMAIN pins : pins'[i].by = j
    BY <1>1, <2>1, <2>2, <2>4, <2>5, <2>6, Writes
  <2>8. d.out = Blank /\ ~d.begun /\ \A p \in Places : d.out[p].st = "none"
    BY <1>1, IdleIs DEF Own, Phased, None
  <2>9. Evolves(j)
    BY <1>1, <2>3, <2>4, <2>7, <2>8 DEF Evolves, Dismissed
  <2>10. Lawful(j)'
    BY <1>1, <2>2, <2>4, <2>7 DEF Own, Lawful, Started
  <2>11. Phased(j)'
    BY <1>1, <2>2, <2>4, <2>7 DEF Own, Phased, Started
  <2>12. Matched(j)' /\ Undismissed(j)'
    BY <1>1, <2>2, <2>4, <2>7 DEF Own, Matched, Undismissed
  <2>13. Truthful(j)'
    BY <1>1, <2>2, <2>4, <2>7, PinsStay DEF Own, Truthful
  <2>14. Dropped(j)'
    BY <1>1, <2>2, <2>4, <2>7 DEF Own, Dropped
  <2>15. Wanted(j)'
    <3>1. \A p \in d.wants : Safe(w.out, p)
      BY <1>1 DEF Own, Wanted
    <3>2. \A p \in d.wants : Pinned(p)' \/ Held(j, p)'
      BY <2>4, <2>7, <3>1, PinsStay DEF Safe, Held, Unresolved
    <3> QED BY <1>1, <2>2, <2>4, <2>7, <3>1, <3>2, PinsStay DEF Wanted
  <2>16. \A p \in Places : ~Told(j, p)
    BY <1>1 DEF Told
  <2> QED BY <1>1, <2>7, <2>9, <2>10, <2>11, <2>12, <2>13, <2>14, <2>15, <2>16, Retelling DEF Moves, Own, PinsKept
<1> QED BY <1>2, <1>3 DEF Checkpoint

\* The outcomes an analysis gives: what was settled before stays, and what the
\* user asked for is tried.
LEMMA AnalyseMoves ==
  ASSUME Inv, NEW j \in Jobs, NEW found \in SUBSET left.shown, NEW matched \in SUBSET left.shown, NEW unsure \in SUBSET left.shown,
         NEW how, Analyse(j, found, matched, unsure, how)
  PROVE  Moves(j)
<1> DEFINE w == worker[j]
           d == doc[j]
           tried == Tried(w, found)
           exist == {p \in matched \ unsure : LivePins(p) # {}}
           kept == {p \in At(w.init, {"unresolved"}) \ tried : d.kind = "analysis" \/ (w.reread /\ how # "sound")}
           out == [p \in Places |->
                     CASE p \in exist -> [st |-> "existing", pin |-> CHOOSE i \in LivePins(p) : TRUE, conf |-> FALSE]
                       [] p \in matched \ exist -> [st |-> "candidate", pin |-> 0, conf |-> w.init[p].conf]
                       [] p \in (tried \ matched) \cup kept -> Unresolved(w.init[p].conf)
                       [] p \in Base(w.init) -> w.init[p]
                       [] OTHER -> None]
           val(r) == [w EXCEPT !.pc = "append", !.out = out, !.cand = matched \ exist, !.todo = exist, !.unsure = unsure,
                               !.sound = how = "sound", !.rec = r]
<1>1. Typed /\ Own(j) /\ Tells(j) /\ pins \in Seq(PinDoc) /\ w \in Memory /\ d \in JobDoc
  BY DEF Inv, Typed, Own
<1>2. w.pc = "analyse" /\ d.link \notin MapsLinks /\ matched \subseteq tried /\ unsure \subseteq matched /\ UNCHANGED <<pins, doc>>
      /\ (UNCHANGED left \/ Spend("faults"))
  BY DEF Analyse
<1>3. PICK rec \in {"incomplete", "none", w.rec} : InMemory(j, val(rec)) /\ (rec = "none" => w.rec # "absent")
  <2>1. PICK rec \in IF how = "incomplete" THEN {"incomplete"}
                     ELSE {w.rec} \cup {r \in {"none"} : how = "sound" /\ ~Resumes(w) /\ w.rec # "absent"} : InMemory(j, val(rec))
    BY DEF Analyse
  <2>2. rec \in {"incomplete", "none", w.rec} /\ (rec = "none" => w.rec # "absent" \/ rec = w.rec)
    BY <2>1
  <2> QED BY <2>1, <2>2
<1>4. left' \in Scenario /\ left.shown \subseteq Places
  BY <1>1, <1>2, Spends DEF Typed, Scenario
<1>5. /\ \A p \in Base(w.init) : p \notin tried /\ w.init[p].st \in Committed \cup Dismissed
      /\ \A p \in kept : w.init[p].st = "unresolved" /\ p \in Places
      /\ tried \subseteq Places /\ \A p \in Places : w.init[p] \in Outcome /\ w.init[p].st # "candidate" /\ Plain(w.init[p])
  <2>1. w.again \subseteq Places /\ found \subseteq Places
    BY <1>1, <1>4 DEF Memory
  <2> QED BY <1>1, <2>1 DEF Tried, Base, At, Own, Matched, Memory
<1>6. \A p \in Places : w.init[p].st = "unresolved" /\ w.init[p].conf => p \in w.again /\ p \in tried
  BY <1>1, <1>5 DEF Own, Matched, Tried, Resumes, Base, At, Committed, Dismissed
<1>7. \A p \in exist : p \in Places /\ (CHOOSE i \in LivePins(p) : TRUE) \in LivePins(p)
  BY <1>4
<1>8. \A p \in exist : /\ out[p].st = "existing" /\ out[p] \in Outcome /\ out[p].pin \in DOMAIN pins /\ Pinned(p)
                       /\ w.init[p].st \notin Committed \cup Dismissed
  <2> TAKE p \in exist
  <2>1. out[p] = [st |-> "existing", pin |-> CHOOSE i \in LivePins(p) : TRUE, conf |-> FALSE]
    <3>1. p \in tried /\ p \notin (tried \ matched) \cup kept /\ p \notin Base(w.init) /\ p \notin matched \ exist
      BY <1>2, <1>5
    <3> HIDE DEF exist, kept, tried
    <3> QED BY <1>7, <3>1
  <2>2. out[p].st = "existing" /\ out[p].pin \in LivePins(p) /\ out[p] = [st |-> "existing", pin |-> out[p].pin, conf |-> FALSE]
    <3> HIDE DEF out, exist
    <3> QED BY <1>7, <2>1
  <2> HIDE DEF out
  <2>3. out[p].pin \in DOMAIN pins /\ out[p].pin \in Nat /\ Pinned(p)
    BY <1>1, <2>2 DEF LivePins, Pinned
  <2>4. w.init[p].st \notin Committed \cup Dismissed
    BY <1>2, <1>5, <1>7 DEF Base, At
  <2>5. \A i \in Nat : [st |-> "existing", pin |-> i, conf |-> FALSE] \in Outcome
    BY DEF Outcome, Committed
  <2>6. out[p] \in Outcome
    BY <2>2, <2>3, <2>5
  <2> QED BY <2>2, <2>3, <2>4, <2>6
<1>9. \A p \in Places \ exist :
        \/ p \in matched /\ out[p] = Candidate(w.init[p].conf) /\ out[p] \in Outcome /\ w.init[p].st \notin Committed \cup Dismissed
        \/ p \notin matched /\ out[p] = Unresolved(w.init[p].conf) /\ out[p] \in Outcome /\ w.init[p].st \notin Committed \cup Dismissed
        \/ p \notin matched /\ out[p] = w.init[p] /\ w.init[p].st \in Committed \cup Dismissed
        \/ p \notin matched \cup tried /\ out[p] = None /\ w.init[p].st \notin Committed \cup Dismissed
  <2> TAKE p \in Places \ exist
  <2>1. w.init[p].conf \in BOOLEAN /\ Candidate(w.init[p].conf) \in Outcome /\ Unresolved(w.init[p].conf) \in Outcome
    BY <1>5 DEF Outcome, Candidate, Unresolved
  <2>2. p \in Base(w.init) <=> w.init[p].st \in Committed \cup Dismissed
    BY DEF Base, At
  <2>3. CASE p \in matched
    BY <1>2, <1>5, <2>1, <2>2, <2>3 DEF Candidate
  <2>4. CASE p \notin matched /\ p \in tried \cup kept
    <3>1. p \notin Base(w.init)
      BY <1>5, <2>4 DEF Committed, Dismissed
    <3>2. out[p] = Unresolved(w.init[p].conf)
      <4> HIDE DEF exist, kept, tried
      <4> QED BY <2>4, <3>1
    <3> QED BY <2>1, <2>2, <2>4, <3>1, <3>2
  <2>5. CASE p \notin matched /\ p \notin tried \cup kept
    BY <2>2, <2>5
  <2> QED BY <2>3, <2>4, <2>5
<1>10. out \in [Places -> Outcome]
  <2>1. \A p \in Places : out[p] \in Outcome
    <3> HIDE DEF out, exist
    <3> QED BY <1>5, <1>8, <1>9, IdleIs
  <2>2. out = [p \in Places |-> out[p]]
    OBVIOUS
  <2> HIDE DEF out
  <2> QED BY <2>1, <2>2
<1> HIDE DEF out
<1> DEFINE v == val(rec)
<1>11. /\ v \in Memory /\ v.pc = "append" /\ v.out = out /\ v.cand = matched \ exist /\ v.todo = exist /\ v.rec = rec
       /\ v.init = w.init /\ v.again = w.again /\ v.pin = w.pin
  <2>1. matched \ exist \in SUBSET Places /\ exist \in SUBSET Places /\ unsure \in SUBSET (Places \cup Nat) /\ rec \in Recoveries
        /\ (how = "sound") \in BOOLEAN
    BY <1>1, <1>4 DEF Recoveries, Memory
  <2> HIDE DEF exist
  <2> QED BY <1>1, <1>10, <2>1 DEF Memory, Phases
<1>12. InMemory(j, v)
  BY <1>3
<1> HIDE DEF v, exist
<1>13. /\ Typed' /\ PinsKept /\ Evolves(j) /\ worker'[j] = v /\ doc'[j] = d
       /\ \A k \in Jobs \ {j} : doc'[k] = doc[k] /\ worker'[k] = worker[k]
       /\ \A n \in DOMAIN pins' \ DOMAIN pins : pins'[n].by = j
  BY <1>1, <1>2, <1>4, <1>11, <1>12, Remembers
<1>14. None.st = "none" /\ \A c : Candidate(c).st = "candidate" /\ Unresolved(c).st = "unresolved"
  BY DEF None, Candidate, Unresolved
<1>15. Lawful(j)'
  BY <1>1, <1>2, <1>11, <1>13, IdleIs DEF Own, Lawful, Started
<1>16. Phased(j)'
  <2>1. d.kind = "analysis" => rec # "absent"
    BY <1>1, <1>2, <1>3 DEF Own, Phased
  <2> QED BY <1>1, <1>2, <1>11, <1>13, <2>1 DEF Own, Phased, Started
<1>17. Matched(j)'
  <2>1. \A p \in Places : Plain(out[p])
    BY <1>5, <1>8, <1>9, <1>14 DEF Plain
  <2>2. \A p \in Places : out[p].st = "candidate" => p \in matched \ exist
    BY <1>5, <1>8, <1>9, <1>14
  <2>3. \A p \in matched \ exist : p \in Places /\ out[p] = Candidate(w.init[p].conf) /\ p \notin exist
    BY <1>4, <1>9
  <2>4. \A p \in matched \ exist : w.init[p].conf => p \in w.again
    <3> SUFFICES ASSUME NEW p \in matched \ exist, w.init[p].conf PROVE p \in w.again
      OBVIOUS
    <3>1. p \in Places /\ w.init[p].st \notin Committed \cup Dismissed
      BY <1>4, <1>9, <2>3, <1>14
    <3>2. w.init[p].st # "none"
      BY <1>5, <3>1 DEF Plain, None
    <3> QED BY <1>5, <1>6, <3>1, <3>2 DEF Outcome
  <2> QED BY <1>1, <1>11, <1>13, <2>1, <2>2, <2>3, <2>4 DEF Own, Matched
<1>18. Truthful(j)'
  <2>1. \A l : \A p \in Places \ exist : Says(w.init[p], l) => Says(out[p], l)
    BY <1>9, <1>14 DEF Says
  <2>2. w.pin = 0 /\ exist \subseteq Places
    BY <1>1, <1>2, <1>4 DEF Own, Phased, exist
  <2> QED BY <1>1, <1>8, <1>11, <1>13, <2>1, <2>2, PinsStay DEF Own, Truthful, PinsKept
<1>19. Dropped(j)'
  <2>1. \A p \in Places : w.init[p].st \in Dismissed => out[p] = w.init[p]
    BY <1>8, <1>9
  <2>2. \A p \in Places : out[p].st \in Dismissed => out[p] = w.init[p]
    BY <1>8, <1>9, <1>14 DEF Dismissed
  <2>3. w.out = w.init
    BY <1>1, <1>2 DEF Own, Phased
  <2> QED BY <1>1, <1>2, <1>11, <1>13, <2>1, <2>2, <2>3 DEF Own, Dropped
<1>20. Wanted(j)'
  <2>1. \A p : Held(j, p) => Held(j, p)'
    BY <1>13 DEF Held, Stored
  <2>2. Started(j) /\ w.out = w.init /\ d.wants \subseteq Places
    BY <1>1, <1>2 DEF Own, Phased, JobDoc
  <2>3. ASSUME NEW p \in d.wants PROVE Safe(out, p) \/ out[p] = Candidate(TRUE)
    <3>1. Safe(w.init, p) /\ p \in Places
      BY <1>1, <1>2, <2>2 DEF Own, Wanted
    <3>2. CASE w.init[p] = Unresolved(TRUE)
      <4>1. p \in tried /\ w.init[p].conf = TRUE
        BY <1>6, <3>1, <3>2 DEF Unresolved
      <4>2. CASE p \in exist
        BY <1>8, <4>2 DEF Safe
      <4>3. CASE p \notin exist
        BY <1>9, <1>14, <3>1, <3>2, <4>1, <4>3 DEF Safe, Committed, Dismissed
      <4> QED BY <4>2, <4>3
    <3>3. CASE w.init[p].st \in Dismissed
      BY <1>8, <1>9, <3>1, <3>3 DEF Safe
    <3> QED BY <3>1, <3>2, <3>3 DEF Safe
  <2>4. \A p \in Places : out[p].st \in Committed => w.init[p].st \in Committed \/ Pinned(p)
    BY <1>8, <1>9, <1>14 DEF Committed
  <2> QED BY <1>1, <1>2, <1>11, <1>13, <2>1, <2>2, <2>3, <2>4, PinsStay DEF Own, Wanted, Started
<1>21. Undismissed(j)'
  BY <1>2, <1>11, <1>13 DEF Undismissed
<1>22. \A p \in Places : ~Told(j, p)
  BY <1>2 DEF Told
<1> QED BY <1>1, <1>2, <1>13, <1>15, <1>16, <1>17, <1>18, <1>19, <1>20, <1>21, <1>22, Retelling DEF Moves, Own, PinsKept

\* The share is attached to a place that is pinned, or the job fails there.
LEMMA AppendNextMoves == ASSUME Inv, NEW j \in Jobs, AppendNext(j) PROVE Moves(j)
<1> DEFINE w == worker[j]
           d == doc[j]
           v(p, n) == [w EXCEPT !.todo = @ \ {p}, !.pin = n]
<1>1. Typed /\ Own(j) /\ Tells(j) /\ pins \in Seq(PinDoc) /\ w \in Memory /\ d.st = "processing" /\ w.pc = "append" /\ doc' = doc
  BY DEF Inv, Typed, Own, AppendNext, Active
<1>2. PICK p \in w.todo :
        \/ Appends(j, w.out[p].pin) /\ UNCHANGED left /\ \E n \in {w.pin, w.out[p].pin} : InMemory(j, v(p, n))
        \/ InMemory(j, Fail([w EXCEPT !.out = Unattached(w, p)])) /\ UNCHANGED pins /\ (UNCHANGED left \/ Spend("faults"))
  BY DEF AppendNext
<1>3. left' \in Scenario
  BY <1>1, <1>2, Spends DEF Typed
<1>4. p \in Places /\ w.out[p].st = "existing" /\ w.out[p].pin \in DOMAIN pins /\ w.out[p].pin \in Nat /\ w.pin \in Nat
  BY <1>1 DEF Own, Truthful, Memory
<1>5. CASE InMemory(j, Fail([w EXCEPT !.out = Unattached(w, p)])) /\ UNCHANGED pins
  <2> DEFINE o == [q \in Places |-> IF w.pc = "append" /\ q \in w.todo THEN Unresolved(FALSE) ELSE w.out[q]]
  <2>1. Unattached(w, p) = o
    BY <1>1 DEF Unattached
  <2>2. Fail([w EXCEPT !.out = o]) = [w EXCEPT !.out = o, !.pc = "report", !.verdict = "failed"]
    BY DEF Fail
  <2>3. Failed(w, w.pin) = [w EXCEPT !.pc = "report", !.verdict = "failed", !.pin = w.pin, !.out = o]
    BY DEF Failed
  <2> HIDE DEF o
  <2>4. [w EXCEPT !.out = o, !.pc = "report", !.verdict = "failed"] = [w EXCEPT !.pc = "report", !.verdict = "failed", !.pin = w.pin, !.out = o]
    BY <1>1 DEF Memory
  <2> QED BY <1>1, <1>3, <1>4, <1>5, <2>1, <2>2, <2>3, <2>4, Fails
<1>6. ASSUME Appends(j, w.out[p].pin), NEW n \in {w.pin, w.out[p].pin}, InMemory(j, v(p, n)) PROVE Moves(j)
  <2> DEFINE u == v(p, n)
  <2> PICK i \in DOMAIN pins : i = w.out[p].pin
    BY <1>4
  <2>1. d.link \in Links
    BY <1>1 DEF Own, Lawful
  <2>2. pins' \in Seq(PinDoc) /\ PinsKept /\ DOMAIN pins' = DOMAIN pins /\ Holds(i, d.link)'
    BY <1>1, <1>6, <2>1, AppendsIs
  <2>3. /\ u \in Memory /\ u.pc = "append" /\ u.out = w.out /\ u.cand = w.cand /\ u.todo = w.todo \ {p} /\ u.rec = w.rec
        /\ u.init = w.init /\ u.again = w.again /\ u.pin = n
    BY <1>1, <1>4 DEF Memory
  <2>4. InMemory(j, u)
    BY <1>6
  <2> HIDE DEF u
  <2>5. /\ Typed' /\ Evolves(j) /\ worker'[j] = u /\ doc'[j] = d
        /\ \A k \in Jobs \ {j} : doc'[k] = doc[k] /\ worker'[k] = worker[k]
    <3>1. worker' \in [Jobs -> Memory] /\ worker'[j] = u /\ \A k \in Jobs \ {j} : worker'[k] = worker[k]
      BY <1>1, <2>3, <2>4 DEF InMemory, Typed
    <3> QED BY <1>1, <1>3, <2>2, <3>1 DEF Typed, Evolves
  <2>6. Lawful(j)' /\ Phased(j)'
    BY <1>1, <2>3, <2>5 DEF Own, Lawful, Phased, Started
  <2>7. Matched(j)' /\ Dropped(j)'
    BY <1>1, <2>3, <2>5 DEF Own, Matched, Dropped
  <2>8. Truthful(j)'
    <3>1. n # 0 => Holds(n, d.link)'
      <4>1. w.pin # 0 => Holds(w.pin, d.link)
        BY <1>1 DEF Own, Truthful
      <4>2. ASSUME NEW m, NEW l, Holds(m, l) PROVE Holds(m, l)'
        BY <2>2, <4>2, PinsStay
      <4>3. CASE n = i
        BY <2>2, <4>3
      <4>4. CASE n # i
        BY <1>1, <4>1, <4>2, <4>4 DEF Holds
      <4> QED BY <4>3, <4>4
    <3>2. Says(w.out[p], d.link)'
      BY <2>2, <2>3, <2>5 DEF Says, Holds
    <3> QED BY <1>1, <2>2, <2>3, <2>5, <3>1, <3>2, PinsStay DEF Own, Truthful
  <2>9. Wanted(j)'
    <3>1. \A q : Held(j, q) => Held(j, q)'
      BY <2>5 DEF Held, Stored
    <3>2. Started(j) /\ d.st # "needs_selection"
      BY <1>1 DEF Own, Phased
    <3>3. \A q \in d.wants : (Safe(w.out, q) \/ w.out[q] = Candidate(TRUE)) /\ (Pinned(q) \/ Held(j, q))
      BY <1>1, <3>2 DEF Own, Wanted
    <3>4. \A q \in Places : w.out[q].st \in Committed => w.init[q].st \in Committed \/ Pinned(q)
      BY <1>1 DEF Own, Wanted
    <3> QED BY <2>2, <2>3, <2>5, <3>1, <3>2, <3>3, <3>4, PinsStay DEF Wanted
  <2>10. Undismissed(j)'
    BY <1>1, <2>3, <2>5 DEF Own, Undismissed
  <2>11. \A q \in Places : ~Told(j, q)
    BY <1>1 DEF Told
  <2> QED BY <1>1, <2>2, <2>5, <2>6, <2>7, <2>8, <2>9, <2>10, <2>11, Retelling DEF Moves, Own
<1> QED BY <1>2, <1>5, <1>6

\* The matches are stored before any of them is saved.
LEMMA StoreMatchesMoves == ASSUME Inv, NEW j \in Jobs, StoreMatches(j) PROVE Moves(j)
<1> DEFINE w == worker[j]
           d == doc[j]
           sure == {p \in w.cand : w.init[p].conf}
           v == [w EXCEPT !.pc = "confirm", !.todo = sure, !.sure = sure]
           e == [d EXCEPT !.out = w.out, !.cand = w.cand, !.rcand = {}, !.recovery = Recovery(j)]
<1>1. Typed /\ Own(j) /\ Tells(j) /\ pins \in Seq(PinDoc) /\ w \in Memory /\ d \in JobDoc /\ w.pc = "append" /\ w.todo = {} /\ UNCHANGED pins
  BY DEF Inv, Typed, Own, StoreMatches, Attempted
<1>2. \/ InMemory(j, v) /\ UNCHANGED left
         /\ \/ UNCHANGED doc
            \/ Active(j) /\ doc' = [doc EXCEPT ![j].out = w.out, ![j].cand = w.cand, ![j].rcand = {}, ![j].recovery = Recovery(j)]
      \/ InMemory(j, Fail(w)) /\ UNCHANGED doc /\ Spend("faults")
  BY DEF StoreMatches
<1>3. left' \in Scenario
  BY <1>1, <1>2, Spends DEF Typed
<1>4. /\ v \in Memory /\ v.pc = "confirm" /\ v.out = w.out /\ v.cand = w.cand /\ v.todo = sure /\ v.sure = sure /\ v.rec = w.rec
      /\ v.init = w.init /\ v.again = w.again /\ v.pin = w.pin
  <2>1. sure \in SUBSET Places
    BY <1>1 DEF Memory
  <2> HIDE DEF sure
  <2> QED BY <1>1, <2>1 DEF Memory, Phases
<1>5. Started(j) /\ d.st # "none" /\ d.link \notin MapsLinks /\ ~d.picked /\ d.st # "needs_selection" /\ ~d.partial /\ ~d.unstarted
  BY <1>1, IdleIs DEF Own, Lawful, Phased
<1>6. \A p \in Places : w.out[p].st = "candidate" => p \in w.cand /\ w.out[p] = Candidate(w.init[p].conf)
  BY <1>1 DEF Own, Matched
<1>7. \A c : Candidate(c).st = "candidate" /\ Candidate(c).conf = c
  BY DEF Candidate
<1>8. \A p \in d.wants : p \in Places /\ (Safe(w.out, p) \/ (p \in sure /\ w.out[p].st = "candidate" /\ w.out[p].conf))
  <2> TAKE p \in d.wants
  <2>1. p \in Places /\ (Safe(w.out, p) \/ w.out[p] = Candidate(TRUE))
    BY <1>1, <1>5 DEF Own, Wanted, JobDoc
  <2>2. CASE w.out[p] = Candidate(TRUE)
    <3>1. w.out[p].st = "candidate" /\ w.out[p].conf = TRUE
      BY <1>7, <2>2
    <3> QED BY <1>6, <1>7, <2>1, <3>1
  <2> QED BY <2>1, <2>2
<1>9. ASSUME InMemory(j, v), Typed', PinsKept, worker'[j] = v, Evolves(j),
             \A k \in Jobs \ {j} : doc'[k] = doc[k] /\ worker'[k] = worker[k], DOMAIN pins' \ DOMAIN pins = {},
             doc'[j] = d \/ (doc'[j] = e /\ d.st = "processing")
      PROVE  Moves(j)
  <2>1. d.st = "processing" => /\ e.st = d.st /\ e.link = d.link /\ e.par = d.par /\ e.kind = d.kind /\ e.unstarted = d.unstarted
                               /\ e.drops = d.drops /\ e.wants = d.wants /\ e.begun = d.begun /\ e.out = w.out /\ e.cand = w.cand
                               /\ e.partial = d.partial /\ e.picked = d.picked
    BY <1>1 DEF JobDoc
  <2> HIDE DEF v, e
  <2>2. Lawful(j)'
    BY <1>1, <1>4, <1>5, <1>9, <2>1 DEF Own, Lawful, Started
  <2>3. Phased(j)'
    BY <1>1, <1>4, <1>5, <1>9, <2>1 DEF Own, Phased, Started
  <2>4. Matched(j)'
    <3>1. \A p \in Places : Plain(doc'[j].out[p]) /\ Plain(w.out[p])
      BY <1>1, <1>9, <2>1 DEF Own, Matched
    <3>2. Rest(v) = w.cand \ sure /\ sure \subseteq w.cand
      BY <1>4 DEF Rest
    <3> QED BY <1>1, <1>4, <1>9, <3>1, <3>2 DEF Own, Matched
  <2>5. Truthful(j)'
    BY <1>1, <1>4, <1>9, <2>1, PinsStay DEF Own, Truthful
  <2>6. Dropped(j)'
    <3>1. \A p \in Places : (d.out[p].st \in Dismissed => w.out[p] = d.out[p]) /\ (w.out[p].st \in Dismissed => w.out[p] = w.init[p])
      BY <1>1 DEF Own, Dropped
    <3>2. d.begun => \A p \in d.drops : p \in Places /\ d.out[p].st \in Dismissed
      BY <1>1 DEF Own, Dropped, JobDoc
    <3>3. CASE doc'[j] = d
      BY <1>4, <1>5, <1>9, <3>1, <3>2, <3>3 DEF Dropped
    <3>4. CASE doc'[j] = e /\ d.st = "processing"
      BY <1>4, <1>5, <1>9, <2>1, <3>1, <3>2, <3>4 DEF Dropped
    <3> QED BY <1>9, <3>3, <3>4
  <2>7. Wanted(j)'
    <3>1. doc'[j].wants = d.wants /\ doc'[j].st = d.st
      BY <1>9, <2>1
    <3>2. \A p \in d.wants : Pinned(p)' \/ Held(j, p)'
      <4>1. CASE doc'[j] = d
        <5>1. \A p : Held(j, p) => Held(j, p)'
          BY <4>1 DEF Held, Stored
        <5> QED BY <1>1, <1>5, <1>9, <5>1, PinsStay DEF Own, Wanted
      <4>2. CASE doc'[j] = e /\ d.st = "processing"
        <5> TAKE p \in d.wants
        <5>1. Safe(w.out, p) => Pinned(p)' \/ w.out[p].st \in Dismissed \/ (w.out[p].st = "unresolved" /\ w.out[p].conf)
          BY <1>9, PinsStay DEF Safe, Unresolved
        <5> QED BY <1>5, <1>8, <2>1, <4>2, <5>1 DEF Held
      <4> QED BY <1>9, <4>1, <4>2
    <3>3. \A p \in d.wants : Safe(w.out, p)' \/ p \in sure
      BY <1>4, <1>8, <1>9, PinsStay
    <3>4. \A p \in Places : w.out[p].st \in Committed => w.init[p].st \in Committed \/ Pinned(p)'
      BY <1>1, <1>9, PinsStay DEF Own, Wanted
    <3> QED BY <1>4, <1>5, <1>9, <3>1, <3>2, <3>3, <3>4 DEF Wanted, Safe
  <2>8. Undismissed(j)'
    BY <1>4, <1>5, <1>9, <2>1 DEF Undismissed
  <2>9. \A p \in Places : ~Told(j, p)
    BY <1>1 DEF Told
  <2> QED BY <1>1, <1>9, <2>2, <2>3, <2>4, <2>5, <2>6, <2>7, <2>8, <2>9, Retelling DEF Moves, Own, Typed
<1>10. CASE InMemory(j, v) /\ UNCHANGED doc
  <2> HIDE DEF v
  <2>1. /\ Typed' /\ PinsKept /\ Evolves(j) /\ worker'[j] = v /\ doc'[j] = d /\ DOMAIN pins' \ DOMAIN pins = {}
        /\ \A k \in Jobs \ {j} : doc'[k] = doc[k] /\ worker'[k] = worker[k]
    BY <1>1, <1>3, <1>4, <1>10, Remembers
  <2> QED BY <1>9, <1>10, <2>1
<1>11. CASE InMemory(j, v) /\ Active(j) /\ doc' = [doc EXCEPT ![j].out = w.out, ![j].cand = w.cand, ![j].rcand = {}, ![j].recovery = Recovery(j)]
  <2>1. doc' = [doc EXCEPT ![j] = e]
    BY <1>1, <1>11 DEF Typed
  <2>2. Recovery(j) \in Recoveries /\ (w.rec # "absent" \/ d.recovery # "absent" => Recovery(j) # "absent")
    BY <1>1 DEF Recovery, Memory, JobDoc
  <2>3. /\ e \in JobDoc /\ e.st = d.st /\ e.link = d.link /\ e.par = d.par /\ e.kind = d.kind /\ e.unstarted = d.unstarted /\ e.drops = d.drops
        /\ e.wants = d.wants /\ e.begun = d.begun /\ e.out = w.out /\ e.recovery = Recovery(j)
    BY <1>1, <2>2 DEF JobDoc, Memory
  <2>6. InMemory(j, v) /\ d.st = "processing"
    BY <1>11 DEF Active
  <2> HIDE DEF v, e
  <2>4. /\ Typed' /\ PinsKept /\ worker'[j] = v /\ doc'[j] = e /\ DOMAIN pins' \ DOMAIN pins = {}
        /\ \A k \in Jobs \ {j} : doc'[k] = doc[k] /\ worker'[k] = worker[k]
    <3>1. v \in Memory /\ e \in JobDoc /\ Typed /\ UNCHANGED pins
      BY <1>1, <1>4, <2>3
    <3>2. /\ Typed' /\ PinsKept /\ worker'[j] = v /\ doc'[j] = e
          /\ \A k \in Jobs \ {j} : doc'[k] = doc[k] /\ worker'[k] = worker[k]
      BY <1>3, <2>1, <2>6, <3>1, Writes
    <3>3. DOMAIN pins' \ DOMAIN pins = {}
      BY <3>1
    <3> QED BY <3>2, <3>3
  <2>5. Evolves(j)
    <3>1. \A p \in Places : d.out[p].st \in Dismissed => w.out[p] = d.out[p]
      BY <1>1 DEF Own, Dropped
    <3> QED BY <2>2, <2>3, <2>4, <2>6, <3>1 DEF Evolves
  <2> QED BY <1>9, <2>4, <2>5, <2>6
<1>12. CASE InMemory(j, Fail(w)) /\ UNCHANGED doc
  BY <1>1, <1>3, <1>12, FailsAt
<1> QED BY <1>2, <1>10, <1>11, <1>12

\* A confirmed place is attempted: it is pinned, or what the next retry saves.
LEMMA SaveConfirmedMoves == ASSUME Inv, NEW j \in Jobs, SaveConfirmed(j) PROVE Moves(j)
<1> DEFINE w == worker[j]
           d == doc[j]
           v(p, o) == [w EXCEPT !.out[p] = o, !.todo = @ \ {p}]
<1>1. Typed /\ Own(j) /\ Tells(j) /\ pins \in Seq(PinDoc) /\ w \in Memory /\ d.st = "processing" /\ w.pc \in {"confirm", "select"} /\ doc' = doc
      /\ d.link \in Links
  BY DEF Inv, Typed, Own, SaveConfirmed, Active, Lawful
<1>2. PICK p \in w.todo :
        \/ \E i \in Target(j, p) : /\ pins' = Written(j, p, i) /\ UNCHANGED left
                                   /\ InMemory(j, v(p, [st |-> Landed(i), pin |-> i, conf |-> w.out[p].conf]))
        \/ Spend("faults") /\ InMemory(j, v(p, Unresolved(TRUE))) /\ UNCHANGED pins
  BY <1>1 DEF SaveConfirmed, Saves
<1>3. left' \in Scenario
  BY <1>1, <1>2, Spends DEF Typed
<1>4. p \in Places /\ w.out[p] \in Outcome /\ w.out[p].st \notin Dismissed /\ d.out[p].st \notin Dismissed
      /\ (w.pc = "confirm" => p \in w.sure /\ w.out[p].st = "candidate" /\ w.again # {})
  <2>1. p \in Places /\ w.out[p] \in Outcome
    BY <1>1 DEF Memory
  <2>2. w.pc = "confirm" => p \in w.sure /\ p \in w.cand /\ w.out[p] = Candidate(w.init[p].conf) /\ w.again # {}
    BY <1>1, <2>1 DEF Own, Matched
  <2>3. w.out[p].st \notin Dismissed
    BY <1>1, <2>2 DEF Own, Dropped, Candidate, Dismissed
  <2>4. d.out[p].st \notin Dismissed
    BY <1>1, <2>1, <2>3 DEF Own, Dropped
  <2> QED BY <2>1, <2>2, <2>3, <2>4 DEF Candidate
<1>5. ASSUME NEW o \in Outcome, o.st \in Committed \cup {"unresolved"}, o.st = "unresolved" => o = Unresolved(TRUE),
             InMemory(j, v(p, o)), pins' \in Seq(PinDoc), PinsKept, Says(o, d.link)', o.st \in Committed => Pinned(p)',
             \A n \in DOMAIN pins' \ DOMAIN pins : pins'[n].by = j /\ pins'[n].place = p /\ o.st \in Committed
      PROVE  Moves(j)
  <2> DEFINE u == v(p, o)
  <2>1. /\ u \in Memory /\ u.pc = w.pc /\ u.cand = w.cand /\ u.todo = w.todo \ {p} /\ u.sure = w.sure /\ u.rec = w.rec
        /\ u.init = w.init /\ u.again = w.again /\ u.pin = w.pin /\ u.out[p] = o /\ \A q \in Places \ {p} : u.out[q] = w.out[q]
    <3>1. [w.out EXCEPT ![p] = o] \in [Places -> Outcome] /\ [w.out EXCEPT ![p] = o][p] = o
          /\ \A q \in Places \ {p} : [w.out EXCEPT ![p] = o][q] = w.out[q]
      BY <1>1, <1>4, <1>5 DEF Memory
    <3>2. u = [w EXCEPT !.out = [w.out EXCEPT ![p] = o], !.todo = w.todo \ {p}]
      BY <1>1 DEF Memory
    <3> DEFINE f == [w.out EXCEPT ![p] = o]
    <3> HIDE DEF u, f
    <3>3. u = [w EXCEPT !.out = f, !.todo = w.todo \ {p}] /\ f \in [Places -> Outcome]
      BY <3>1, <3>2 DEF f
    <3>4. u.out = f
      BY <1>1, <3>3 DEF Memory
    <3>5. u \in Memory /\ u.pc = w.pc /\ u.cand = w.cand /\ u.todo = w.todo \ {p} /\ u.sure = w.sure /\ u.rec = w.rec
          /\ u.init = w.init /\ u.again = w.again /\ u.pin = w.pin
      BY <1>1, <3>3 DEF Memory
    <3> QED BY <3>1, <3>4, <3>5 DEF f
  <2>2. InMemory(j, u)
    BY <1>5
  <2> HIDE DEF u
  <2>3. /\ Typed' /\ Evolves(j) /\ worker'[j] = u /\ doc'[j] = d
        /\ \A k \in Jobs \ {j} : doc'[k] = doc[k] /\ worker'[k] = worker[k]
    <3>1. worker' \in [Jobs -> Memory] /\ worker'[j] = u /\ \A k \in Jobs \ {j} : worker'[k] = worker[k]
      BY <1>1, <2>1, <2>2 DEF InMemory, Typed
    <3> QED BY <1>1, <1>3, <1>5, <3>1 DEF Typed, Evolves
  <2>4. o.st \notin Dismissed \cup {"none", "candidate"}
    BY <1>5 DEF Committed, Dismissed
  <2>5. Lawful(j)' /\ Phased(j)'
    <3>1. Lawful(j)'
      BY <1>1, <2>1, <2>3 DEF Own, Lawful, Started
    <3> QED BY <1>1, <2>1, <2>3, <3>1 DEF Own, Phased, Started
  <2>6. Matched(j)'
    <3>1. \A q \in Places : Plain(u.out[q])
      BY <1>1, <2>1, <2>4 DEF Own, Matched, Plain
    <3>2. Rest(u) = Rest(w) /\ (w.pc = "confirm" => p \notin Rest(w))
      BY <1>4, <2>1 DEF Rest
    <3>3. w.pc = "confirm" => /\ u.sure = {q \in u.cand : u.init[q].conf} /\ u.todo \subseteq u.sure
                              /\ \A q \in u.todo \cup Rest(u) : u.out[q] = Candidate(u.init[q].conf)
      <4>1. w.pc = "confirm" => w.todo \cup Rest(w) \subseteq Places
        BY <1>1 DEF Memory, Rest
      <4> QED BY <1>1, <2>1, <3>2, <4>1 DEF Own, Matched
    <3>4. \A q \in Places : u.out[q].st = "candidate" => w.pc = "confirm" /\ q \in u.todo \cup Rest(u)
      BY <1>1, <2>1, <2>4, <3>2 DEF Own, Matched
    <3> QED BY <1>1, <2>1, <2>3, <3>1, <3>3, <3>4 DEF Own, Matched
  <2>7. Truthful(j)'
    <3>1. PICK r : r = u.out
      OBVIOUS
    <3>2. \A q \in Places : Says(r[q], d.link)'
      BY <1>1, <1>5, <2>1, <3>1, PinsStay DEF Own, Truthful
    <3> QED BY <1>1, <1>5, <2>1, <2>3, <3>1, <3>2, PinsStay DEF Own, Truthful
  <2>8. Dropped(j)'
    <3>1. \A q \in Places : d.out[q].st \in Dismissed => u.out[q] = d.out[q]
      BY <1>1, <1>4, <2>1 DEF Own, Dropped
    <3>2. w.pc = "confirm" => \A q \in Places : u.out[q].st \in Dismissed => u.out[q] = w.init[q]
      BY <1>1, <2>1, <2>4 DEF Own, Dropped
    <3>3. w.pc = "select" => \A q \in u.todo : u.out[q].st \notin Dismissed
      <4>1. w.todo \subseteq Places
        BY <1>1 DEF Memory
      <4> QED BY <1>1, <2>1, <4>1 DEF Own, Dropped
    <3> QED BY <1>1, <2>1, <2>3, <3>1, <3>2, <3>3 DEF Own, Dropped
  <2>9. Wanted(j)'
    <3>1. \A q : Held(j, q) => Held(j, q)'
      BY <2>3 DEF Held, Stored
    <3>2. Started(j) /\ d.wants \subseteq Places
      <4>1. Started(j)
        BY <1>1 DEF Own, Phased
      <4> QED BY <1>1, <4>1 DEF Typed, JobDoc
    <3>3. \A q \in d.wants : (Safe(w.out, q) \/ q \in w.todo) /\ (Pinned(q) \/ Held(j, q))
      BY <1>1, <3>2 DEF Own, Wanted
    <3>4. \A q \in d.wants : Pinned(q)' \/ u.out[q].st \in Dismissed \/ u.out[q] = Unresolved(TRUE) \/ q \in u.todo
      <4>1. Pinned(p)' \/ u.out[p] = Unresolved(TRUE)
        BY <1>5, <2>1
      <4> QED BY <1>5, <2>1, <3>2, <3>3, <4>1, PinsStay DEF Safe
    <3>5. w.pc = "confirm" => \A q \in Places : u.out[q].st \in Committed => w.init[q].st \in Committed \/ Pinned(q)'
      BY <1>1, <1>5, <2>1, PinsStay DEF Own, Wanted
    <3> QED BY <1>1, <1>5, <2>1, <2>3, <3>1, <3>2, <3>3, <3>4, <3>5, PinsStay DEF Wanted, Safe
  <2>10. Undismissed(j)'
    BY <1>1, <2>1, <2>3 DEF Own, Undismissed, Phased
  <2>11. \A q \in Places : Told(j, q) => Told(j, q)'
    BY <1>1, <1>4, <1>5, <2>1, <2>3, <2>4 DEF Told, Committed, Dismissed
  <2>12. \A n \in DOMAIN pins' \ DOMAIN pins : Told(j, pins[n].place)'
    <3>1. o.st \in Committed => Told(j, p)'
      <4>1. (w.pc = "select" => d.picked /\ p \in d.chosen) /\ (w.pc = "confirm" => ~d.picked)
        BY <1>1 DEF Own, Phased, Lawful
      <4> QED BY <1>1, <1>4, <2>1, <2>3, <2>4, <4>1 DEF Told, Dismissed
    <3> QED BY <1>5, <3>1
  <2> QED BY <1>1, <1>5, <2>3, <2>5, <2>6, <2>7, <2>8, <2>9, <2>10, <2>11, <2>12, Retelling DEF Moves, Own
<1>6. CASE Spend("faults") /\ InMemory(j, v(p, Unresolved(TRUE))) /\ UNCHANGED pins
  <2>1. Unresolved(TRUE) \in Outcome /\ Unresolved(TRUE).st = "unresolved"
    BY DEF Unresolved, Outcome
  <2>2. pins' \in Seq(PinDoc) /\ PinsKept /\ DOMAIN pins' \ DOMAIN pins = {}
    BY <1>1, <1>6 DEF PinsKept
  <2>3. Says(Unresolved(TRUE), d.link)' /\ "unresolved" \notin Committed
    BY <2>1 DEF Says, Committed
  <2> QED BY <1>5, <1>6, <2>1, <2>2, <2>3
<1>7. ASSUME NEW i \in Target(j, p), pins' = Written(j, p, i), InMemory(j, v(p, [st |-> Landed(i), pin |-> i, conf |-> w.out[p].conf]))
      PROVE  Moves(j)
  <2> PICK o : o = [st |-> Landed(i), pin |-> i, conf |-> w.out[p].conf]
    OBVIOUS
  <2>1. /\ pins' \in Seq(PinDoc) /\ PinsKept /\ i \in Nat /\ Holds(i, d.link)'
        /\ \A n \in DOMAIN pins' \ DOMAIN pins : n = i /\ pins'[n].by = j /\ pins'[n].place = p
        /\ Pinned(p)'
    BY <1>1, <1>4, <1>7, WrittenIs
  <2>2. o \in Outcome /\ o.st \in {"saved", "existing"} /\ o.pin = i
    BY <1>4, <2>1 DEF Outcome, Landed, Committed
  <2>3. Says(o, d.link)'
    BY <2>1, <2>2 DEF Says
  <2>4. InMemory(j, v(p, o))
    BY <1>7
  <2> HIDE DEF v
  <2> QED BY <1>5, <2>1, <2>2, <2>3, <2>4 DEF Committed
<1> QED BY <1>2, <1>6, <1>7

\* A candidate alone and certain is pinned, and the attempt ends.
LEMMA SaveSingleMoves == ASSUME Inv, NEW j \in Jobs, SaveSingle(j) PROVE Moves(j)
<1> DEFINE w == worker[j]
           d == doc[j]
<1>1. Typed /\ Own(j) /\ pins \in Seq(PinDoc) /\ w \in Memory /\ w.pin \in Nat /\ d.st = "processing" /\ doc' = doc /\ d.link \in Links
      /\ (w.pc = "direct" \/ (w.pc = "confirm" /\ w.todo = {}))
  BY DEF Inv, Typed, Own, SaveSingle, Active, Lawful, Decided, Memory
<1>2. PICK p \in Rest(w) :
        \/ \E i \in Target(j, p) : /\ pins' = Written(j, p, i) /\ UNCHANGED left
                                   /\ \/ InMemory(j, Report(w, "complete", i)) \/ InMemory(j, Duplicate(w, i))
                                      \/ InMemory(j, Report(w, "duplicate", i))
        \/ Spend("faults") /\ InMemory(j, Fail(w)) /\ UNCHANGED pins
  BY DEF SaveSingle
<1>3. left' \in Scenario
  BY <1>1, <1>2, Spends DEF Typed
<1>4. p \in Places /\ w.out[p].st # "dismissed"
  <2>1. p \in Places
    BY <1>1 DEF Memory, Rest
  <2>2. w.pc = "confirm" => w.out[p].st = "candidate"
    <3>1. w.pc = "confirm" => w.out[p] = Candidate(w.init[p].conf)
      BY <1>1, <1>2 DEF Own, Matched
    <3> QED BY <3>1 DEF Candidate
  <2>3. w.pc = "direct" => w.out[p].st # "dismissed"
    BY <1>1, <2>1 DEF Own, Undismissed
  <2> QED BY <1>1, <2>1, <2>2, <2>3
<1>5. ASSUME NEW i \in Target(j, p), pins' = Written(j, p, i), NEW r \in {"complete", "duplicate"}, NEW n \in {i, w.pin}, n # i => w.pin # 0,
             InMemory(j, Report(w, r, n))
      PROVE  Moves(j)
  <2>1. /\ pins' \in Seq(PinDoc) /\ PinsKept /\ i \in Nat /\ Holds(i, d.link)'
        /\ \A m \in DOMAIN pins' \ DOMAIN pins : m = i /\ pins'[m].by = j /\ pins'[m].place = p
    BY <1>1, <1>4, <1>5, WrittenIs
  <2>2. \A q \in Places : w.out[q].st = "candidate" => Holds(n, d.link)'
    <3>1. n # i /\ w.pc = "confirm" => Holds(w.pin, d.link)
      BY <1>1, <1>5 DEF Own, Truthful
    <3>2. \A m, l : Holds(m, l) => Holds(m, l)'
      BY <2>1, PinsStay
    <3>3. w.pc = "direct" => \A q \in Places : w.out[q].st # "candidate"
      BY <1>1 DEF Own, Matched
    <3>4. n # i => n = w.pin
      BY <1>5
    <3>5. n # i /\ w.pc = "confirm" => Holds(n, d.link)
      BY <3>1, <3>4
    <3>6. n # i /\ w.pc = "confirm" => Holds(n, d.link)'
      BY <1>1, <3>2, <3>5 DEF Holds
    <3> QED BY <1>1, <2>1, <3>3, <3>6
  <2> QED BY <1>1, <1>3, <1>4, <1>5, <2>1, <2>2, Concludes
<1>6. CASE Spend("faults") /\ InMemory(j, Fail(w)) /\ UNCHANGED pins
  BY <1>1, <1>3, <1>6, FailsAt
<1> QED BY <1>2, <1>5, <1>6 DEF Duplicate

\* The fallback decides of one place, where nothing else was a candidate.
LEMMA FindFallbackMoves ==
  ASSUME Inv, NEW j \in Jobs, NEW p \in left.shown, NEW unsure \in BOOLEAN, FindFallback(j, p, unsure) PROVE Moves(j)
<1> DEFINE w == worker[j]
           d == doc[j]
           found == [w EXCEPT !.cand = {p}]
<1>1. Typed /\ Own(j) /\ Tells(j) /\ pins \in Seq(PinDoc) /\ w \in Memory /\ w.pc = "confirm" /\ w.todo = {} /\ w.cand = {}
      /\ At(w.init, {"none"}) = Places /\ UNCHANGED <<pins, doc, left>>
  BY DEF Inv, Typed, Own, FindFallback, Decided
<1>2. PICK v : /\ InMemory(j, v)
               /\ \/ v = Report(found, "needs_selection", 0) \/ v = [found EXCEPT !.pc = "direct"]
                  \/ \E i \in LivePins(p) : v = [found EXCEPT !.pc = "attach", !.unsure = {i}]
  BY DEF FindFallback
<1>3. /\ v \in Memory /\ v.init = w.init /\ v.out = w.out /\ v.rec = w.rec /\ v.again = w.again /\ v.cand = {p} /\ v.sure = w.sure
      /\ v.pc \in {"direct", "attach", "report"}
      /\ v.pc = "report" => v.verdict = "needs_selection"
      /\ v.pc = "attach" => v.unsure \subseteq Nat
  <2>1. p \in Places /\ \A i \in LivePins(p) : i \in Nat
    BY <1>1 DEF Typed, Scenario, LivePins
  <2>2. found \in Memory /\ found = [w EXCEPT !.cand = {p}]
    BY <1>1, <2>1 DEF Memory
  <2>3. PICK f \in Memory : f = found /\ f.init = w.init /\ f.out = w.out /\ f.rec = w.rec /\ f.again = w.again /\ f.cand = {p} /\ f.sure = w.sure
    BY <1>1, <2>2 DEF Memory
  <2> HIDE DEF found
  <2>4. CASE v = Report(f, "needs_selection", 0)
    BY <2>3, <2>4 DEF Report, Memory, Phases, Over
  <2>5. CASE v = [f EXCEPT !.pc = "direct"]
    BY <2>3, <2>5 DEF Memory, Phases
  <2>6. CASE \E i \in LivePins(p) : v = [f EXCEPT !.pc = "attach", !.unsure = {i}]
    <3>1. PICK i \in LivePins(p) : v = [f EXCEPT !.pc = "attach", !.unsure = {i}]
      BY <2>6
    <3>2. i \in Nat /\ {i} \in SUBSET (Places \cup Nat)
      BY <2>1
    <3> QED BY <2>3, <3>1, <3>2 DEF Memory, Phases
  <2> QED BY <1>2, <2>3, <2>4, <2>5, <2>6
<1>4. /\ Typed' /\ PinsKept /\ Evolves(j) /\ worker'[j] = v /\ doc'[j] = d
      /\ \A k \in Jobs \ {j} : doc'[k] = doc[k] /\ worker'[k] = worker[k]
      /\ \A n \in DOMAIN pins' \ DOMAIN pins : pins'[n].by = j
  BY <1>1, <1>2, <1>3, Remembers DEF Typed
<1>5. Started(j) /\ d.link \notin MapsLinks /\ w.sure = {} /\ \A q \in Places : w.init[q].st = "none"
  BY <1>1 DEF Own, Phased, Matched, At
<1>6. Lawful(j)'
  BY <1>1, <1>3, <1>4, IdleIs DEF Own, Lawful, Started
<1>7. Phased(j)'
  BY <1>1, <1>3, <1>4, <1>5 DEF Own, Phased, Started
<1>8. \A q \in Places : w.out[q].st \notin Dismissed \cup {"candidate"}
  BY <1>1, <1>5 DEF Own, Dropped, Matched, Rest, Dismissed
<1>9. Matched(j)'
  BY <1>1, <1>3, <1>4, <1>8 DEF Own, Matched
<1>10. Truthful(j)'
  BY <1>1, <1>3, <1>4, PinsStay DEF Own, Truthful
<1>11. Dropped(j)'
  <2>1. Rest(v) \subseteq Places
    BY <1>3 DEF Rest, Memory
  <2> QED BY <1>1, <1>3, <1>4, <1>8, <2>1 DEF Own, Dropped
<1>12. Wanted(j)'
  <2>1. \A q : Held(j, q) => Held(j, q)'
    BY <1>4 DEF Held, Stored
  <2>2. d.st # "needs_selection" /\ \A q \in d.wants : Safe(w.out, q) /\ (Pinned(q) \/ Held(j, q))
    BY <1>1, <1>5 DEF Own, Lawful, Wanted
  <2>3. \A q \in Rest(v) : w.out[q].st \in Committed => Pinned(q)
    <3>1. Rest(v) \subseteq Places
      BY <1>3 DEF Rest, Memory
    <3> QED BY <1>1, <1>5, <3>1 DEF Own, Wanted, Committed
  <2> QED BY <1>1, <1>3, <1>4, <2>1, <2>2, <2>3, PinsStay DEF Wanted
<1>13. Undismissed(j)'
  <2>1. \A q \in Places : d.out[q].st # "dismissed" /\ w.out[q].st # "dismissed"
    BY <1>1, <1>8 DEF Own, Dropped, Dismissed
  <2> QED BY <1>3, <1>4, <2>1 DEF Undismissed
<1>14. \A q \in Places : ~Told(j, q)
  BY <1>1, <1>5 DEF Told
<1> QED BY <1>1, <1>4, <1>6, <1>7, <1>9, <1>10, <1>11, <1>12, <1>13, <1>14, Retelling DEF Moves, Own, PinsKept

\* What a worker with nothing left to save reports, and what it says by it.
LEMMA EndsAre ==
  ASSUME Inv, NEW j \in Jobs, NEW w \in Ends(j)
  PROVE  /\ \/ worker[j].pc = "report" /\ w = worker[j]
            \/ /\ worker[j].pc \in {"append", "confirm", "select"} /\ worker[j].todo = {}
               /\ \/ \E v \in {"complete", "duplicate", "failed", "needs_selection"}, i \in Nat : w = Report(worker[j], v, i)
                  \/ worker[j].pc = "confirm" /\ w = Fail(worker[j])
               /\ w.verdict \in {"complete", "duplicate"} => \A p \in Places : worker[j].out[p].st # "candidate"
               /\ w.verdict = "needs_selection" => worker[j].pc = "confirm"
<1> DEFINE m == worker[j]
<1>1. Typed /\ Own(j) /\ m \in Memory /\ pins \in Seq(PinDoc) /\ m.pin \in Nat
  BY DEF Inv, Typed, Memory
<1>2. \/ m.pc = "report" /\ w = m
      \/ m.pc = "append" /\ m.todo = {} /\ m.cand = {} /\ \E i \in FoundPins(m) : w = Duplicate(m, i)
      \/ m.pc = "confirm" /\ m.todo = {} /\ Rest(m) = {} /\ (w = Report(m, "complete", 0) \/ w = Report(m, "failed", 0))
      \/ m.pc = "confirm" /\ m.todo = {} /\ Rest(m) = {} /\ (w = Fail(m) \/ \E i \in FoundPins(m) : w = Duplicate(m, i))
      \/ m.pc = "confirm" /\ m.todo = {} /\ w = Report(m, "needs_selection", 0)
      \/ m.pc = "select" /\ m.todo = {} /\ (w = Report(m, "complete", 0) \/ w = Report(m, "failed", 0))
  <2>1. CASE m.pc = "report"
    BY <2>1 DEF Ends, Attempted, Decided
  <2>2. CASE m.pc = "append"
    BY <2>2 DEF Ends, Attempted, Decided, AllFound
  <2>3. CASE m.pc = "confirm" /\ Rest(m) = {}
    BY <2>3 DEF Ends, Attempted, Decided, FoundNothing
  <2>4. CASE m.pc = "confirm" /\ Rest(m) # {}
    BY <2>4 DEF Ends, Attempted, Decided
  <2>5. CASE m.pc = "select"
    BY <2>5 DEF Ends, Attempted, Decided
  <2>6. CASE m.pc \notin {"report", "append", "confirm", "select"}
    BY <2>6 DEF Ends, Attempted, Decided
  <2> QED BY <2>1, <2>2, <2>3, <2>4, <2>5, <2>6
<1>3. \A i \in FoundPins(m) : i \in Nat
  BY <1>1 DEF FoundPins, At, Memory, Outcome
<1>4. \A i \in FoundPins(m) : \E n \in Nat : Duplicate(m, i) = Report(m, "duplicate", n)
  BY <1>1, <1>3 DEF Duplicate
<1>5. \A v, i : Report(m, v, i).verdict = v
  BY <1>1 DEF Report, Memory
<1>6. Fail(m).verdict = "failed"
  BY <1>1 DEF Fail, Memory
<1>7. /\ m.pc = "append" /\ m.cand = {} => \A p \in Places : m.out[p].st # "candidate"
      /\ m.pc = "confirm" /\ m.todo = {} /\ Rest(m) = {} => \A p \in Places : m.out[p].st # "candidate"
      /\ m.pc = "select" => \A p \in Places : m.out[p].st # "candidate"
  BY <1>1 DEF Own, Matched
<1> HIDE DEF m
<1>8. CASE m.pc = "append" /\ m.todo = {} /\ m.cand = {} /\ \E i \in FoundPins(m) : w = Duplicate(m, i)
  BY <1>4, <1>5, <1>7, <1>8 DEF m
<1>9. CASE m.pc = "confirm" /\ m.todo = {} /\ Rest(m) = {}
           /\ (w = Fail(m) \/ (\E i \in FoundPins(m) : w = Duplicate(m, i)) \/ w = Report(m, "complete", 0) \/ w = Report(m, "failed", 0))
  BY <1>4, <1>5, <1>6, <1>7, <1>9 DEF m
<1>10. CASE m.pc = "confirm" /\ m.todo = {} /\ w = Report(m, "needs_selection", 0)
  BY <1>5, <1>10 DEF m
<1>11. CASE m.pc = "select" /\ m.todo = {} /\ (w = Report(m, "complete", 0) \/ w = Report(m, "failed", 0))
  BY <1>5, <1>7, <1>11 DEF m
<1> QED BY <1>2, <1>8, <1>9, <1>10, <1>11 DEF m

\* The same, as the document that is written needs it.
LEMMA Reported ==
  ASSUME Inv, NEW j \in Jobs, NEW w \in Ends(j), Active(j)
  PROVE  /\ w.out = worker[j].out /\ w.out \in [Places -> Outcome] /\ w.rec = worker[j].rec /\ w.pin \in Nat /\ w.verdict \in Over
         /\ Rest(w) = Rest(worker[j]) /\ Rest(w) \subseteq Places /\ w.sure \subseteq Places
         /\ Started(j) \/ w.verdict = "failed"
         /\ \A p \in Places : Says(w.out[p], doc[j].link) /\ Plain(w.out[p])
         /\ w.verdict \in {"complete", "duplicate"} => \A p \in Places : w.out[p].st = "candidate" => Holds(w.pin, doc[j].link)
         /\ Started(j) => \A p \in doc[j].wants : Safe(w.out, p) \/ (w.verdict = "failed" /\ w.out[p] = Candidate(TRUE))
         /\ \A p \in Places : doc[j].out[p].st \in Dismissed => w.out[p] = doc[j].out[p]
         /\ \A p \in Places : w.out[p].st = "candidate" => ~doc[j].picked
         /\ w.verdict = "needs_selection" => /\ doc[j].link \notin MapsLinks /\ ~doc[j].picked
                                             /\ \A p \in Rest(w) : w.out[p].st \notin Dismissed /\ (w.out[p].st \in Committed => Pinned(p))
                                             /\ \A p \in Places : Told(j, p) => w.out[p].st # "candidate"
         /\ doc[j].kind = "analysis" => w.rec # "absent" \/ (w.verdict = "failed" /\ w.out = Blank)
         /\ doc[j].picked => worker[j].pc = "select"
<1> DEFINE m == worker[j]
           d == doc[j]
<1>1. Typed /\ Own(j) /\ m \in Memory
  BY DEF Inv, Typed
<1>2. \/ m.pc = "report" /\ w = m
      \/ /\ m.pc \in {"append", "confirm", "select"} /\ m.todo = {}
         /\ \/ \E v \in {"complete", "duplicate", "failed", "needs_selection"}, i \in Nat : w = Report(m, v, i)
            \/ m.pc = "confirm" /\ w = Fail(m)
         /\ w.verdict \in {"complete", "duplicate"} => \A p \in Places : m.out[p].st # "candidate"
         /\ w.verdict = "needs_selection" => m.pc = "confirm"
  BY EndsAre
<1>3. /\ w.out = m.out /\ w.rec = m.rec /\ w.pin \in Nat /\ w.verdict \in Over /\ w.cand = m.cand /\ w.sure = m.sure
  <2>1. CASE w = m
    BY <1>1, <2>1 DEF Memory
  <2>2. ASSUME NEW v \in {"complete", "duplicate", "failed", "needs_selection"}, NEW i \in Nat, w = Report(m, v, i)
        PROVE  w.out = m.out /\ w.rec = m.rec /\ w.pin \in Nat /\ w.verdict \in Over /\ w.cand = m.cand /\ w.sure = m.sure
    BY <1>1, <2>2 DEF Report, Memory, Over
  <2>3. CASE w = Fail(m)
    BY <1>1, <2>3 DEF Fail, Memory, Over
  <2> QED BY <1>2, <2>1, <2>2, <2>3
<1>4. m.out \in [Places -> Outcome] /\ Rest(w) = Rest(m) /\ Rest(w) \subseteq Places /\ w.sure \subseteq Places /\ d.wants \subseteq Places
  BY <1>1, <1>3 DEF Memory, Rest, Typed, JobDoc
<1>5. m.pc \in {"report", "append", "confirm", "select"} /\ (m.pc # "report" => m.todo = {})
  BY <1>2
<1>6. Started(j) \/ w.verdict = "failed"
  BY <1>1, <1>2 DEF Own, Phased
<1>7. \A p \in Places : Says(m.out[p], d.link) /\ Plain(m.out[p])
  BY <1>1, <1>5 DEF Own, Truthful, Matched
<1>8. w.verdict \in {"complete", "duplicate"} => \A p \in Places : m.out[p].st = "candidate" => Holds(w.pin, d.link)
  BY <1>1, <1>2 DEF Own, Truthful
<1>9. (d.picked => m.pc = "select") /\ \A p \in Places : m.out[p].st = "candidate" => ~d.picked
  BY <1>1, <1>5 DEF Own, Lawful, Matched
<1>10. ASSUME Started(j), NEW p \in d.wants PROVE Safe(m.out, p) \/ (w.verdict = "failed" /\ m.out[p] = Candidate(TRUE))
  <2>1. Safe(m.out, p) \/ ((m.pc = "append" \/ (m.pc = "report" /\ m.verdict = "failed")) /\ m.out[p] = Candidate(TRUE))
    BY <1>1, <1>5, <1>10 DEF Own, Wanted
  <2>2. CASE m.pc = "append" /\ m.out[p] = Candidate(TRUE)
    <3>1. m.out[p].st = "candidate" /\ p \in Places
      BY <1>4, <2>2 DEF Candidate
    <3>2. w.verdict = "failed"
      BY <1>2, <1>3, <2>2, <3>1 DEF Over
    <3> QED BY <2>2, <3>2
  <2> QED BY <1>2, <2>1, <2>2
<1>11. \A p \in Places : d.out[p].st \in Dismissed => m.out[p] = d.out[p]
  BY <1>1, <1>5 DEF Own, Dropped
<1>12. ASSUME w.verdict = "needs_selection"
       PROVE  /\ d.link \notin MapsLinks /\ ~d.picked
              /\ \A p \in Rest(m) : m.out[p].st \notin Dismissed /\ (m.out[p].st \in Committed => Pinned(p))
              /\ \A p \in Places : Told(j, p) => m.out[p].st # "candidate"
  <2>1. m.pc = "confirm" \/ (m.pc = "report" /\ m.verdict = "needs_selection")
    BY <1>2, <1>12
  <2>2. d.link \notin MapsLinks /\ ~d.picked
    BY <1>1, <2>1 DEF Own, Phased, Lawful
  <2>3. \A p \in Rest(m) : m.out[p].st \notin Dismissed /\ (m.out[p].st \in Committed => Pinned(p))
    <3>1. CASE m.pc = "confirm"
      <4>1. \A p \in Rest(m) : m.out[p] = Candidate(m.init[p].conf)
        BY <1>1, <3>1 DEF Own, Matched
      <4>2. \A c : Candidate(c).st = "candidate"
        BY DEF Candidate
      <4> QED BY <4>1, <4>2 DEF Dismissed, Committed
    <3>2. CASE m.pc = "report" /\ m.verdict = "needs_selection"
      BY <1>1, <3>2 DEF Own, Dropped, Wanted
    <3> QED BY <2>1, <3>1, <3>2
  <2>4. \A p \in Places : Told(j, p) => m.out[p].st # "candidate"
    BY <2>1 DEF Told, Committed
  <2> QED BY <2>2, <2>3, <2>4
<1>13. d.kind = "analysis" => m.rec # "absent" \/ (w.verdict = "failed" /\ m.out = Blank)
  BY <1>1, <1>2 DEF Own, Phased
<1> HIDE DEF m
<1> QED BY <1>3, <1>4, <1>6, <1>7, <1>8, <1>9, <1>10, <1>11, <1>12, <1>13 DEF m

\* What a finished attempt writes of its places.
LEMMA SummedIs ==
  ASSUME Inv, NEW j \in Jobs, NEW w \in Ends(j), Active(j), w.verdict # "needs_selection"
  PROVE  /\ Summed(w) \in [Places -> Outcome] /\ Status(w) \in Over \ {"needs_selection"}
         /\ \A p \in Places : /\ Plain(Summed(w)[p]) /\ Says(Summed(w)[p], doc[j].link)
                              /\ Summed(w)[p] = w.out[p] \/ (Summed(w)[p].st = "saved" /\ w.out[p].st = "candidate" /\ w.verdict # "failed")
         /\ At(Summed(w), {"unresolved"}) # {} /\ At(Summed(w), Committed) # {} => Status(w) = "failed"
         /\ w.verdict = "failed" /\ w.out = Blank => Status(w) = "failed" /\ At(Summed(w), Committed) = {}
<1>1. /\ w.out \in [Places -> Outcome] /\ w.pin \in Nat /\ w.verdict \in Over
      /\ \A p \in Places : Says(w.out[p], doc[j].link) /\ Plain(w.out[p])
      /\ w.verdict \in {"complete", "duplicate"} => \A p \in Places : w.out[p].st = "candidate" => Holds(w.pin, doc[j].link)
  BY Reported
<1>2. \A p \in Places : \/ Summed(w)[p] = w.out[p]
                        \/ /\ Summed(w)[p] = [st |-> "saved", pin |-> w.pin, conf |-> w.out[p].conf]
                           /\ w.verdict \in {"complete", "duplicate"} /\ w.out[p].st = "candidate"
  BY DEF Summed
<1>3. \A p \in Places : LET s == [st |-> "saved", pin |-> w.pin, conf |-> w.out[p].conf] IN s \in Outcome /\ s.st = "saved" /\ s.pin = w.pin
  BY <1>1 DEF Outcome, Committed
<1>4. \A p \in Places : Summed(w)[p] \in Outcome /\ Plain(Summed(w)[p]) /\ Says(Summed(w)[p], doc[j].link)
  <2> TAKE p \in Places
  <2>1. CASE Summed(w)[p] = w.out[p]
    BY <1>1, <2>1
  <2>2. CASE Summed(w)[p] # w.out[p]
    BY <1>1, <1>2, <1>3, <2>2 DEF Plain, Says
  <2> QED BY <2>1, <2>2
<1>5. Summed(w) \in [Places -> Outcome]
  BY <1>4 DEF Summed
<1>6. Status(w) \in Over \ {"needs_selection"} /\ (At(Summed(w), {"unresolved"}) # {} /\ At(Summed(w), Committed) # {} => Status(w) = "failed")
  BY <1>1 DEF Status, Over
<1>7. ASSUME w.verdict = "failed", w.out = Blank PROVE Status(w) = "failed" /\ At(Summed(w), Committed) = {}
  <2>1. \A p \in Places : Summed(w)[p].st = "none"
    BY <1>2, <1>7, IdleIs DEF None
  <2>2. At(Summed(w), Committed) = {}
    BY <2>1 DEF At, Committed
  <2> QED BY <1>7, <2>2 DEF Status
<1> QED BY <1>2, <1>3, <1>4, <1>5, <1>6, <1>7

\* An attempt's last write, and what its worker does when that fails.
LEMMA FinishMoves == ASSUME Inv, NEW j \in Jobs, Finish(j) PROVE Moves(j)
<1> DEFINE d == doc[j]
           m == worker[j]
           asks(w) == w.verdict = "needs_selection"
           part(w) == ~asks(w) /\ At(Summed(w), {"unresolved"}) # {} /\ At(Summed(w), Committed) # {}
           out(w) == IF asks(w) THEN w.out ELSE IF At(w.out, {"none"}) = Places THEN d.out ELSE Summed(w)
           cand(w) == IF asks(w) THEN Rest(w) ELSE d.cand
           rcand(w) == IF asks(w) THEN {p \in w.sure : w.out[p].st = "unresolved"} ELSE d.rcand
           final(w) == [d EXCEPT !.st = Status(w), !.recovery = Recovery(j), !.partial = part(w), !.out = out(w), !.cand = cand(w), !.rcand = rcand(w)]
<1>1. Typed /\ Own(j) /\ Tells(j) /\ pins \in Seq(PinDoc) /\ d \in JobDoc /\ m \in Memory /\ d.st = "processing" /\ Active(j) /\ UNCHANGED pins
  BY DEF Inv, Typed, Own, Finish, Active
<1>2. PICK w \in Ends(j) :
        \/ doc' = [doc EXCEPT ![j] = final(w)] /\ InMemory(j, Idle) /\ UNCHANGED left
        \/ Spend("faults") /\ UNCHANGED doc /\ InMemory(j, IF w.verdict = "failed" \/ d.picked THEN Idle ELSE Fail(w))
  BY DEF Finish
<1>3. left' \in Scenario
  BY <1>1, <1>2, Spends DEF Typed
<1>4. CASE Spend("faults") /\ UNCHANGED doc /\ InMemory(j, IF w.verdict = "failed" \/ d.picked THEN Idle ELSE Fail(w))
  <2>1. CASE w.verdict = "failed" \/ d.picked
    BY <1>1, <1>3, <1>4, <2>1, Stops
  <2>2. CASE ~(w.verdict = "failed" \/ d.picked)
    <3>1. InMemory(j, Fail(w))
      BY <1>4, <2>2
    <3>2. m.pc = "select" => d.picked
      BY <1>1 DEF Own, Phased
    <3>3. CASE m.pc = "report" /\ w = m
      BY <1>1, <1>3, <1>4, <3>1, <3>3, FailsAt
    <3>4. ASSUME m.pc \in {"append", "confirm"}, m.todo = {}, NEW v \in {"complete", "duplicate", "failed", "needs_selection"}, NEW i \in Nat,
                 w = Report(m, v, i)
          PROVE  Moves(j)
      <4>1. Fail(w) = Failed(m, i)
        BY <1>1, <3>4, FailIs DEF Over
      <4> QED BY <1>1, <1>3, <1>4, <3>1, <3>4, <4>1, Fails
    <3>5. Fail(m).verdict = "failed"
      BY <1>1 DEF Fail, Memory
    <3>6. \/ m.pc = "report" /\ w = m
          \/ /\ m.pc \in {"append", "confirm", "select"} /\ m.todo = {}
             /\ \/ \E v \in {"complete", "duplicate", "failed", "needs_selection"}, i \in Nat : w = Report(m, v, i)
                \/ w = Fail(m)
      BY EndsAre
    <3> HIDE DEF m
    <3> QED BY <2>2, <3>2, <3>3, <3>4, <3>5, <3>6
  <2> QED BY <2>1, <2>2
<1>5. CASE doc' = [doc EXCEPT ![j] = final(w)] /\ InMemory(j, Idle) /\ UNCHANGED left
  <2> DEFINE e == final(w)
  <2>1. /\ w.out \in [Places -> Outcome] /\ w.verdict \in Over /\ Rest(w) \subseteq Places /\ w.sure \subseteq Places
        /\ Started(j) \/ w.verdict = "failed"
        /\ \A p \in Places : Says(w.out[p], d.link) /\ Plain(w.out[p])
        /\ Started(j) => \A p \in d.wants : Safe(w.out, p) \/ (w.verdict = "failed" /\ w.out[p] = Candidate(TRUE))
        /\ \A p \in Places : d.out[p].st \in Dismissed => w.out[p] = d.out[p]
        /\ \A p \in Places : w.out[p].st = "candidate" => ~d.picked
        /\ w.rec = m.rec
    BY <1>1, Reported
  <2>2. asks(w) => /\ d.link \notin MapsLinks /\ ~d.picked
                   /\ \A p \in Rest(w) : w.out[p].st \notin Dismissed /\ (w.out[p].st \in Committed => Pinned(p))
                   /\ \A p \in Places : Told(j, p) => w.out[p].st # "candidate"
    BY <1>1, Reported
  <2>3. (d.kind = "analysis" => w.rec # "absent" \/ (w.verdict = "failed" /\ w.out = Blank)) /\ (d.picked => m.pc = "select")
    BY <1>1, Reported
  <2>4. ~asks(w) => /\ Summed(w) \in [Places -> Outcome] /\ Status(w) \in Over \ {"needs_selection"}
                    /\ \A p \in Places : /\ Plain(Summed(w)[p]) /\ Says(Summed(w)[p], d.link)
                                         /\ Summed(w)[p] = w.out[p] \/ (Summed(w)[p].st = "saved" /\ w.out[p].st = "candidate" /\ w.verdict # "failed")
                    /\ At(Summed(w), {"unresolved"}) # {} /\ At(Summed(w), Committed) # {} => Status(w) = "failed"
                    /\ w.verdict = "failed" /\ w.out = Blank => Status(w) = "failed" /\ At(Summed(w), Committed) = {}
    BY <1>1, SummedIs
  <2>5. asks(w) => Status(w) = "needs_selection"
    BY DEF Status
  <2>6. Recovery(j) \in Recoveries /\ (w.rec # "absent" \/ d.recovery # "absent" => Recovery(j) # "absent")
    BY <1>1, <2>1 DEF Recovery, Memory, JobDoc
  <2>7. /\ e \in JobDoc /\ e.st = Status(w) /\ e.recovery = Recovery(j) /\ e.partial = part(w) /\ e.out = out(w) /\ e.cand = cand(w)
        /\ e.link = d.link /\ e.par = d.par /\ e.kind = d.kind /\ e.unstarted = d.unstarted /\ e.drops = d.drops /\ e.begun = d.begun
        /\ e.wants = d.wants /\ e.picked = d.picked /\ e.chosen = d.chosen /\ (~asks(w) => e.rcand = d.rcand)
    <3>1. Status(w) \in Over /\ part(w) \in BOOLEAN /\ out(w) \in [Places -> Outcome] /\ cand(w) \in SUBSET Places /\ rcand(w) \in SUBSET Places
      BY <1>1, <2>1, <2>4, <2>5 DEF JobDoc, Over
    <3>2. ~asks(w) => rcand(w) = d.rcand
      OBVIOUS
    <3> HIDE DEF part, out, cand, rcand, d
    <3> QED BY <1>1, <2>6, <3>1, <3>2 DEF JobDoc
  <2>8. doc' = [doc EXCEPT ![j] = e]
    BY <1>5
  <2> HIDE DEF e, part, out, cand, rcand, final
  <2>9. /\ Typed' /\ PinsKept /\ worker'[j] = Idle /\ doc'[j] = e
        /\ \A k \in Jobs \ {j} : doc'[k] = doc[k] /\ worker'[k] = worker[k]
        /\ \A i \in DOMAIN pins' \ DOMAIN pins : pins'[i].by = j
    BY <1>1, <1>3, <1>5, <2>7, <2>8, IdleIs, Writes
  <2>10. \A p \in Places : /\ Plain(out(w)[p]) /\ Says(out(w)[p], d.link)
                           /\ \/ out(w)[p] = w.out[p] /\ (out(w)[p].st = "candidate" => asks(w) \/ ~d.picked)
                              \/ ~asks(w) /\ out(w)[p].st = "saved" /\ w.out[p].st = "candidate" /\ w.verdict # "failed"
                              \/ ~asks(w) /\ out(w)[p] = d.out[p] /\ out(w) = d.out /\ w.out[p].st = "none"
    <3>1. \A p \in Places : Plain(d.out[p]) /\ Says(d.out[p], d.link)
      BY <1>1 DEF Own, Matched, Truthful
    <3>2. CASE asks(w)
      BY <2>1, <3>2 DEF out
    <3>3. CASE ~asks(w) /\ At(w.out, {"none"}) = Places
      <4>1. \A p \in Places : w.out[p].st = "none"
        BY <3>3 DEF At
      <4> QED BY <3>1, <3>3, <4>1 DEF out
    <3>4. CASE ~asks(w) /\ At(w.out, {"none"}) # Places
      <4>1. out(w) = Summed(w)
        BY <3>4 DEF out
      <4> QED BY <2>1, <2>4, <3>4, <4>1
    <3> QED BY <3>2, <3>3, <3>4
  <2>11. \A p \in Places : d.out[p].st \in Dismissed => out(w)[p] = d.out[p]
    BY <2>1, <2>10 DEF Dismissed
  <2>12. Evolves(j)
    <3>1. Status(w) # "none" /\ d.st = "processing"
      BY <1>1, <2>4, <2>5 DEF Over
    <3> QED BY <2>6, <2>7, <2>9, <2>11, <3>1 DEF Evolves
  <2>13. Lawful(j)'
    <3>1. ~d.unstarted /\ d.link \in Links /\ ~d.partial
      BY <1>1 DEF Own, Lawful
    <3>2. part(w) => Status(w) = "failed"
      BY <2>4 DEF part
    <3>3. d.kind = "analysis" /\ (Status(w) # "failed" \/ part(w)) => Recovery(j) # "absent"
      BY <2>3, <2>4, <2>5, <2>6 DEF part
    <3>4. Status(w) = "needs_selection" => asks(w)
      BY <2>4
    <3>5. Status(w) \in Over
      BY <2>4, <2>5 DEF Over
    <3> QED BY <2>1, <2>2, <2>7, <2>9, <3>1, <3>2, <3>3, <3>4, <3>5, IdleIs DEF Lawful, Started, Over, part
  <2>14. Phased(j)'
    BY <2>9, IdleIs DEF Phased
  <2>15. Matched(j)'
    BY <2>7, <2>9, <2>10, IdleIs DEF Matched, Plain, None
  <2>16. Truthful(j)'
    <3>1. \A l : \A p \in Places : Says(Blank[p], l)
      BY IdleIs DEF None, Says
    <3> QED BY <2>7, <2>9, <2>10, <3>1, IdleIs, PinsStay DEF Truthful
  <2>17. Dropped(j)'
    <3>1. Status(w) = "needs_selection" => \A p \in cand(w) : out(w)[p].st \notin Dismissed
      BY <2>1, <2>2, <2>4 DEF cand, out
    <3>2. d.begun => \A p \in d.drops : p \in Places /\ d.out[p].st \in Dismissed
      BY <1>1 DEF Own, Dropped, JobDoc
    <3> QED BY <2>7, <2>9, <2>11, <3>1, <3>2, IdleIs DEF Dropped
  <2>18. Wanted(j)'
    <3>1. d.wants \subseteq Places
      BY <1>1 DEF JobDoc
    <3>2. ASSUME Started(j), NEW p \in d.wants PROVE Pinned(p)' \/ Held(j, p)'
      <4>1. CASE out(w) = d.out /\ ~asks(w)
        <5>1. Held(j, p) => Held(j, p)'
          BY <2>7, <2>9, <4>1 DEF Held, Stored, cand
        <5> QED BY <1>1, <2>9, <3>2, <5>1, PinsStay DEF Own, Wanted
      <4>2. CASE ~(out(w) = d.out /\ ~asks(w))
        <5>1. Pinned(p) \/ w.out[p].st \in Dismissed \/ w.out[p] = Unresolved(TRUE) \/ (w.verdict = "failed" /\ w.out[p] = Candidate(TRUE))
          BY <2>1, <3>2 DEF Safe
        <5>2. /\ w.out[p].st \in Dismissed \/ w.out[p] = Unresolved(TRUE) => w.out[p].st # "candidate"
              /\ w.out[p] = Unresolved(TRUE) => w.out[p].st = "unresolved" /\ w.out[p].conf = TRUE
              /\ w.out[p] = Candidate(TRUE) => w.out[p].st = "candidate" /\ w.out[p].conf = TRUE
          BY DEF Unresolved, Candidate, Dismissed
        <5>3. Pinned(p) \/ (out(w)[p] = w.out[p] /\ (out(w)[p].st = "candidate" => ~d.picked))
          BY <2>2, <2>10, <3>1, <3>2, <4>2, <5>1, <5>2
        <5> QED BY <2>7, <2>9, <5>1, <5>2, <5>3, PinsStay DEF Held
      <4> QED BY <4>1, <4>2
    <3>3. ASSUME Status(w) = "needs_selection"
          PROVE  (\A p \in d.wants : Safe(out(w), p)) /\ \A p \in cand(w) : out(w)[p].st \in Committed => Pinned(p)
      <4>1. asks(w) /\ w.verdict = "needs_selection" /\ Started(j) /\ out(w) = w.out /\ cand(w) = Rest(w)
        BY <2>1, <2>4, <3>3 DEF out, cand
      <4> QED BY <2>1, <2>2, <4>1 DEF Safe
    <3>4. Started(j)' <=> Started(j)
      BY <2>7, <2>9 DEF Started
    <3>5. PICK o, c : o = out(w) /\ c = cand(w)
      OBVIOUS
    <3>6. Status(w) = "needs_selection" => (\A p \in d.wants : Safe(o, p)') /\ \A p \in c : o[p].st \in Committed => Pinned(p)'
      BY <2>9, <3>3, <3>5, PinsStay
    <3> QED BY <2>7, <2>9, <3>2, <3>4, <3>5, <3>6, IdleIs DEF Wanted, Safe
  <2>19. Undismissed(j)'
    <3>1. d.link \in MapsLinks => \A p \in Places : d.out[p].st # "dismissed" /\ m.out[p].st # "dismissed"
      BY <1>1 DEF Own, Undismissed
    <3>2. w.out = m.out
      BY <1>1, Reported
    <3>3. d.link \in MapsLinks => \A p \in Places : out(w)[p].st # "dismissed"
      BY <2>10, <3>1, <3>2
    <3> QED BY <2>7, <2>9, <3>3, IdleIs DEF Undismissed, None
  <2>20. \A p \in Places : Told(j, p) => Told(j, p)'
    <3> SUFFICES ASSUME NEW p \in Places, Told(j, p) PROVE Told(j, p)'
      OBVIOUS
    <3>1. w.out = m.out /\ d.out[p].st # "dismissed" /\ m.out[p].st # "dismissed" /\ (d.out[p].st = "candidate" => (d.picked => p \in d.chosen))
      BY <1>1, Reported DEF Told
    <3>2. out(w)[p].st # "dismissed"
      BY <2>10, <3>1
    <3>3. out(w)[p].st = "candidate" => (d.picked => p \in d.chosen) /\ Status(w) # "needs_selection"
      BY <2>2, <2>4, <2>10, <3>1
    <3>4. Status(w) # "none"
      BY <2>4, <2>5 DEF Over
    <3> QED BY <2>7, <2>9, <3>2, <3>3, <3>4, IdleIs DEF Told, None
  <2> QED BY <1>1, <2>9, <2>12, <2>13, <2>14, <2>15, <2>16, <2>17, <2>18, <2>19, <2>20, Retelling DEF Moves, Own, Typed
<1> QED BY <1>2, <1>4, <1>5

-----------------------------------------------------------------------------
(* What the user and the sweeper do *)

\* The user's choice among the candidates is what is to be saved; the others
\* are dismissed.
LEMMA SelectMoves == ASSUME Inv, NEW j \in Jobs, NEW S \in SUBSET Places, Select(j, S) PROVE Moves(j)
<1> DEFINE d == doc[j]
           out == [p \in Places |-> LET o == d.out[p] IN
                     IF o.st # "candidate" THEN o ELSE IF p \in S THEN None ELSE [o EXCEPT !.st = "dismissed"]]
           rec == IF S = {} THEN "none" ELSE IF d.recovery = "incomplete" THEN "incomplete" ELSE "none"
           v == [Idle EXCEPT !.pc = "select", !.out = out, !.todo = S, !.rec = rec]
           e == [d EXCEPT !.st = "processing", !.picked = TRUE, !.chosen = S, !.wants = @ \cup S]
<1>1. Typed /\ Own(j) /\ Tells(j) /\ pins \in Seq(PinDoc) /\ d \in JobDoc /\ d.st = "needs_selection" /\ S \subseteq d.cand
      /\ UNCHANGED <<pins, left>> /\ InMemory(j, v)
  BY DEF Inv, Typed, Own, Select
<1>2. doc' = [doc EXCEPT ![j] = e]
  BY <1>1 DEF Select, Typed
<1>3. Started(j) /\ d.link \in Links \ MapsLinks /\ ~d.picked /\ ~d.partial /\ ~d.unstarted
  BY <1>1 DEF Own, Lawful
<1>4. \A p \in Places : d.out[p] \in Outcome /\ Plain(d.out[p]) /\ Says(d.out[p], d.link)
  BY <1>1 DEF JobDoc, Own, Matched, Truthful
<1>5. \A p \in Places : /\ out[p] \in Outcome /\ out[p].st # "candidate" /\ Plain(out[p]) /\ Says(out[p], d.link)
                        /\ d.out[p].st # "candidate" => out[p] = d.out[p]
                        /\ d.out[p].st = "candidate" /\ p \in S => out[p] = None
  <2> TAKE p \in Places
  <2>1. [d.out[p] EXCEPT !.st = "dismissed"] \in Outcome /\ [d.out[p] EXCEPT !.st = "dismissed"].st = "dismissed"
    BY <1>4 DEF Outcome, Dismissed
  <2>2. None \in Outcome /\ None.st = "none"
    BY IdleIs DEF None
  <2> QED BY <1>4, <2>1, <2>2 DEF Plain, Says
<1>6. out \in [Places -> Outcome]
  BY <1>5
<1> HIDE DEF out
<1>7. /\ v \in Memory /\ v.pc = "select" /\ v.out = out /\ v.todo = S /\ v.rec # "absent" /\ v.init = Blank
  <2>1. rec \in Recoveries \ {"absent"}
    BY DEF Recoveries
  <2> HIDE DEF rec
  <2> QED BY <1>1, <1>6, <2>1, IdleIs DEF Memory, Phases
<1>8. /\ e \in JobDoc /\ e.st = "processing" /\ e.picked /\ e.chosen = S /\ e.wants = d.wants \cup S /\ e.out = d.out
      /\ e.link = d.link /\ e.par = d.par /\ e.kind = d.kind /\ e.unstarted = d.unstarted /\ e.drops = d.drops /\ e.begun = d.begun
      /\ e.partial = d.partial /\ e.cand = d.cand /\ e.rcand = d.rcand /\ e.recovery = d.recovery
  <2>1. d.wants \cup S \in SUBSET Places
    BY <1>1 DEF JobDoc
  <2> QED BY <1>1, <2>1 DEF JobDoc
<1> HIDE DEF v, e
<1>9. /\ Typed' /\ PinsKept /\ worker'[j] = v /\ doc'[j] = e
      /\ \A k \in Jobs \ {j} : doc'[k] = doc[k] /\ worker'[k] = worker[k]
      /\ \A i \in DOMAIN pins' \ DOMAIN pins : pins'[i].by = j
  BY <1>1, <1>2, <1>7, <1>8, Writes DEF Typed
<1>10. Evolves(j)
  BY <1>1, <1>3, <1>8, <1>9 DEF Evolves
<1>11. Lawful(j)'
  BY <1>3, <1>7, <1>8, <1>9 DEF Lawful
<1>12. Phased(j)'
  BY <1>3, <1>7, <1>8, <1>9 DEF Phased, Started
<1>13. Matched(j)'
  <2>1. \A p \in Places : Plain(Blank[p]) /\ Blank[p].st = "none"
    BY IdleIs DEF Plain, None
  <2>2. \A p \in Places : Plain(d.out[p]) /\ Plain(out[p]) /\ out[p].st # "candidate"
    BY <1>4, <1>5
  <2> HIDE DEF d
  <2> QED BY <1>7, <1>8, <1>9, <2>1, <2>2 DEF Matched
<1>14. Truthful(j)'
  <2>1. \A l : \A p \in Places : Says(Blank[p], l)
    BY IdleIs DEF None, Says
  <2> QED BY <1>4, <1>5, <1>7, <1>8, <1>9, <2>1, PinsStay DEF Truthful
<1>15. Dropped(j)'
  <2>1. \A p \in Places : d.out[p].st \in Dismissed => out[p] = d.out[p]
    BY <1>5 DEF Dismissed
  <2>2. \A p \in S : out[p].st \notin Dismissed
    <3>1. \A p \in S : d.out[p].st \notin Dismissed
      BY <1>1 DEF Own, Dropped
    <3> QED BY <1>5, <3>1, IdleIs DEF None, Dismissed
  <2>3. d.begun => \A p \in d.drops : d.out[p].st \in Dismissed
    BY <1>1 DEF Own, Dropped
  <2> QED BY <1>7, <1>8, <1>9, <2>1, <2>2, <2>3 DEF Dropped
<1>16. Wanted(j)'
  <2>1. \A p \in d.wants : p \in Places /\ (Pinned(p) \/ d.out[p].st \in Dismissed \/ d.out[p] = Unresolved(TRUE))
    BY <1>1 DEF Own, Wanted, Safe, JobDoc
  <2>2. ASSUME NEW p \in d.wants \cup S PROVE Pinned(p)' \/ Held(j, p)'
    <3>1. CASE p \in d.wants
      <4>1. d.out[p] = Unresolved(TRUE) => d.out[p].st = "unresolved" /\ d.out[p].conf = TRUE
        BY DEF Unresolved
      <4> QED BY <1>8, <1>9, <2>1, <3>1, <4>1, PinsStay DEF Held
    <3>2. CASE p \in S
      <4>1. d.out[p].st \notin Dismissed /\ (d.out[p].st \in Committed => Pinned(p)) /\ p \in d.cand
        BY <1>1, <3>2 DEF Own, Dropped, Wanted
      <4>2. d.out[p].st \in {"none", "candidate", "unresolved"} \cup Committed \cup Dismissed
        BY <1>4, <3>2 DEF Outcome
      <4>3. d.out[p].st \in {"none", "candidate", "unresolved"} => Held(j, p)'
        BY <1>8, <1>9, <3>2, <4>1 DEF Held, Stored
      <4> QED BY <1>9, <4>1, <4>2, <4>3, PinsStay
    <3> QED BY <2>2, <3>1, <3>2
  <2>3. \A p \in d.wants : Pinned(p)' \/ out[p].st \in Dismissed \/ out[p] = Unresolved(TRUE)
    <3> TAKE p \in d.wants
    <3>1. d.out[p].st \in Dismissed \/ d.out[p] = Unresolved(TRUE) => d.out[p].st # "candidate"
      BY DEF Unresolved, Dismissed
    <3> QED BY <1>5, <1>9, <2>1, <3>1, PinsStay
  <2> QED BY <1>7, <1>8, <1>9, <2>2, <2>3 DEF Wanted, Safe
<1>17. Undismissed(j)'
  BY <1>3, <1>7, <1>8, <1>9 DEF Undismissed
<1>18. \A p \in Places : Told(j, p) => Told(j, p)'
  BY <1>1, <1>5, <1>7, <1>8, <1>9 DEF Told
<1> QED BY <1>1, <1>9, <1>10, <1>11, <1>12, <1>13, <1>14, <1>15, <1>16, <1>17, <1>18, Retelling DEF Moves, Own, PinsKept

\* The user gives up a place that could not be saved.
LEMMA ReviewMoves == ASSUME Inv, NEW j \in Jobs, NEW p \in Places, ReviewDismisses(j, p) PROVE Moves(j)
<1> DEFINE d == doc[j]
           out == [d.out EXCEPT ![p] = [@ EXCEPT !.st = "reviewed"]]
           open == At(out, {"unresolved"}) # {}
           e == [d EXCEPT !.out = out, !.partial = open, !.st = IF At(out, {"unresolved"}) = {} THEN "complete" ELSE "failed"]
<1>1. Typed /\ Own(j) /\ Tells(j) /\ pins \in Seq(PinDoc) /\ d \in JobDoc /\ d.partial /\ d.out[p].st = "unresolved" /\ UNCHANGED <<pins, worker, left>>
      /\ worker[j] \in Memory
  BY DEF Inv, Typed, Own, ReviewDismisses, Reviewable
<1>2. doc' = [doc EXCEPT ![j] = e]
  BY <1>1 DEF ReviewDismisses, Typed
<1>3. d.st = "failed" /\ worker[j].pc = "idle" /\ ~d.unstarted /\ (d.kind = "analysis" => d.recovery # "absent") /\ d.link \in Links
  BY <1>1 DEF Own, Lawful
<1>4. out \in [Places -> Outcome] /\ out[p].st = "reviewed" /\ \A q \in Places \ {p} : out[q] = d.out[q]
  <2>1. [d.out[p] EXCEPT !.st = "reviewed"] \in Outcome /\ [d.out[p] EXCEPT !.st = "reviewed"].st = "reviewed" /\ d.out \in [Places -> Outcome]
    BY <1>1 DEF JobDoc, Outcome, Dismissed
  <2> QED BY <2>1
<1>5. /\ e \in JobDoc /\ e.st \in {"complete", "failed"} /\ e.out = out /\ (e.partial => e.st = "failed")
      /\ e.link = d.link /\ e.par = d.par /\ e.kind = d.kind /\ e.unstarted = d.unstarted /\ e.drops = d.drops /\ e.begun = d.begun
      /\ e.wants = d.wants /\ e.picked = d.picked /\ e.chosen = d.chosen /\ e.cand = d.cand /\ e.rcand = d.rcand /\ e.recovery = d.recovery
  <2> HIDE DEF out
  <2> QED BY <1>1, <1>4 DEF JobDoc, Over
<1>6. InMemory(j, worker[j])
  BY <1>1 DEF InMemory, Typed
<1> HIDE DEF out, e
<1>7. /\ Typed' /\ PinsKept /\ worker'[j] = worker[j] /\ doc'[j] = e
      /\ \A k \in Jobs \ {j} : doc'[k] = doc[k] /\ worker'[k] = worker[k]
      /\ \A i \in DOMAIN pins' \ DOMAIN pins : pins'[i].by = j
  BY <1>1, <1>2, <1>5, <1>6, Writes DEF Typed
<1>8. \A q \in Places : d.out[q].st \in Dismissed => out[q] = d.out[q]
  BY <1>1, <1>4 DEF Dismissed
<1>9. Evolves(j)
  BY <1>1, <1>3, <1>5, <1>7, <1>8 DEF Evolves
<1>10. Lawful(j)' /\ Phased(j)'
  BY <1>1, <1>3, <1>5, <1>7 DEF Own, Lawful, Phased
<1>11. Matched(j)' /\ Truthful(j)'
  <2>1. \A q \in Places : Plain(out[q])
    BY <1>1, <1>4 DEF Own, Matched, Plain
  <2>2. \A q \in Places : Says(out[q], d.link)
    BY <1>1, <1>4 DEF Own, Truthful, Says
  <2>3. Matched(j)'
    BY <1>1, <1>3, <1>5, <1>7, <2>1 DEF Own, Matched
  <2> QED BY <1>1, <1>3, <1>5, <1>7, <2>2, <2>3, PinsStay DEF Own, Truthful
<1>12. Dropped(j)'
  <2>1. d.begun => \A q \in d.drops : q \in Places /\ d.out[q].st \in Dismissed
    BY <1>1 DEF Own, Dropped, JobDoc
  <2> QED BY <1>3, <1>5, <1>7, <1>8, <2>1 DEF Dropped
<1>13. Wanted(j)'
  <2>1. \A q \in Places : Held(j, q) => Held(j, q)'
    <3>1. Held(j, p)'
      BY <1>4, <1>5, <1>7 DEF Held, Dismissed
    <3>2. \A q \in Places \ {p} : Held(j, q) => Held(j, q)'
      BY <1>4, <1>5, <1>7 DEF Held, Stored
    <3> QED BY <3>1, <3>2
  <2>2. d.wants \subseteq Places
    BY <1>1 DEF JobDoc
  <2> QED BY <1>1, <1>3, <1>5, <1>7, <2>1, <2>2, PinsStay DEF Own, Wanted, Started
<1>14. Undismissed(j)'
  BY <1>1, <1>3, <1>4, <1>5, <1>7 DEF Own, Undismissed
<1>15. \A q \in Places : Told(j, q) => Told(j, q)'
  BY <1>4, <1>5, <1>7, <1>3 DEF Told
<1> QED BY <1>1, <1>7, <1>9, <1>10, <1>11, <1>12, <1>13, <1>14, <1>15, Retelling DEF Moves, Own, PinsKept

\* A job that is taken for stale fails, whatever its worker does.
LEMMA SweepMoves == ASSUME Inv, NEW j \in Jobs, Sweep(j) PROVE Moves(j)
<1> DEFINE d == doc[j]
           w == worker[j]
           e == [d EXCEPT !.st = "failed", !.partial = FALSE]
<1>1. Typed /\ Own(j) /\ Tells(j) /\ pins \in Seq(PinDoc) /\ d \in JobDoc /\ w \in Memory /\ d.st = "processing" /\ UNCHANGED <<pins, worker>>
  BY DEF Inv, Typed, Own, Sweep, Active
<1>2. doc' = [doc EXCEPT ![j] = e] /\ left' \in Scenario
  BY <1>1, Spends DEF Sweep, Typed
<1>3. /\ e \in JobDoc /\ e.st = "failed" /\ ~e.partial /\ e.out = d.out
      /\ e.link = d.link /\ e.par = d.par /\ e.kind = d.kind /\ e.unstarted = d.unstarted /\ e.drops = d.drops /\ e.begun = d.begun
      /\ e.wants = d.wants /\ e.picked = d.picked /\ e.chosen = d.chosen /\ e.cand = d.cand /\ e.rcand = d.rcand /\ e.recovery = d.recovery
  BY <1>1 DEF JobDoc, Over
<1>4. InMemory(j, w)
  BY <1>1 DEF InMemory, Typed
<1> HIDE DEF e
<1>5. /\ Typed' /\ PinsKept /\ worker'[j] = w /\ doc'[j] = e
      /\ \A k \in Jobs \ {j} : doc'[k] = doc[k] /\ worker'[k] = worker[k]
      /\ \A i \in DOMAIN pins' \ DOMAIN pins : pins'[i].by = j
  BY <1>1, <1>2, <1>3, <1>4, Writes
<1>6. Evolves(j)
  BY <1>1, <1>3, <1>5 DEF Evolves
<1>7. Lawful(j)'
  BY <1>1, <1>3, <1>5 DEF Own, Lawful
<1>8. Phased(j)'
  BY <1>1, <1>3, <1>5 DEF Own, Phased, Started
<1>9. Matched(j)' /\ Dropped(j)' /\ Undismissed(j)'
  BY <1>1, <1>3, <1>5 DEF Own, Matched, Dropped, Undismissed
<1>10. Truthful(j)'
  BY <1>1, <1>3, <1>5, PinsStay DEF Own, Truthful
<1>11. Wanted(j)'
  <2>1. \A p : Held(j, p) => Held(j, p)'
    BY <1>3, <1>5 DEF Held, Stored
  <2> QED BY <1>1, <1>3, <1>5, <2>1, PinsStay DEF Own, Wanted, Started
<1>12. \A p \in Places : Told(j, p) => Told(j, p)'
  BY <1>3, <1>5 DEF Told
<1> QED BY <1>1, <1>5, <1>6, <1>7, <1>8, <1>9, <1>10, <1>11, <1>12, Retelling DEF Moves, Own, PinsKept

\* The user deletes a pin.
LEMMA DeletesKeep ==
  ASSUME Inv, NEW i \in DOMAIN pins, UserDeletes(i)
  PROVE  Typed' /\ PinsKept /\ DOMAIN pins' \ DOMAIN pins = {} /\ doc' = doc /\ worker' = worker
<1> DEFINE x == [pins[i] EXCEPT !.live = FALSE]
<1>1. Typed /\ pins \in Seq(PinDoc) /\ pins[i] \in PinDoc /\ pins' = [pins EXCEPT ![i] = x] /\ UNCHANGED <<doc, worker>> /\ left' \in Scenario
  BY Spends DEF Inv, Typed, UserDeletes
<1>2. x \in PinDoc /\ x.place = pins[i].place /\ x.by = pins[i].by /\ x.sources = pins[i].sources
  BY <1>1 DEF PinDoc
<1> HIDE DEF x
<1>3. pins' \in Seq(PinDoc) /\ DOMAIN pins' = DOMAIN pins /\ pins'[i] = x /\ \A k \in DOMAIN pins : k # i => pins'[k] = pins[k]
  BY <1>1, <1>2
<1> QED BY <1>1, <1>2, <1>3 DEF Typed, PinsKept

-----------------------------------------------------------------------------
(* Jobs start *)

\* The documents of the lineage stay as they are when one more job starts.
Follows == Younger /\ Receipts

LEMMA InvFollows == Inv => Follows /\ \A k \in Jobs : Lineal(k)
  BY DEF Inv, Follows, Younger, Receipts, Kin, Lineal, Own, Lawful

\* A job that has not started stands in no lineage.
LEMMA UnusedKin ==
  ASSUME NEW k \in Jobs, doc[k] = NoDoc, doc'[k] = doc[k]
  PROVE  Kin(k)' /\ doc'[k].par = 0 /\ ~doc'[k].unstarted
  BY JobNumbers DEF Kin, Lineal, Started, NoDoc

\* A share or a retry is admitted, or leaves a receipt that was never started.
LEMMA AdmitMoves ==
  ASSUME Inv, NEW j \in Jobs, NEW link \in Links, NEW par, NEW kind \in {"places", "analysis"}, NEW budget \in {"shares", "retries"},
         Admit(j, link, par, kind, budget),
         (par = 0 /\ kind = "places") \/ (par \in Jobs /\ doc[par].st \in Over /\ doc[par].link = link)
  PROVE  Moves(j) /\ Follows' /\ \A k \in Jobs : Kin(k)'
<1> DEFINE origin == Origin(par, kind)
           wants == IF Resting(origin) THEN doc[origin].wants ELSE {}
           drops == IF Resting(origin) THEN At(doc[origin].out, Dismissed) ELSE {}
           unpicked == IF Resting(origin) /\ doc[origin].picked /\ doc[origin].st = "failed" THEN Stored(origin) \ doc[origin].chosen ELSE {}
           receipt == [NoDoc EXCEPT !.st = "processing", !.link = link, !.par = par, !.kind = kind,
                                    !.wants = wants, !.drops = drops, !.unpicked = unpicked]
           refused == [receipt EXCEPT !.st = "failed", !.unstarted = TRUE]
           first == [Idle EXCEPT !.pc = IF par = 0 THEN "analyse" ELSE "context"]
<1>1. Typed /\ Own(j) /\ Tells(j) /\ pins \in Seq(PinDoc) /\ Unused(j) /\ doc[j].st = "none" /\ doc[j] = NoDoc /\ worker[j] = Idle /\ UNCHANGED pins
      /\ \A k \in Jobs : Kin(k) /\ Lineal(k)
  BY InvFollows DEF Inv, Typed, Own, Admit, Unused, Lawful
<1>2. \/ doc' = [doc EXCEPT ![j] = receipt] /\ InMemory(j, first) /\ left' = [left EXCEPT ![budget] = @ - 1]
      \/ doc' = [doc EXCEPT ![j] = refused] /\ UNCHANGED worker /\ left' = [left EXCEPT ![budget] = @ - 1, !.faults = @ - 1]
  BY DEF Admit
<1>3. left' \in Scenario
  <2>1. left \in Scenario /\ left[budget] > 0
    BY <1>1 DEF Typed, Admit
  <2>2. CASE budget = "shares"
    <3>1. left.shares > 0 /\ (left' = [left EXCEPT !.shares = @ - 1] \/ (left.faults > 0 /\ left' = [left EXCEPT !.shares = @ - 1, !.faults = @ - 1]))
      BY <2>1, <2>2 DEF Admit
    <3> QED BY <2>1, <3>1, Spends
  <2>3. CASE budget = "retries"
    <3>1. left.retries > 0 /\ (left' = [left EXCEPT !.retries = @ - 1] \/ (left.faults > 0 /\ left' = [left EXCEPT !.retries = @ - 1, !.faults = @ - 1]))
      BY <2>1, <2>3 DEF Admit
    <3> QED BY <2>1, <3>1, Spends
  <2> QED BY <2>2, <2>3
<1>4. par # 0 => par \in 0..(j - 1) /\ doc[par].st # "none" /\ doc[par].link = link /\ Settled(par)
  <2> SUFFICES ASSUME par # 0 PROVE par \in 0..(j - 1) /\ doc[par].st # "none" /\ doc[par].link = link /\ Settled(par)
    OBVIOUS
  <2>1. par \in Jobs /\ doc[par].st \in Over /\ doc[par].link = link /\ doc[par].st # "none"
    BY DEF Over
  <2>2. par # j /\ ~ (j \in 1..(par - 1))
    BY <1>1, <2>1 DEF Lineal
  <2>3. par \in 0..(j - 1)
    BY <2>1, <2>2, SaveConstants DEF Jobs
  <2>4. Settled(par)
    BY <2>1 DEF Inv, Own, Lawful, Settled, Over
  <2> QED BY <2>1, <2>3, <2>4
<1>5. /\ origin = 0 \/ (origin \in Jobs /\ doc[origin].st # "none" /\ origin # j)
      /\ par = 0 => origin = 0
  <2>1. par = 0 => origin = 0
    <3>1. 0 \in 0..MaxJobs
      BY SaveConstants
    <3> QED BY <3>1, OriginIs, InvFollows DEF Follows
  <2>2. par # 0 => origin \in Jobs /\ doc[origin].st # "none"
    BY <1>1, <1>4, OriginKin, InvFollows DEF Follows
  <2> QED BY <1>1, <2>1, <2>2
<1>6. Resting(origin) => origin \in Jobs /\ Started(origin)
  BY <1>5 DEF Resting, Started
<1>7. wants \in SUBSET Places /\ drops \in SUBSET Places /\ unpicked \in SUBSET Places /\ (par = 0 => wants = {} /\ drops = {})
  <2>1. Resting(origin) => doc[origin] \in JobDoc
    BY <1>1, <1>6 DEF Typed
  <2>2. par = 0 => ~Resting(origin)
    BY <1>5 DEF Resting
  <2> HIDE DEF origin
  <2> QED BY <2>1, <2>2 DEF JobDoc, At, Stored
<1>8. PICK e \in JobDoc : /\ doc' = [doc EXCEPT ![j] = e] /\ e.link = link /\ e.par = par /\ e.kind = kind /\ e.wants = wants /\ e.drops = drops
                          /\ e.out = Blank /\ ~e.picked /\ ~e.partial /\ ~e.begun
                          /\ \/ e.st = "processing" /\ ~e.unstarted /\ InMemory(j, first)
                             \/ e.st = "failed" /\ e.unstarted /\ UNCHANGED worker
  <2>1. par \in Nat
    BY JobNumbers
  <2> HIDE DEF wants, drops, unpicked, first
  <2>2. receipt \in JobDoc /\ receipt.link = link /\ receipt.par = par /\ receipt.kind = kind /\ receipt.wants = wants /\ receipt.drops = drops
        /\ receipt.out = Blank /\ ~receipt.picked /\ ~receipt.partial /\ ~receipt.begun /\ receipt.st = "processing" /\ ~receipt.unstarted
    <3>1. NoDoc \in JobDoc /\ NoDoc.out = Blank /\ ~NoDoc.picked /\ ~NoDoc.partial /\ ~NoDoc.begun /\ ~NoDoc.unstarted
      BY IdleIs DEF NoDoc
    <3> QED BY <1>7, <2>1, <3>1 DEF JobDoc
  <2> HIDE DEF receipt
  <2>3. refused \in JobDoc /\ refused.link = link /\ refused.par = par /\ refused.kind = kind /\ refused.wants = wants /\ refused.drops = drops
        /\ refused.out = Blank /\ ~refused.picked /\ ~refused.partial /\ ~refused.begun /\ refused.st = "failed" /\ refused.unstarted
    BY <2>2 DEF JobDoc, Over
  <2> HIDE DEF refused
  <2> QED BY <1>2, <2>2, <2>3
<1>9. PICK v \in Memory : /\ InMemory(j, v) /\ v.out = Blank /\ v.init = Blank /\ v.pin = 0
                          /\ \/ e.st = "processing" /\ ~e.unstarted /\ v = first /\ v.pc = (IF par = 0 THEN "analyse" ELSE "context")
                             \/ e.st = "failed" /\ e.unstarted /\ v = Idle
  <2>1. first \in Memory /\ first.out = Blank /\ first.init = Blank /\ first.pin = 0 /\ first.pc = (IF par = 0 THEN "analyse" ELSE "context")
    BY IdleIs DEF Memory, Phases
  <2> HIDE DEF first
  <2>2. UNCHANGED worker => InMemory(j, Idle)
    BY <1>1 DEF InMemory, Typed
  <2> QED BY <1>8, <2>1, <2>2, IdleIs
<1> HIDE DEF wants, drops, unpicked, receipt, refused
<1>10. /\ Typed' /\ PinsKept /\ worker'[j] = v /\ doc'[j] = e
       /\ \A k \in Jobs \ {j} : doc'[k] = doc[k] /\ worker'[k] = worker[k]
       /\ \A i \in DOMAIN pins' \ DOMAIN pins : pins'[i].by = j
  BY <1>1, <1>3, <1>8, <1>9, Writes
<1>11. \A k \in Jobs : Evolves(k)
  BY <1>1, <1>10 DEF Evolves
<1>12. \A p \in Places : Blank[p] = None /\ None.st = "none" /\ Plain(Blank[p]) /\ \A l : Says(Blank[p], l)
  BY IdleIs DEF None, Plain, Says
<1>13. Lawful(j)'
  BY <1>8, <1>9, <1>10, IdleIs DEF Lawful
<1>14. Phased(j)'
  <2>1. v.pc = "context" => v = [Idle EXCEPT !.pc = "context"] /\ par # 0
    BY <1>9, IdleIs
  <2>2. v.pc \in {"idle", "context", "analyse"} /\ (v.pc = "analyse" => par = 0 /\ kind = "places")
    BY <1>9, IdleIs, JobNumbers
  <2> HIDE DEF first
  <2> QED BY <1>8, <1>9, <1>10, <2>1, <2>2 DEF Phased, Started
<1>15. Matched(j)' /\ Truthful(j)' /\ Undismissed(j)'
  <2>1. Matched(j)'
    BY <1>8, <1>9, <1>10, <1>12, IdleIs DEF Matched
  <2>2. \A p \in Places : \A l : Says(Blank[p], l)'
    BY <1>10, <1>12, PinsStay
  <2>3. Truthful(j)'
    BY <1>8, <1>9, <1>10, <1>12, <2>2, IdleIs DEF Truthful
  <2> QED BY <1>8, <1>9, <1>10, <1>12, <2>1, <2>3 DEF Undismissed
<1>16. Dropped(j)'
  BY <1>8, <1>9, <1>10, <1>12, IdleIs DEF Dropped, Dismissed
<1>17. Wanted(j)'
  BY <1>7, <1>8, <1>9, <1>10, IdleIs DEF Wanted, Started
<1>18. Tells(j)'
  <2>1. \A p : ~Told(j, p)
    BY <1>1 DEF Told
  <2>2. \A i \in DOMAIN pins' : pins'[i].by # j
    BY <1>1, <2>1 DEF Tells
  <2> QED BY <2>2 DEF Tells
<1>19. Moves(j)
  BY <1>10, <1>11, <1>13, <1>14, <1>15, <1>16, <1>17, <1>18 DEF Moves, Own
<1>20. Follows'
  BY <1>4, <1>8, <1>10, InvFollows, JobNumbers DEF Follows, Younger, Receipts
<1>21. ASSUME NEW k \in Jobs, doc[k].st # "none" PROVE Kin(k)'
  BY <1>1, <1>11, <1>20, <1>21, KinStays, InvFollows DEF Follows, Typed
<1>22. ASSUME NEW k \in Jobs \ {j}, doc[k].st = "none" PROVE Kin(k)'
  <2>1. doc[k] = NoDoc /\ doc'[k] = doc[k]
    BY <1>10, <1>22 DEF Inv, Own, Lawful
  <2> QED BY <2>1, UnusedKin
<1>23. Kin(j)'
  <2>1. \A i \in 1..(j - 1) : doc'[i].st # "none"
    BY <1>1, <1>10, JobNumbers DEF Unused
  <2>2. CASE par = 0
    BY <1>7, <1>8, <1>10, <2>1, <2>2, JobNumbers DEF Kin, Lineal, Started
  <2>3. CASE par # 0
    <3>1. PICK r \in Jobs : r = par /\ r # j /\ r \in 0..(j - 1) /\ r # 0
      BY <1>4, <2>3, JobNumbers
    <3>2. doc'[r] = doc[r] /\ Settled(r)'
      <4>1. doc'[r] = doc[r]
        BY <1>10, <3>1
      <4> QED BY <1>4, <2>3, <3>1, <4>1 DEF Settled
    <3>3. Lineal(j)'
      <4>1. e.par # 0 => doc'[r].st # "none" /\ doc'[r].link = e.link /\ Settled(r)' /\ e.par = r
        BY <1>4, <1>8, <3>1, <3>2
      <4>2. e.par \in 0..(j - 1)
        BY <1>8, <3>1
      <4>3. Settled(doc[j].par)' <=> Settled(r)'
        BY <1>8, <1>10, <3>1
      <4> QED BY <1>10, <2>1, <4>1, <4>2, <4>3 DEF Lineal
    <3>4. Origin(r, kind)' = Origin(r, kind)
      BY <1>1, <1>4, <1>11, <1>20, <2>3, <3>1, OriginStays, InvFollows DEF Follows
    <3>5. PICK a \in Jobs : a = origin /\ a # j
      BY <1>4, <1>5, <2>3, <3>1, OriginKin, InvFollows DEF Follows, Inv
    <3>6. Ancestor(j)' = a
      <4>1. Ancestor(j)' = Origin(r, kind)'
        BY <1>8, <1>10, <3>1 DEF Ancestor
      <4> QED BY <3>1, <3>4, <3>5, <4>1
    <3>7. doc'[a] = doc[a] /\ (Started(a)' <=> Started(a))
      BY <1>10, <3>5 DEF Started
    <3>8. \A p \in e.drops : doc[a].out[p].st \in Dismissed
      BY <1>8, <3>5 DEF drops, At
    <3>9. e.wants = {} \/ (Started(a) /\ e.wants \subseteq doc[a].wants)
      BY <1>6, <1>8, <3>5 DEF wants
    <3> QED BY <1>8, <1>10, <2>3, <3>3, <3>6, <3>7, <3>8, <3>9 DEF Kin
  <2> QED BY <2>2, <2>3
<1> QED BY <1>1, <1>19, <1>20, <1>21, <1>22, <1>23

-----------------------------------------------------------------------------
(* Every step keeps the invariant *)

LEMMA InvInit == Init => Inv
<1> SUFFICES ASSUME Init PROVE Inv
  OBVIOUS
<1>1. left \in Scenario /\ doc \in [Jobs -> JobDoc] /\ worker \in [Jobs -> Memory] /\ \A j \in Jobs : doc[j] = NoDoc /\ worker[j] = Idle
  BY SaveConstants, IdleIs DEF Init
<1>2. pins \in Seq(PinDoc) /\ \A i \in DOMAIN pins : pins[i].by = 0
  <2> DEFINE S == {[place |-> p, url |-> "none", sources |-> {}, live |-> TRUE, by |-> 0] : p \in left.pinned}
  <2>1. left.pinned \subseteq Places /\ IsFiniteSet(left.pinned)
    BY <1>1, SaveConstants, FS_Subset DEF Scenario
  <2>2. \A x \in S : x \in PinDoc /\ x.by = 0
    <3> SUFFICES ASSUME NEW p \in left.pinned
                 PROVE  LET x == [place |-> p, url |-> "none", sources |-> {}, live |-> TRUE, by |-> 0] IN x \in PinDoc /\ x.by = 0
      OBVIOUS
    <3>1. p \in Places /\ 0 \in 0..MaxJobs
      BY <2>1, SaveConstants
    <3> QED BY <3>1 DEF PinDoc
  <2>3. Cardinality(S) \in Nat
    <3> DEFINE f == [p \in left.pinned |-> [place |-> p, url |-> "none", sources |-> {}, live |-> TRUE, by |-> 0]]
    <3>1. f \in Surjection(left.pinned, S)
      BY DEF Surjection
    <3> HIDE DEF f, S
    <3> QED BY <2>1, <3>1, FS_Surjection, FS_CardinalityType
  <2>4. pins \in [1..Cardinality(S) -> S]
    BY DEF Init, SetToSeqs
  <2> HIDE DEF S
  <2>5. pins \in Seq(S) /\ \A i \in DOMAIN pins : pins[i] \in S
    BY <2>3, <2>4
  <2>6. S \subseteq PinDoc
    BY <2>2
  <2> QED BY <2>2, <2>5, <2>6, SeqGrows
<1>3. NoDoc.st = "none" /\ NoDoc.par = 0 /\ NoDoc.out = Blank /\ NoDoc.wants = {} /\ NoDoc.drops = {} /\ ~NoDoc.picked /\ ~NoDoc.partial
      /\ ~NoDoc.begun /\ ~NoDoc.unstarted
  BY DEF NoDoc
<1>4. \A p \in Places : Blank[p] = None /\ None.st = "none"
  BY IdleIs DEF None
<1>5. ASSUME NEW j \in Jobs PROVE Kin(j) /\ Own(j)
  <2>1. doc[j] = NoDoc /\ worker[j] = Idle /\ j # 0 /\ 0 \in 0..(j - 1)
    BY <1>1, JobNumbers
  <2>2. Kin(j)
    BY <1>3, <2>1 DEF Kin, Lineal, Started
  <2>3. Lawful(j) /\ Phased(j)
    BY <1>3, <2>1, IdleIs DEF Lawful, Phased
  <2>4. Matched(j) /\ Truthful(j)
    BY <1>3, <1>4, <2>1, IdleIs DEF Matched, Truthful, Plain, Says
  <2>5. Dropped(j) /\ Wanted(j) /\ Undismissed(j)
    BY <1>3, <1>4, <2>1, IdleIs DEF Dropped, Wanted, Undismissed
  <2>6. Tells(j)
    BY <1>2, <2>1 DEF Tells
  <2> QED BY <2>2, <2>3, <2>4, <2>5, <2>6 DEF Own
<1> QED BY <1>1, <1>2, <1>5, PlacedInit DEF Inv, Typed

\* One job moves, the others stay as they are.
LEMMA MovesKeep ==
  ASSUME Inv, NEW j \in Jobs, Moves(j), [Next]_vars, doc[j].st # "none" PROVE Inv'
<1>1. \A k \in Jobs : Evolves(k)
  BY DEF Moves, Evolves
<1>2. \A k \in Jobs : Lineal(k) /\ Kin(k)
  BY InvFollows DEF Inv
<1>3. \A k \in Jobs \ {j} : doc'[k] = doc[k]
  BY DEF Moves
<1>4. Follows'
  <2>1. doc'[j].par = doc[j].par /\ doc'[j].st # "none"
    BY <1>1 DEF Evolves
  <2>2. doc'[j].unstarted => doc'[j].st = "failed"
    BY DEF Moves, Own, Lawful
  <2> QED BY <1>3, <2>1, <2>2, InvFollows DEF Follows, Younger, Receipts
<1>5. ASSUME NEW k \in Jobs PROVE Kin(k)'
  <2>1. CASE doc[k].st # "none"
    BY <1>1, <1>2, <1>4, <2>1, KinStays, InvFollows DEF Follows, Inv, Typed
  <2>2. CASE doc[k].st = "none"
    <3>1. doc[k] = NoDoc /\ doc'[k] = doc[k]
      BY <1>3, <2>2 DEF Inv, Own, Lawful
    <3> QED BY <3>1, UnusedKin
  <2> QED BY <2>1, <2>2
<1>6. ASSUME NEW k \in Jobs PROVE Own(k)'
  <2>1. CASE k = j
    BY <2>1 DEF Moves
  <2>2. CASE k # j
    <3>1. Own(k) /\ PinsKept /\ doc'[k] = doc[k] /\ worker'[k] = worker[k] /\ \A i \in DOMAIN pins' \ DOMAIN pins : pins'[i].by # k
      BY <2>2 DEF Moves, Inv
    <3> QED BY <3>1, OthersStay
  <2> QED BY <2>1, <2>2
<1> QED BY <1>5, <1>6, PlacedStep DEF Inv, Moves

LEMMA StillKin == ASSUME Inv, doc' = doc PROVE \A k \in Jobs : Kin(k)'
<1>1. Follows' /\ \A k \in Jobs : Evolves(k) /\ Kin(k) /\ Lineal(k)
  BY InvFollows DEF Follows, Younger, Receipts, Evolves, Inv
<1>2. ASSUME NEW k \in Jobs, doc[k].st # "none" PROVE Kin(k)'
  BY <1>1, <1>2, KinStays, InvFollows DEF Follows, Inv, Typed
<1>3. ASSUME NEW k \in Jobs, doc[k].st = "none" PROVE Kin(k)'
  <2>1. doc[k] = NoDoc
    BY <1>3 DEF Inv, Own, Lawful
  <2> QED BY <2>1, UnusedKin
<1> QED BY <1>2, <1>3

LEMMA InvStep == Inv /\ [Next]_vars => Inv'
<1> SUFFICES ASSUME Inv, [Next]_vars PROVE Inv'
  OBVIOUS
<1>1. \A j \in Jobs : doc[j].st = "none" => worker[j] = Idle /\ worker[j].pc = "idle" /\ ~doc[j].partial
  BY IdleIs DEF Inv, Own, Lawful, NoDoc
<1>2. ASSUME NEW j \in Jobs, Work(j) PROVE Inv'
  <2>1. doc[j].st # "none"
    <3>1. worker[j].pc # "idle" \/ Kept(j)
      <4>1. ASSUME ReadContext(j) \/ Checkpoint(j) \/ KnownLink(j) \/ AnalysisFails(j) \/ AppendNext(j) PROVE worker[j].pc # "idle"
        BY <4>1 DEF ReadContext, Checkpoint, KnownLink, AnalysisFails, AppendNext
      <4>2. ASSUME NEW found, NEW matched, NEW unsure, NEW how, Analyse(j, found, matched, unsure, how) PROVE worker[j].pc # "idle"
        BY <4>2 DEF Analyse
      <4>3. ASSUME StoreMatches(j) \/ SaveConfirmed(j) \/ SaveSingle(j) \/ Attach(j) PROVE worker[j].pc # "idle"
        BY <4>3 DEF StoreMatches, SaveConfirmed, SaveSingle, Attach, Attempted, Decided
      <4>4. ASSUME Finish(j) PROVE worker[j].pc # "idle"
        <5>1. PICK w : w \in Ends(j)
          BY <4>4 DEF Finish
        <5> QED BY <5>1, EndsAre
      <4>5. ASSUME NEW p, FindByMaps(j, p) \/ (\E unsure \in BOOLEAN : FindFallback(j, p, unsure)) PROVE worker[j].pc # "idle"
        BY <4>5 DEF FindByMaps, FindFallback, Decided
      <4> QED BY <1>2, <4>1, <4>2, <4>3, <4>4, <4>5 DEF Work, Stopped
    <3> QED BY <1>1, <3>1 DEF Kept
  <2>2. Moves(j)
    <3>1. ASSUME NEW found \in SUBSET left.shown, NEW matched \in SUBSET left.shown, NEW unsure \in SUBSET left.shown,
                 NEW how \in {"sound", "incomplete", "unreadable"}, Analyse(j, found, matched, unsure, how)
          PROVE  Moves(j)
      BY <3>1, AnalyseMoves
    <3>2. ASSUME NEW p \in left.shown, FindByMaps(j, p) \/ (\E unsure \in BOOLEAN : FindFallback(j, p, unsure)) PROVE Moves(j)
      BY <3>2, FindByMapsMoves, FindFallbackMoves
    <3> QED BY <1>2, <3>1, <3>2, ReadContextMoves, CheckpointMoves, KnownLinkMoves, AnalysisFailsMoves, AppendNextMoves, StoreMatchesMoves,
               SaveConfirmedMoves, SaveSingleMoves, AttachMoves, FinishMoves, EndsMoves DEF Work
  <2> QED BY <2>1, <2>2, MovesKeep
<1>3. ASSUME NEW j \in Jobs, Crash(j) \/ Sweep(j) PROVE Inv'
  <2>1. doc[j].st # "none"
    BY <1>1, <1>3 DEF Crash, Sweep, Kept, Active
  <2> QED BY <1>3, <2>1, EndsMoves, SweepMoves, MovesKeep
<1>4. ASSUME NEW j \in Jobs, NEW S \in SUBSET Places, Select(j, S) PROVE Inv'
  BY <1>4, SelectMoves, MovesKeep DEF Select
<1>5. ASSUME NEW j \in Jobs, NEW p \in Places, ReviewDismisses(j, p) PROVE Inv'
  <2>1. doc[j].st # "none"
    BY <1>1, <1>5 DEF ReviewDismisses, Reviewable
  <2> QED BY <1>5, <2>1, ReviewMoves, MovesKeep
<1>6. ASSUME NEW j \in Jobs, Moves(j), \A k \in Jobs : Kin(k)' PROVE Inv'
  <2>1. ASSUME NEW k \in Jobs PROVE Own(k)'
    <3>1. CASE k = j
      BY <1>6, <3>1 DEF Moves
    <3>2. CASE k # j
      <4>1. Own(k) /\ PinsKept /\ doc'[k] = doc[k] /\ worker'[k] = worker[k] /\ \A i \in DOMAIN pins' \ DOMAIN pins : pins'[i].by # k
        BY <1>6, <3>2 DEF Moves, Inv
      <4> QED BY <4>1, OthersStay
    <3> QED BY <3>1, <3>2
  <2> QED BY <1>6, <2>1, PlacedStep DEF Inv, Moves
<1>7. ASSUME NEW j \in Jobs, NEW l \in left.links, Share(j, l) PROVE Inv'
  <2>1. l \in Links
    BY DEF Inv, Typed, Scenario
  <2> QED BY <1>6, <1>7, <2>1, AdmitMoves DEF Share
<1>8. ASSUME NEW j \in Jobs, NEW q \in Jobs, NEW kind \in {"places", "analysis"}, Retry(j, q, kind) PROVE Inv'
  <2>1. doc[q].link \in Links /\ doc[q].st \in Over
    BY <1>8 DEF Retry, Inv, Own, Lawful, Over
  <2> QED BY <1>6, <1>8, <2>1, AdmitMoves DEF Retry
<1>9. ASSUME NEW i \in DOMAIN pins, UserDeletes(i) PROVE Inv'
  <2>1. Typed' /\ PinsKept /\ DOMAIN pins' \ DOMAIN pins = {} /\ doc' = doc /\ worker' = worker
    BY <1>9, DeletesKeep
  <2>2. \A k \in Jobs : Own(k)'
    BY <2>1, OthersStay DEF Inv
  <2>3. \A k \in Jobs : Kin(k)'
    BY <2>1, StillKin
  <2> QED BY <2>1, <2>2, <2>3, PlacedStep DEF Inv
<1>10. CASE UNCHANGED vars
  <2>1. UNCHANGED <<pins, doc, worker, left>>
    BY <1>10 DEF vars
  <2>2. \A k \in Jobs : Own(k)'
    BY <2>1, OthersStay DEF Inv, PinsKept
  <2>3. \A k \in Jobs : Kin(k)'
    BY <2>1, StillKin
  <2> QED BY <2>1, <2>2, <2>3, PlacedStep DEF Inv, Typed
<1> QED BY <1>2, <1>3, <1>4, <1>5, <1>7, <1>8, <1>9, <1>10 DEF Next

LEMMA InvHolds == Spec => []Inv
  BY InvInit, InvStep, PTL DEF Spec

-----------------------------------------------------------------------------
(* What the invariant says of the saves *)

LEMMA TypesOfInv == Inv => TypeOK
<1> SUFFICES ASSUME Inv PROVE TypeOK
  OBVIOUS
<1>1. Typed /\ \A j \in Jobs : Lineal(j)
  BY InvFollows DEF Inv
<1>2. \A i \in DOMAIN pins : pins[i] \in [place : Places, url : Links \cup {"none"}, sources : SUBSET Links, live : BOOLEAN, by : 0..MaxJobs]
  <2>1. \A i \in DOMAIN pins : pins[i] \in PinDoc
    BY <1>1 DEF Typed
  <2> QED BY <2>1 DEF PinDoc
<1>3. ASSUME NEW j \in Jobs
      PROVE  /\ doc[j].out \in [Places -> Outcome] /\ doc[j].st \in Over \cup {"none", "processing"}
             /\ doc[j].cand \cup doc[j].rcand \cup doc[j].chosen \cup doc[j].wants \subseteq Places
             /\ doc[j].par \in 0..(j - 1) /\ doc[j].recovery \in {"absent", "none", "incomplete"}
             /\ worker[j].out \in [Places -> Outcome] /\ worker[j].init \in [Places -> Outcome]
  <2>1. doc[j] \in JobDoc /\ worker[j] \in Memory /\ doc[j].par \in 0..(j - 1)
    BY <1>1 DEF Typed, Lineal
  <2> QED BY <2>1 DEF JobDoc, Memory, Recoveries
<1> QED BY <1>1, <1>2, <1>3 DEF TypeOK, Typed

\* The documents and the memories of the jobs, and the pins, are what the
\* model says they are.
THEOREM SaveTypes == Spec => []TypeOK
  BY InvHolds, TypesOfInv, PTL

\* Whatever attachment or save fails, and wherever a worker stops between two
\* transactions, a document says saved or existing only of a pin that received
\* the job's link (enrich.js:597-598).
THEOREM OutcomesAreTrue == Spec => []OutcomesTruthful
<1>1. Inv => OutcomesTruthful
  BY DEF Inv, Own, Truthful, Says, Holds, OutcomesTruthful, At
<1> QED BY <1>1, InvHolds, PTL

\* A retry that got past its checkpoint keeps every dismissal of its lineage,
\* through analyses that fail or find other places, saves that stop half way,
\* and the receipts that getRetryContext passes: ordinary ones never started for
\* an ordinary retry, undecided analysis ones for an analysis retry.
THEOREM DismissalsLast == Spec => []DismissalPreserved
<1>1. Inv => DismissalPreserved
  BY DEF Inv, Own, Dropped, DismissalPreserved
<1> QED BY <1>1, InvHolds, PTL

\* A place that the user picked in a post is pinned, dismissed since, or what the
\* next retry saves without asking, however many retries of its lineage come
\* between and wherever each of them stops, through the receipts that
\* getRetryContext passes (retryContext.js:16-25, 82-87).
THEOREM SelectionsLast == Spec => []SelectionNotForgotten
<1>1. Inv => SelectionNotForgotten
  <2> SUFFICES ASSUME Inv, NEW j \in Jobs, Resting(j), NEW p \in doc[j].wants
               PROVE  Pinned(p) \/ Recovered(j, p) = Unresolved(TRUE) \/ Recovered(j, p).st \in Dismissed
    BY DEF SelectionNotForgotten, Pinned
  <2>1. Typed /\ Own(j) /\ Started(j)
    BY DEF Inv, Resting, Started
  <2>2. p \in Places
    BY <2>1 DEF Typed, JobDoc
  <2>3. Pinned(p) \/ Held(j, p)
    BY <2>1 DEF Own, Wanted
  <2>4. Safe(Lineage(j), p)
    BY <2>1, <2>2, <2>3, RecoveredIs
  <2> QED BY <2>2, <2>4 DEF Safe, Lineage
<1> QED BY <1>1, InvHolds, PTL

\* A candidate that a job pinned, and had no time to say so, is known as pinned
\* to the next retry, wherever the job stopped (retryContext.js:73-79).
THEOREM RetriesSee == Spec => []RetrySeesWhatWasSaved
<1>1. Inv => RetrySeesWhatWasSaved
  <2> SUFFICES ASSUME Inv, NEW j \in Jobs, Resting(j), NEW i \in DOMAIN pins, pins[i].by = j, pins[i].live,
                      doc[j].out[pins[i].place].st \in Committed \cup {"candidate", "dismissed"}
               PROVE  Recovered(j, pins[i].place).st \in Committed
    BY DEF RetrySeesWhatWasSaved
  <2> DEFINE p == pins[i].place
             o == doc[j].out[p]
             picked == doc[j].picked /\ p \in doc[j].chosen
  <2>1. Told(j, p) /\ i \in LivePins(p)
    BY DEF Inv, Own, Tells, LivePins
  <2>2. o.st \in Committed \/ (o.st = "candidate" /\ (picked \/ ~doc[j].picked))
    BY <2>1 DEF Told
  <2>3. CASE o.st \in Committed
    BY <2>3 DEF Recovered, Committed
  <2>4. CASE o.st = "candidate" /\ (picked \/ ~doc[j].picked)
    <3>1. LivePins(p) # {} /\ ~(o.st = "candidate" /\ doc[j].picked /\ ~picked) /\ o.st # "unresolved" /\ o.st # "none"
      BY <2>1, <2>4
    <3> DEFINE n == CHOOSE n \in LivePins(p) : TRUE
    <3>2. Recovered(j, p) = [st |-> IF doc[j].link \in pins[n].sources THEN "existing" ELSE "adopted", pin |-> n, conf |-> o.conf]
      BY <2>4, <3>1 DEF Recovered
    <3> HIDE DEF n
    <3> QED BY <3>2 DEF Committed
  <2> QED BY <2>2, <2>3, <2>4
<1> QED BY <1>1, InvHolds, PTL
=============================================================================
