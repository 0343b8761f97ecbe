------------------------------ MODULE PinSave ------------------------------
(***************************************************************************)
(* How one account's shares of links become pins: the analysis of a job,   *)
(* its matches with what is already pinned, the transactional save, the    *)
(* user's selection among candidates, the review of what was left over,    *)
(* and the retry of a finished job, which inherits what its ancestor's     *)
(* document says of every place.  Pins are saved and outcomes are written  *)
(* in different transactions, so that a worker that stops between two      *)
(* leaves a document that lags behind the pins.                            *)
(*                                                                         *)
(* A link stands for all the URLs of one content; a place for a clue of    *)
(* the analysis and for what the matcher finds for it.  An action is one   *)
(* transaction, or the reads and in-memory decisions between two.          *)
(***************************************************************************)
EXTENDS Naturals, FiniteSets, Sequences, SequencesExt

CONSTANTS
  Places, Links,
  MapsLinks,  \* links that are Google Maps URLs: they name their place
  MaxJobs,    \* bound: jobs, retries included
  Scenarios   \* bounds: how often, in one behaviour, what may happen

\* shares (of which links) and retries; workers that die; calls that fail or
\* find nothing; stale jobs swept; pins the user deletes; whether the content
\* index is on and videos are analysed; what the posts show; what was pinned
\* before, from another link.
Scenario == [shares : Nat, links : SUBSET Links, retries : Nat, crashes : Nat, faults : Nat, sweeps : Nat, deletes : Nat,
             indexed : BOOLEAN, media : BOOLEAN, shown : SUBSET Places, pinned : SUBSET Places]

ASSUME SaveConstants ==
  /\ MaxJobs \in Nat \ {0} /\ Scenarios \subseteq Scenario
  /\ IsFiniteSet(Places) /\ MapsLinks \subseteq Links /\ "none" \notin Links

VARIABLES
  pins,    \* every pin ever created, the deleted ones too
  doc,     \* the documents of the jobs
  worker,  \* what the process working on a job holds in memory
  left     \* what is left of the bounds

vars == <<pins, doc, worker, left>>

Jobs == 1..MaxJobs
Committed == {"saved", "existing", "adopted"}
Dismissed == {"dismissed", "reviewed"}
Over      == {"failed", "complete", "duplicate", "needs_selection"}

\* What is known of a place: the pin it became, whether the user confirmed
\* it.  "adopted" is "existing" where a retry found the pin by itself.
Outcome == [st : {"none", "candidate", "unresolved"} \cup Committed \cup Dismissed, pin : Nat, conf : BOOLEAN]
None    == [st |-> "none", pin |-> 0, conf |-> FALSE]
At(out, S) == {p \in Places : out[p].st \in S}
Unresolved(conf) == [st |-> "unresolved", pin |-> 0, conf |-> conf]
Blank   == [p \in Places |-> None]

\* chosen: selectedPlaceIds, present once picked.  History: begun, whether an
\* attempt got past its checkpoint; wants, drops and unpicked, what the user
\* had picked, dismissed and left unselected before, in the lineage, which
\* goes back as far as getRetryContext does: a refused analysis retry ends the
\* lineage of an ordinary retry of it, without any outcome.
NoDoc == [st |-> "none", link |-> "none", par |-> 0, kind |-> "places", out |-> Blank, cand |-> {}, rcand |-> {},
          picked |-> FALSE, chosen |-> {}, recovery |-> "absent", unstarted |-> FALSE, partial |-> FALSE, begun |-> FALSE, wants |-> {}, drops |-> {}, unpicked |-> {}]
Idle  == [pc |-> "idle", out |-> Blank, init |-> Blank, stored |-> {}, rec |-> "absent", cand |-> {}, todo |-> {},
          unsure |-> {}, again |-> {}, sure |-> {}, reread |-> FALSE, sound |-> FALSE, verdict |-> "failed", pin |-> 0]

Init ==
  /\ left \in Scenarios
  /\ pins \in SetToSeqs({[place |-> p, url |-> "none", sources |-> {}, live |-> TRUE, by |-> 0] : p \in left.pinned})
  /\ doc = [j \in Jobs |-> NoDoc]
  /\ worker = [j \in Jobs |-> Idle]

Spend(field) == left[field] > 0 /\ left' = [left EXCEPT ![field] = @ - 1]
InMemory(j, w) == worker' = [worker EXCEPT ![j] = w]
Kept(j) == worker[j] # Idle
Active(j) == doc[j].st = "processing"

-----------------------------------------------------------------------------
(* The pins *)

LivePins(p) == {i \in DOMAIN pins : pins[i].live /\ pins[i].place = p}
Attached(i, l) == [pins EXCEPT ![i].sources = @ \cup {l}]

\* Fault: the search before the save is trusted, the transaction looks for the
\* link alone.
TargetUnchecked(j, p) ==
  LET byLink == {i \in DOMAIN pins : pins[i].live /\ pins[i].url = doc[j].link}
  IN  IF ~left.indexed /\ byLink # {} THEN byLink ELSE {Len(pins) + 1}

\* The pin the transaction finds again, 0 when it creates one: by place and,
\* without the index and where a link means one place, by the link.
Target(j, p) ==
  LET l == doc[j].link
      byLink == IF left.indexed \/ left.media \/ worker[j].again # {} \/ worker[j].pc = "select" THEN {}
                ELSE {i \in DOMAIN pins : pins[i].live /\ pins[i].url = l}
  IN  IF LivePins(p) # {} THEN LivePins(p) ELSE IF byLink # {} THEN byLink ELSE {Len(pins) + 1}

\* writePinTransactional, which commits to pin i.
Written(j, p, i) ==
  IF i \in DOMAIN pins THEN Attached(i, doc[j].link)
  ELSE Append(pins, [place |-> p, url |-> doc[j].link, sources |-> {doc[j].link}, live |-> TRUE, by |-> j])

Landed(i) == IF i \in DOMAIN pins THEN "existing" ELSE "saved"

\* appendSourceToExistingPin
Appends(j, i) == pins[i].live /\ pins' = Attached(i, doc[j].link)

UserDeletes(i) == Spend("deletes") /\ pins[i].live /\ pins' = [pins EXCEPT ![i].live = FALSE] /\ UNCHANGED <<doc, worker>>

-----------------------------------------------------------------------------
(* What a retry inherits *)

\* Receipts that hold no result are passed through: by an ordinary retry an
\* ordinary one that was never started, by an analysis retry an analysis one
\* that failed undecided.  Anything else is what the retry inherits from.
PassedThrough(q, kind) ==
  /\ doc[q].par # 0 /\ doc[q].st = "failed" /\ doc[q].kind = kind
  /\ IF kind = "places" THEN doc[q].unstarted ELSE doc[q].recovery = "absent"

Origin(par, kind) ==
  LET up[q \in 0..MaxJobs] == IF q # 0 /\ PassedThrough(q, kind) THEN up[doc[q].par] ELSE q
  IN  up[par]
Ancestor(j) == Origin(doc[j].par, doc[j].kind)

Stored(q) == doc[q].cand \cup doc[q].rcand

\* Fault: what was picked and not reached is an ordinary candidate again.
RecoveredUnpicked(q, p) ==
  LET o == doc[q].out[p] IN
  IF o.st # "candidate" THEN o
  ELSE IF LivePins(p) = {} THEN Unresolved(o.conf)
  ELSE [st |-> "adopted", pin |-> CHOOSE i \in LivePins(p) : TRUE, conf |-> o.conf]

\* Fault: the stored outcome is believed, the pins are not read.
RecoveredUnread(q, p) ==
  LET o == doc[q].out[p]
      picked == doc[q].picked /\ p \in doc[q].chosen
  IN  CASE o.st = "candidate" -> IF doc[q].picked /\ ~picked THEN None ELSE Unresolved(o.conf \/ picked)
        [] o.st = "unresolved" -> Unresolved(o.conf \/ picked)
        [] o.st = "none" /\ picked /\ p \in Stored(q) -> Unresolved(TRUE)
        [] OTHER -> o

\* The outcome of q's document, as the reads of the pins correct it.
Recovered(q, p) ==
  LET o == doc[q].out[p]
      picked == doc[q].picked /\ p \in doc[q].chosen
  IN  CASE o.st = "candidate" /\ doc[q].picked /\ ~picked -> None
        [] o.st = "candidate" /\ (picked \/ ~doc[q].picked) ->
             IF LivePins(p) = {} THEN Unresolved(o.conf \/ picked)
             ELSE LET i == CHOOSE i \in LivePins(p) : TRUE
                  IN  [st |-> IF doc[q].link \in pins[i].sources THEN "existing" ELSE "adopted", pin |-> i, conf |-> o.conf]
        [] o.st = "unresolved" -> Unresolved(o.conf \/ picked)
        [] o.st = "none" /\ picked /\ p \in Stored(q) -> Unresolved(TRUE)
        [] OTHER -> o

Lineage(q) == [p \in Places |-> Recovered(q, p)]
HasRecovery(q) == doc[q].recovery = "incomplete"

\* getRetryContext and what runEnrichment keeps of it.
Inherits(j) ==
  LET q == Ancestor(j)
      init == Lineage(q)
      open == At(init, {"unresolved"})
      stored == open \cap Stored(q)
      analysis == doc[j].kind = "analysis"
      retained == {p \in open : init[p].conf \/ p \in stored}
  IN  [Idle EXCEPT !.pc = "checkpoint", !.out = init, !.init = init, !.stored = stored,
                   !.again = IF analysis THEN retained ELSE open,
                   !.reread = analysis \/ open # retained,
                   !.rec = IF HasRecovery(q) THEN "incomplete" ELSE "absent"]

Fail(w) == [w EXCEPT !.pc = "report", !.verdict = "failed"]

ReadContext(j) ==
  LET q == Ancestor(j) IN
  /\ worker[j].pc = "context" /\ UNCHANGED <<pins, doc>>
  /\ \/ /\ InMemory(j, IF doc[q].st \in Over /\ (doc[j].kind = "analysis" => HasRecovery(q)) THEN Inherits(j) ELSE Fail(worker[j]))
        /\ UNCHANGED left
     \/ Spend("faults") /\ InMemory(j, Fail(worker[j]))

\* withAnalysisRecovery, of every update of the worker.
Recovery(j) == IF worker[j].rec = "absent" THEN doc[j].recovery ELSE worker[j].rec

Checkpoint(j) ==
  /\ worker[j].pc = "checkpoint" /\ Active(j) /\ UNCHANGED pins
  /\ \/ /\ doc' = [doc EXCEPT ![j].out = worker[j].out, ![j].rcand = worker[j].stored, ![j].recovery = Recovery(j),
                              ![j].begun = TRUE]
        /\ InMemory(j, [worker[j] EXCEPT !.pc = "analyse"]) /\ UNCHANGED left
     \/ Spend("faults") /\ InMemory(j, Fail(worker[j])) /\ UNCHANGED doc

-----------------------------------------------------------------------------
(* Analysis and matching *)

\* The link is already a source, and nothing asks for the places of the post.
KnownLink(j) ==
  LET w == worker[j] IN
  /\ w.pc = "analyse" /\ ~left.indexed /\ ~left.media /\ w.again = {} /\ doc[j].kind = "places"
  /\ \E i \in DOMAIN pins :
       /\ pins[i].live /\ doc[j].link \in pins[i].sources \cup {pins[i].url}
       /\ InMemory(j, [w EXCEPT !.pc = "report", !.verdict = "duplicate", !.pin = i])
  /\ UNCHANGED <<pins, doc, left>>

\* Fault: only what was saved is not tried again.
BaseSaved(init) == At(init, Committed)

\* baseOutcomes: what needs no further work.
Base(init) == At(init, Committed \cup Dismissed)

\* Saves to resume are all there is to do, unless something needs fresh
\* evidence: then they join what the post shows.
Resumes(w) == w.again # {} /\ ~w.reread
Tried(w, found) ==
  (IF Resumes(w) THEN w.again ELSE found \cup {p \in w.again : w.init[p].conf \/ p \in w.stored}) \ Base(w.init)

\* runAIPipeline: the post shows the places `found`, of the places to try
\* `matched` are identified (stored ones are), `unsure` need the user's word.
\* how: the source was unreadable, or its analysis stayed incomplete.
Analyse(j, found, matched, unsure, how) ==
  LET w == worker[j]
      resume == Resumes(w)
      tried == Tried(w, found)
      exist == {p \in matched \ unsure : LivePins(p) # {}}
      kept == {p \in At(w.init, {"unresolved"}) \ tried : doc[j].kind = "analysis" \/ (w.reread /\ how # "sound")}
      out == [p \in Places |->
                CASE p \in exist -> [st |-> "existing", pin |-> CHOOSE i \in LivePins(p) : TRUE, conf |-> FALSE]
                  [] p \in matched \ exist -> [st |-> "candidate", pin |-> 0, conf |-> w.init[p].conf]
                  [] p \in (tried \ matched) \cup kept -> Unresolved(w.init[p].conf)
                  [] p \in Base(w.init) -> w.init[p]
                  [] OTHER -> None]
  IN  /\ w.pc = "analyse" /\ doc[j].link \notin MapsLinks
      /\ resume => found = {} /\ how = "sound"
      /\ how = "incomplete" => tried # {}
      /\ matched \subseteq tried /\ tried \cap w.stored \subseteq matched
      /\ unsure \subseteq {p \in matched : ~w.init[p].conf}
      /\ \E rec \in IF how = "incomplete" THEN {"incomplete"}
                    ELSE {w.rec} \cup {r \in {"none"} : how = "sound" /\ ~resume /\ w.rec # "absent"} :
           InMemory(j, [w EXCEPT !.pc = "append", !.out = out, !.cand = matched \ exist, !.todo = exist, !.unsure = unsure,
                                 !.sound = how = "sound", !.rec = rec])
      /\ IF how = "sound" /\ matched = tried THEN UNCHANGED left ELSE Spend("faults")
      /\ UNCHANGED <<pins, doc>>

\* An unreadable source with nothing stored to go on, or an analysis that
\* failed with nothing found: the places inherited are what is reported.
AnalysisFails(j) ==
  /\ worker[j].pc = "analyse" /\ Spend("faults") /\ InMemory(j, Fail(worker[j])) /\ UNCHANGED <<pins, doc>>

\* Fault: the places not attempted yet keep their outcome.
UnattachedOne(w, p) == [w.out EXCEPT ![p] = Unresolved(FALSE)]

\* After a failure: this place and those not attempted yet are unresolved.
Unattached(w, p) == [q \in Places |-> IF q \in w.todo THEN Unresolved(FALSE) ELSE w.out[q]]

\* The share is attached to the places pinned already; a failure ends the job.
AppendNext(j) ==
  LET w == worker[j]
      failed(p) == Fail([w EXCEPT !.out = Unattached(w, p)])
  IN  /\ w.pc = "append" /\ Active(j) /\ UNCHANGED doc
      /\ \E p \in w.todo :
           \/ /\ Appends(j, w.out[p].pin) /\ UNCHANGED left
              /\ InMemory(j, [w EXCEPT !.todo = @ \ {p},
                                       !.pin = IF @ = 0 /\ doc[j].link \notin pins[w.out[p].pin].sources THEN w.out[p].pin ELSE @])
           \/ ~pins[w.out[p].pin].live /\ InMemory(j, failed(p)) /\ UNCHANGED <<pins, left>>
           \/ Spend("faults") /\ InMemory(j, failed(p)) /\ UNCHANGED pins

-----------------------------------------------------------------------------
(* What becomes of the matches *)

Report(w, verdict, i) == [w EXCEPT !.pc = "report", !.verdict = verdict, !.pin = i]
FoundPins(w) == {w.out[p].pin : p \in {q \in At(w.out, {"existing"}) : w.init[q].st \notin Committed}}
\* A duplicate is reported with a pin that received the link, if one did.
Duplicate(w, i) == Report(w, "duplicate", IF w.pin # 0 THEN w.pin ELSE i)

Attempted(j) == worker[j].pc = "append" /\ worker[j].todo = {}
AllFound(w) == w.cand = {} /\ FoundPins(w) # {} /\ At(w.out, {"unresolved"}) = {}

\* The outcomes and candidates are stored before any of them is saved.
StoreMatches(j) ==
  LET w == worker[j]
      sure == {p \in w.cand : w.init[p].conf}
      news == {p \in Places : w.out[p].st \in {"candidate", "unresolved"}} # {} \/ FoundPins(w) # {}
      go == [w EXCEPT !.pc = "confirm", !.todo = sure, !.sure = sure]
  IN  /\ Attempted(j) /\ ~AllFound(w) /\ UNCHANGED pins
      /\ \/ ~news /\ InMemory(j, go) /\ UNCHANGED <<doc, left>>
         \/ /\ news /\ Active(j)
            /\ \/ /\ doc' = [doc EXCEPT ![j].out = w.out, ![j].cand = w.cand, ![j].rcand = {}, ![j].recovery = Recovery(j)]
                  /\ InMemory(j, go) /\ UNCHANGED left
               \/ Spend("faults") /\ InMemory(j, Fail(w)) /\ UNCHANGED doc

\* One transaction of writePinTransactional for place p: what it returns goes
\* to the outcome of p; a failure leaves the confirmed place unresolved.
Saves(j, p, w) ==
  \E i \in Target(j, p) :
    /\ pins' = Written(j, p, i)
    /\ InMemory(j, [w EXCEPT !.out[p] = [st |-> Landed(i), pin |-> i, conf |-> @.conf], !.todo = @ \ {p}])
    /\ UNCHANGED left

SaveConfirmed(j) ==
  LET w == worker[j] IN
  /\ w.pc \in {"confirm", "select"} /\ Active(j) /\ UNCHANGED doc
  /\ \E p \in w.todo :
       \/ Saves(j, p, w)
       \/ Spend("faults") /\ InMemory(j, [w EXCEPT !.out[p] = Unresolved(TRUE), !.todo = @ \ {p}]) /\ UNCHANGED pins

\* What is left of the candidates once the confirmed ones were attempted.
Rest(w) == w.cand \ w.sure
Decided(j) == worker[j].pc = "confirm" /\ worker[j].todo = {}

Certain(w) == Cardinality(Rest(w)) = 1 /\ w.unsure \cap Rest(w) = {}

\* A candidate alone and certain is saved without asking.
SaveSingle(j) ==
  LET w == worker[j] IN
  /\ \/ Decided(j) /\ Certain(w)
     \/ w.pc = "direct"
  /\ Active(j) /\ UNCHANGED doc
  /\ \E p \in Rest(w) :
       \/ \E i \in Target(j, p) :
            /\ pins' = Written(j, p, i) /\ UNCHANGED left
            /\ InMemory(j, IF i \notin DOMAIN pins THEN Report(w, "complete", i)
                           ELSE IF doc[j].link \in pins[i].sources THEN Duplicate(w, i)
                           ELSE Report(w, "duplicate", i))
       \/ Spend("faults") /\ InMemory(j, Fail(w)) /\ UNCHANGED pins

\* A sound analysis finds nothing but what was dealt with before.
NothingNew(w) == w.sound /\ At(w.out, Committed) # {} /\ At(w.out, Committed \cup Dismissed \cup {"none"}) = Places

FoundNothing(w) ==
  IF NothingNew(w) THEN {Report(w, "complete", 0)}
  ELSE IF FoundPins(w) # {} THEN {Duplicate(w, i) : i \in FoundPins(w)}
  ELSE {Fail(w)}

\* What a worker with nothing left to save reports.
Ends(j) ==
  LET w == worker[j]
      anySaved == At(w.out, Committed) # {}
  IN  CASE w.pc = "report" -> {w}
        [] Attempted(j) /\ AllFound(w) -> {Duplicate(w, i) : i \in FoundPins(w)}
        [] Decided(j) /\ Rest(w) = {} /\ w.sure # {} -> {Report(w, IF anySaved THEN "complete" ELSE "failed", 0)}
        [] Decided(j) /\ Rest(w) = {} /\ w.sure = {} -> FoundNothing(w)
        [] Decided(j) /\ Rest(w) # {} /\ ~Certain(w) -> {Report(w, "needs_selection", 0)}
        [] w.pc = "select" /\ w.todo = {} ->
             {Report(w, IF At(w.out, {"unresolved"}) # {} /\ ~anySaved THEN "failed" ELSE "complete", 0)}
        [] OTHER -> {}

\* A maps link names one place.
FindByMaps(j, p) ==
  /\ worker[j].pc = "analyse" /\ doc[j].link \in MapsLinks
  /\ InMemory(j, [worker[j] EXCEPT !.pc = "direct", !.cand = {p}]) /\ UNCHANGED <<pins, doc, left>>

\* The fallback infers one place for the whole post, which the user is asked
\* about when it is uncertain and which may be pinned.
FindFallback(j, p, unsure) ==
  LET w == worker[j]
      found == [w EXCEPT !.cand = {p}]
  IN  /\ Decided(j) /\ w.cand = {} /\ ~NothingNew(w)
      /\ w.sound /\ ~left.media /\ At(w.init, {"none"}) = Places
      /\ \/ unsure /\ InMemory(j, Report(found, "needs_selection", 0))
         \/ ~unsure /\ LivePins(p) = {} /\ InMemory(j, [found EXCEPT !.pc = "direct"])
         \/ ~unsure /\ \E i \in LivePins(p) : InMemory(j, [found EXCEPT !.pc = "attach", !.unsure = {i}])
      /\ UNCHANGED <<pins, doc, left>>

Attach(j) ==
  LET w == worker[j] IN
  /\ w.pc = "attach" /\ Active(j) /\ UNCHANGED doc
  /\ \E i \in w.unsure :
       \/ /\ Appends(j, i) /\ UNCHANGED left
          /\ InMemory(j, IF doc[j].link \in pins[i].sources THEN Duplicate(w, i) ELSE Report(w, "duplicate", i))
       \/ ~pins[i].live /\ InMemory(j, Fail(w)) /\ UNCHANGED <<pins, left>>
       \/ Spend("faults") /\ InMemory(j, Fail(w)) /\ UNCHANGED pins

-----------------------------------------------------------------------------
(* The report, and what the user does with it *)

\* withOutcomeSummary: a candidate left when all is done was saved by it.
Summed(w) == [p \in Places |-> IF w.verdict \in {"complete", "duplicate"} /\ w.out[p].st = "candidate"
                               THEN [st |-> "saved", pin |-> w.pin, conf |-> w.out[p].conf] ELSE w.out[p]]

\* Partial saves fail; with all known places saved an incomplete analysis is
\* recovered separately.
Status(w) ==
  LET out == Summed(w) IN
  IF w.verdict = "needs_selection" THEN w.verdict
  ELSE IF At(out, Committed) # {} /\ At(out, {"unresolved"}) # {} THEN "failed"
  ELSE IF w.verdict = "failed" /\ w.rec = "incomplete" /\ At(out, Committed) # {}
          /\ At(out, Committed \cup Dismissed \cup {"none"}) = Places THEN "complete"
  ELSE w.verdict

Finish(j) ==
  \E w \in Ends(j) :
    LET asks == w.verdict = "needs_selection"
        final == [doc[j] EXCEPT !.st = Status(w), !.recovery = Recovery(j),
                                !.partial = ~asks /\ At(Summed(w), {"unresolved"}) # {} /\ At(Summed(w), Committed) # {},
                                !.out = IF asks THEN w.out ELSE IF At(w.out, {"none"}) = Places THEN @ ELSE Summed(w),
                                !.cand = IF asks THEN Rest(w) ELSE @,
                                !.rcand = IF asks THEN {p \in w.sure : w.out[p].st = "unresolved"} ELSE @]
    IN  /\ Active(j) /\ UNCHANGED pins
        /\ \/ doc' = [doc EXCEPT ![j] = final] /\ InMemory(j, Idle) /\ UNCHANGED left
           \/ /\ Spend("faults") /\ UNCHANGED doc
              /\ InMemory(j, IF w.verdict = "failed" \/ doc[j].picked THEN Idle ELSE Fail(w))

\* saveSelectedPlaces: the claim, then one save at a time.
Select(j, S) ==
  LET out == [p \in Places |-> LET o == doc[j].out[p] IN
                IF o.st # "candidate" THEN o ELSE IF p \in S THEN None ELSE [o EXCEPT !.st = "dismissed"]]
      rec == IF S = {} THEN "none" ELSE IF doc[j].recovery = "incomplete" THEN "incomplete" ELSE "none"
  IN  /\ doc[j].st = "needs_selection" /\ S \subseteq doc[j].cand
      /\ doc' = [doc EXCEPT ![j].st = "processing", ![j].picked = TRUE, ![j].chosen = S, ![j].wants = @ \cup S]
      /\ InMemory(j, [Idle EXCEPT !.pc = "select", !.out = out, !.todo = S, !.rec = rec])
      /\ UNCHANGED <<pins, left>>

\* assertJob: nothing but a partial save is open to a review.
Reviewable(j) == doc[j].partial /\ At(doc[j].out, {"candidate"}) = {}

\* reviewDetections: places of a partial save the user gives up.
ReviewDismisses(j, p) ==
  LET out == [doc[j].out EXCEPT ![p] = [@ EXCEPT !.st = "reviewed"]] IN
  /\ Reviewable(j)
  /\ doc[j].out[p].st = "unresolved"
  /\ doc' = [doc EXCEPT ![j].out = out, ![j].partial = At(out, {"unresolved"}) # {},
                     ![j].st = IF At(out, {"unresolved"}) = {} THEN "complete" ELSE "failed"]
  /\ UNCHANGED <<pins, worker, left>>

-----------------------------------------------------------------------------
(* Jobs start, stop and are started again *)

Unused(j) == doc[j].st = "none" /\ \A i \in 1..(j - 1) : doc[i].st # "none"

\* A finished job whose attempt had stored what it inherited.
Resting(j) == j # 0 /\ doc[j].st \in Over /\ (doc[j].par = 0 \/ doc[j].begun)

\* Admission refused leaves a receipt that was never started.
Admit(j, link, par, kind, budget) ==
  LET origin == Origin(par, kind)
      receipt == [NoDoc EXCEPT !.st = "processing", !.link = link, !.par = par, !.kind = kind,
                               !.wants = IF Resting(origin) THEN doc[origin].wants ELSE {},
                               !.drops = IF Resting(origin) THEN At(doc[origin].out, Dismissed) ELSE {},
                               !.unpicked = IF Resting(origin) /\ doc[origin].picked /\ doc[origin].st = "failed" THEN Stored(origin) \ doc[origin].chosen ELSE {}]
  IN  /\ Unused(j) /\ left[budget] > 0 /\ UNCHANGED pins
      /\ \/ /\ doc' = [doc EXCEPT ![j] = receipt] /\ InMemory(j, [Idle EXCEPT !.pc = IF par = 0 THEN "analyse" ELSE "context"])
            /\ left' = [left EXCEPT ![budget] = @ - 1]
         \/ /\ doc' = [doc EXCEPT ![j] = [receipt EXCEPT !.st = "failed", !.unstarted = TRUE]] /\ UNCHANGED worker
            /\ left.faults > 0 /\ left' = [left EXCEPT ![budget] = @ - 1, !.faults = @ - 1]

Share(j, l) == Admit(j, l, 0, "places", "shares")
Retry(j, q, kind) ==
  /\ doc[q].st \in Over
  /\ kind = "analysis" => doc[q].recovery = "incomplete" \/ doc[q].kind = "analysis"
  /\ Admit(j, doc[q].link, q, kind, "retries")

\* A guarded call of a worker that lost its job ends it (attempt_stopped).
Stopped(j) == Kept(j) /\ ~Active(j) /\ InMemory(j, Idle) /\ UNCHANGED <<pins, doc, left>>
Crash(j)   == Kept(j) /\ Spend("crashes") /\ InMemory(j, Idle) /\ UNCHANGED <<pins, doc>>
\* The sweeper finds the deadline passed, its worker dead or not.
Sweep(j)   == /\ Active(j) /\ UNCHANGED <<pins, worker>>
              /\ IF Kept(j) THEN Spend("sweeps") ELSE UNCHANGED left
              /\ doc' = [doc EXCEPT ![j].st = "failed", ![j].partial = FALSE]

Work(j) ==
  \/ ReadContext(j) \/ Checkpoint(j) \/ KnownLink(j) \/ AnalysisFails(j) \/ AppendNext(j)
  \/ \E found, matched, unsure \in SUBSET left.shown, how \in {"sound", "incomplete", "unreadable"} : Analyse(j, found, matched, unsure, how)
  \/ StoreMatches(j) \/ SaveConfirmed(j) \/ SaveSingle(j) \/ Attach(j) \/ Finish(j) \/ Stopped(j)
  \/ \E p \in left.shown : FindByMaps(j, p) \/ \E unsure \in BOOLEAN : FindFallback(j, p, unsure)

Next ==
  \/ \E j \in Jobs : Work(j) \/ Crash(j) \/ Sweep(j)
  \/ \E j \in Jobs, S \in SUBSET Places : Select(j, S)
  \/ \E j \in Jobs, p \in Places : ReviewDismisses(j, p)
  \/ \E j \in Jobs, l \in left.links : Share(j, l)
  \/ \E j, q \in Jobs, kind \in {"places", "analysis"} : Retry(j, q, kind)
  \/ \E i \in DOMAIN pins : UserDeletes(i)

Spec == Init /\ [][Next]_vars
-----------------------------------------------------------------------------
(* Properties *)

TypeOK ==
  /\ left \in Scenario
  /\ \A i \in DOMAIN pins : pins[i] \in [place : Places, url : Links \cup {"none"}, sources : SUBSET Links, live : BOOLEAN, by : 0..MaxJobs]
  /\ \A j \in Jobs :
       /\ doc[j].out \in [Places -> Outcome] /\ doc[j].st \in Over \cup {"none", "processing"}
       /\ doc[j].cand \cup doc[j].rcand \cup doc[j].chosen \cup doc[j].wants \subseteq Places
       /\ doc[j].par \in 0..(j - 1) /\ doc[j].recovery \in {"absent", "none", "incomplete"}
       /\ worker[j].out \in [Places -> Outcome] /\ worker[j].init \in [Places -> Outcome]

\* However many jobs find a place at once, each after its own search found it
\* not pinned, the account has one pin of it (enrich.js:632-636).
OnePinPerPlace == \A p \in Places : Cardinality(LivePins(p)) <= 1

\* A stored outcome says saved or existing only of a pin that received the
\* job's link, whichever attachments failed or were never attempted: "it
\* cannot be acknowledged as a completed duplicate" (enrich.js:597-598).
OutcomesTruthful ==
  \A j \in Jobs : \A p \in At(doc[j].out, {"saved", "existing"}) :
    LET i == doc[j].out[p].pin IN
    i \in DOMAIN pins /\ doc[j].link \in pins[i].sources

\* A place the user picked is pinned, or still what the next retry saves
\* without asking: through workers that die between two saves, failed saves,
\* retries that find other places, and the receipts between them that
\* getRetryContext passes (retryContext.js:82-87, "Preserve selected candidates
\* that were never reached").
SelectionNotForgotten ==
  \A j \in Jobs : Resting(j) =>
    \A p \in doc[j].wants :
      \/ \E i \in DOMAIN pins : pins[i].place = p
      \/ Recovered(j, p) = Unresolved(TRUE)
      \/ Recovered(j, p).st \in Dismissed

\* What the user dismissed stays dismissed in the document of every retry that
\* got past its checkpoint, whatever its analysis found and how it failed
\* (detection-review-2026-09-30.md:123-124), through the receipts that
\* getRetryContext passes.  Nothing is said of what it does not go back to: a
\* retry of a refused analysis retry starts anew (retryContext.js:16-25).
DismissalPreserved ==
  \A j \in Jobs : doc[j].begun => \A p \in doc[j].drops : doc[j].out[p].st \in Dismissed

\* A candidate that a job pinned, and had no time to say so, is known as
\* pinned to the next retry, which neither saves it again nor asks about it
\* (retryContext.js:73-79).
RetrySeesWhatWasSaved ==
  \A j \in Jobs : Resting(j) =>
    \A i \in DOMAIN pins :
      LET p == pins[i].place IN
      pins[i].by = j /\ pins[i].live /\ doc[j].out[p].st \in Committed \cup {"candidate", "dismissed"} => Recovered(j, p).st \in Committed

\* A retry pins no candidate the user left unselected: "never unselected
\* ones" (tests/engine.retryRecovery.test.js:86).
UnselectedStaysUnsaved == \A i \in DOMAIN pins : pins[i].by # 0 => pins[i].place \notin doc[pins[i].by].unpicked
=============================================================================
