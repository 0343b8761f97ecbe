--------------------------- MODULE PinAccounting ---------------------------
(***************************************************************************)
(* The accounting of one account's pins by Firestore triggers: a commit of *)
(* a pin or of the owner's visit is delivered to a function at least once, *)
(* late and in any order; the function keeps its facts in an inbox and     *)
(* then reconciles the projections with the pin as it is NOW, counting the *)
(* facts of the commit once by a receipt.  An operator's repair tool walks *)
(* the inbox and calls the same consumer.                                  *)
(*                                                                         *)
(* Commits are numbered: the number is the commit time, the identity of    *)
(* the mutation and, of a creation, the generation of the pin.  Of a pin   *)
(* there are its source identities, its city (the feature the metadata     *)
(* projection counts by) and its visited flag.  An action is one           *)
(* transaction or one read of a function call.                             *)
(***************************************************************************)
EXTENDS Integers, FiniteSets, Sequences

CONSTANTS
  Pins, Sources, Cities,  \* ids, source identities, features
  Trigger,      \* concurrent calls of the trigger functions
  MAX_ATTEMPTS, \* failed projections before a record needs review
  MaxCommits,   \* bound: commits of pins and visits
  MaxAccounts,  \* bound: creations of the account
  Budgets       \* bounds: how often, in one behaviour, what may happen

\* commits, deletions of the account, deliveries of what was acknowledged, calls
\* that throw or die, runs of the repair tool and of the migration, pauses of the
\* capture; late: capture is off at first.
Budget == [commits : 0..MaxCommits, accounts : Nat, repeats : Nat, failures : Nat, repairs : Nat, runs : Nat,
           pauses : Nat, late : BOOLEAN]

Tool == "tool"

ASSUME AccountingConstants ==
  /\ {MAX_ATTEMPTS, MaxCommits, MaxAccounts} \subseteq Nat \ {0}
  /\ Budgets \subseteq Budget
  /\ IsFiniteSet(Pins) /\ IsFiniteSet(Sources) /\ Cities # {} /\ "none" \notin Cities /\ Tool \notin Trigger

VARIABLES
  pin,          \* the pins of the account
  visit,        \* the owner's visit document of each pin
  commits,      \* every commit, in order
  account,      \* the generation of the user document, 0 when there is none
  accounts,     \* how often it was created
  buried,       \* deletions of the user document not yet delivered
  tombstone,    \* the generation the tombstone names, 0 when there is none
  cutover,      \* the first commit that counts, 0 before there was a capture
  capturing,    \* whether the capture is switched on
  skipped,      \* history: commits acknowledged because it was switched off
  inbox,        \* what is recorded of each commit
  unacked,      \* commits whose delivery is owed
  call,         \* the function calls and the tool's
  repair,       \* where the repair tool is
  contribution, \* what is counted of each pin
  index,        \* rows of the content index
  stats,        \* the totals
  receipts,     \* commits whose facts were counted
  saveEvents,   \* commits with a fact in the history
  profile,      \* the history's totals and the last save
  head, metaPin, summary, bucket,  \* the metadata projection
  budget        \* what is left of the bounds

world == <<pin, visit, commits, account, accounts, buried>>
control == <<cutover, capturing, skipped>>
projections == <<contribution, index, stats, receipts, saveEvents, profile, head, metaPin, summary, bucket>>
vars == <<world, tombstone, control, inbox, unacked, call, repair, projections, budget>>

Time == 1..MaxCommits
Gen  == 0..MaxCommits
Acc  == 0..MaxAccounts
Caller == Trigger \cup {Tool}

\* gen is the commit that created the pin, 0 when there is none.
Pin    == [gen : Gen, keys : SUBSET Sources, city : Cities \cup {"none"}, visited : BOOLEAN]
NoPin  == [gen |-> 0, keys |-> {}, city |-> "none", visited |-> FALSE]
Commit == [pin : Pins, kind : {"created", "deleted", "updated", "visit"}, adds : Nat, city : Cities \cup {"none"}]
NoDoc  == [exists |-> FALSE, visited |-> FALSE, gen |-> 0, keys |-> {}, known |-> FALSE]
Idle   == [pc |-> "idle", t |-> 0]

Bit(b) == IF b THEN 1 ELSE 0

\* An account of which nothing was ever projected.
InitElse ==
  /\ budget \in Budgets
  /\ visit = [p \in Pins |-> [time |-> 0, on |-> FALSE]]
  /\ account = 1 /\ accounts = 1 /\ buried = {} /\ tombstone = 0 /\ skipped = {}
  /\ inbox = [t \in Time |-> [state |-> "none", attempts |-> 0]] /\ unacked = {}
  /\ call = [c \in Caller |-> Idle] /\ repair = [on |-> FALSE, cursor |-> 0, review |-> FALSE]
  /\ contribution = [p \in Pins |-> NoDoc] /\ index = {}
  /\ stats = [pins |-> 0, visited |-> 0, revision |-> 0, ready |-> FALSE]
  /\ receipts = {} /\ saveEvents = {} /\ profile = [saves |-> 0, adds |-> 0, last |-> 0, city |-> "none"]
  /\ head = [p \in Pins |-> [acc |-> 0, gen |-> 0]]
  /\ metaPin = [p \in Pins |-> [g \in Time |-> [exists |-> FALSE, acc |-> 0, city |-> "none"]]]
  /\ summary = [acc |-> 0, n |-> 0] /\ bucket = [c \in Cities |-> [acc |-> 0, n |-> 0]]

Init == /\ InitElse
        /\ pin = [p \in Pins |-> NoPin] /\ commits = <<>>
        /\ capturing = ~budget.late /\ cutover = Bit(~budget.late)

-----------------------------------------------------------------------------
(* The documents, as their owners and other services commit them *)

Now == Len(commits) + 1

Commits(p, kind, adds) ==
  /\ budget.commits > 0 /\ budget' = [budget EXCEPT !.commits = @ - 1]
  /\ commits' = Append(commits, [pin |-> p, kind |-> kind, adds |-> adds, city |-> pin'[p].city])
  /\ unacked' = unacked \cup {Now}
  /\ UNCHANGED <<account, accounts, buried, tombstone, control, inbox, call, repair, projections>>

CreatePin(p) ==
  /\ pin[p].gen = 0
  /\ \E k \in SUBSET Sources, c \in Cities :
       pin' = [pin EXCEPT ![p] = [gen |-> Now, keys |-> k, city |-> c, visited |-> FALSE]]
  /\ Commits(p, "created", 0)
  /\ UNCHANGED visit

\* One commit changes the sources, the city or the visited flag.
UpdatePin(p) ==
  /\ pin[p].gen # 0
  /\ \/ \E k \in SUBSET Sources \ {pin[p].keys} :
          /\ pin' = [pin EXCEPT ![p].keys = k]
          /\ Commits(p, "updated", Cardinality(k \ pin[p].keys))
     \/ \E c \in Cities \ {pin[p].city} : pin' = [pin EXCEPT ![p].city = c] /\ Commits(p, "updated", 0)
     \/ pin' = [pin EXCEPT ![p].visited = ~@] /\ Commits(p, "updated", 0)
  /\ UNCHANGED visit

DeletePin(p) ==
  /\ pin[p].gen # 0
  /\ pin' = [pin EXCEPT ![p] = NoPin]
  /\ Commits(p, "deleted", 0)
  /\ UNCHANGED visit

WriteVisit(p) ==
  /\ UNCHANGED pin
  /\ visit' = [visit EXCEPT ![p] = [time |-> Now, on |-> ~@.on]]
  /\ Commits(p, "visit", 0)

CreateUser ==
  /\ account = 0 /\ accounts < MaxAccounts
  /\ account' = accounts + 1 /\ accounts' = accounts + 1
  /\ UNCHANGED <<pin, visit, commits, buried, tombstone, control, inbox, unacked, call, repair, projections, budget>>

DeleteUser ==
  /\ account # 0 /\ budget.accounts > 0
  /\ budget' = [budget EXCEPT !.accounts = @ - 1]
  /\ account' = 0 /\ buried' = buried \cup {account}
  /\ UNCHANGED <<pin, visit, commits, accounts, tombstone, control, inbox, unacked, call, repair, projections>>

-----------------------------------------------------------------------------
(* What a reconciliation computes from the current documents *)

Active  == account # 0 /\ tombstone # account
Enabled == capturing
Exists(p) == pin[p].gen # 0

\* A visit document of an earlier pin of the same id does not count.
Visited(p) == Exists(p) /\ IF visit[p].time >= pin[p].gen THEN visit[p].on ELSE pin[p].visited

\* identities and digest: what the pin contributes now.
Contribution(p) == [exists |-> Exists(p), visited |-> Visited(p), gen |-> pin[p].gen,
                    keys |-> IF Exists(p) THEN pin[p].keys ELSE {}, known |-> TRUE]

Counter(n, delta) == IF n + delta < 0 THEN 0 ELSE n + delta

\* Fault: rows that are gone are looked for by their source alone.
ProjectBySource(p) ==
  LET next == Contribution(p)
      old  == contribution[p]
  IN /\ contribution' = [contribution EXCEPT ![p] = next]
     /\ index' = (index \ (Pins \X old.keys)) \cup ({p} \X next.keys)
     /\ stats' = [stats EXCEPT !.pins = Counter(@, Bit(next.exists) - Bit(old.exists)),
                               !.visited = Counter(@, Bit(next.visited) - Bit(old.visited))]

\* The rows, the contribution and the totals change together or not at all.
ProjectContribution(p) ==
  LET next == Contribution(p)
      old  == contribution[p]
  IN IF next = old THEN UNCHANGED <<contribution, index, stats>>
     ELSE /\ contribution' = [contribution EXCEPT ![p] = next]
          /\ index' = (index \ ({p} \X Sources)) \cup ({p} \X next.keys)
          /\ stats' = [stats EXCEPT !.pins = Counter(@, Bit(next.exists) - Bit(old.exists)),
                                    !.visited = Counter(@, Bit(next.visited) - Bit(old.visited)),
                                    !.revision = @ + 1]

\* committedMutation, eventFacts: what commit t says, 0 being no event.
IsEvent(t)   == t # 0 /\ t >= cutover

\* Facts count until there is a receipt.
Fresh(t)     == IsEvent(t) /\ t \notin receipts
FreshSave(t) == Fresh(t) /\ commits[t].kind = "created"
\* Fault: the sources of an event count however often it comes.
AddsAgain(t) == IF IsEvent(t) THEN commits[t].adds ELSE 0

SourceAdds(t) == IF Fresh(t) THEN commits[t].adds ELSE 0

\* Fault: the last save is the one counted last.
LastCounted(p, t) ==
  LET last == IF FreshSave(t) THEN t ELSE profile.last
  IN /\ receipts' = IF IsEvent(t) THEN receipts \cup {t} ELSE receipts
     /\ saveEvents' = IF FreshSave(t) \/ SourceAdds(t) > 0 THEN saveEvents \cup {t} ELSE saveEvents
     /\ profile' = [profile EXCEPT !.saves = @ + Bit(FreshSave(t)), !.adds = @ + SourceAdds(t), !.last = last,
                                   !.city = IF FreshSave(t) THEN commits[t].city ELSE @]

\* The receipt and the totals of the history are one commit; the last save is
\* that of the latest commit, whatever order they are counted in, and follows
\* the city of its pin while that pin is there.
ProjectHistory(p, t) ==
  LET newer == FreshSave(t) /\ t > profile.last
      last  == IF newer THEN t ELSE profile.last
  IN /\ receipts' = IF IsEvent(t) THEN receipts \cup {t} ELSE receipts
     /\ saveEvents' = IF FreshSave(t) \/ SourceAdds(t) > 0 THEN saveEvents \cup {t} ELSE saveEvents
     /\ profile' = [saves |-> profile.saves + Bit(FreshSave(t)), adds |-> profile.adds + SourceAdds(t), last |-> last,
                    city |-> IF Exists(p) /\ last = pin[p].gen THEN pin[p].city
                             ELSE IF newer THEN commits[t].city ELSE profile.city]

\* Fault: a total is taken for what it is, whoever's it was.
AnyTotal(r) == r.n

\* A total of an earlier generation of the account counts as none.
Total(r) == IF r.acc = account THEN r.n ELSE 0

\* The pointer says which generation of the pin this projection counts; without
\* one of this account, the contribution does.
Previous(p) == IF head[p].acc = account THEN head[p].gen ELSE contribution[p].gen

\* createPinMetadataAccounting, prepare: the prior document leaves its feature
\* and the next one joins its own.
ProjectMetadata(p) ==
  LET g     == Previous(p)
      prev  == IF g = 0 THEN [exists |-> FALSE, acc |-> 0, city |-> "none"] ELSE metaPin[p][g]
      prior == prev.exists /\ prev.acc = account
      doc   == [exists |-> TRUE, acc |-> account, city |-> pin[p].city]
      delta(c) == Bit(Exists(p) /\ pin[p].city = c) - Bit(prior /\ prev.city = c)
  IN /\ head' = [head EXCEPT ![p] = [acc |-> account, gen |-> pin[p].gen]]
     /\ IF prior = Exists(p) /\ (Exists(p) => g = pin[p].gen /\ prev = doc)
        THEN UNCHANGED <<metaPin, summary, bucket>>
        ELSE /\ metaPin' = [metaPin EXCEPT ![p] = [h \in Time |->
                  IF h = pin[p].gen THEN doc ELSE IF h = g THEN [metaPin[p][h] EXCEPT !.exists = FALSE]
                  ELSE metaPin[p][h]]]
             /\ bucket' = [c \in Cities |-> IF delta(c) = 0 THEN bucket[c]
                                            ELSE [acc |-> account, n |-> Counter(Total(bucket[c]), delta(c))]]
             /\ summary' = [acc |-> account, n |-> Counter(Total(summary), Bit(Exists(p)) - Bit(prior))]

\* reconcile: one transaction; t is the event it was called with, or 0.
Reconcile(p, t) == ProjectContribution(p) /\ ProjectMetadata(p) /\ ProjectHistory(p, t)

-----------------------------------------------------------------------------
(* The trigger functions and their inbox *)

PinOf(c) == commits[call[c].t].pin
At(c, pc) == call[c].pc = pc
Goto(c, pc) == call' = [call EXCEPT ![c].pc = pc]

\* A trigger that returns is acknowledged; one that throws is delivered again.
\* The tool passes a record that is done and stops at any other.
Return(c, done) ==
  /\ call' = [call EXCEPT ![c] = Idle]
  /\ unacked' = IF c = Tool THEN unacked ELSE unacked \ {call[c].t}
  /\ repair' = IF c # Tool THEN repair
               ELSE IF done THEN [repair EXCEPT !.cursor = call[c].t]
               ELSE [repair EXCEPT !.on = FALSE]

\* Fault: an error is logged and the event acknowledged.
Swallow(c) ==
  /\ call' = [call EXCEPT ![c] = Idle]
  /\ unacked' = unacked \ {call[c].t}
  /\ UNCHANGED repair

Throw(c) ==
  /\ call' = [call EXCEPT ![c] = Idle]
  /\ repair' = IF c = Tool THEN [repair EXCEPT !.on = FALSE] ELSE repair
  /\ UNCHANGED unacked

\* capture: before anything else the facts are in the inbox, unless they were;
\* while it is switched off an event without a record is acknowledged, no more.
Capture(c, t) ==
  /\ c # Tool /\ At(c, "idle") /\ t <= Len(commits)
  /\ \/ t \in unacked /\ UNCHANGED budget
     \/ t \notin unacked /\ budget.repeats > 0 /\ budget' = [budget EXCEPT !.repeats = @ - 1]
  /\ IF inbox[t].state = "none" /\ ~Enabled
     THEN unacked' = unacked \ {t} /\ skipped' = skipped \cup {t} /\ UNCHANGED <<inbox, call>>
     ELSE /\ call' = [call EXCEPT ![c] = [pc |-> "read", t |-> t]]
          /\ inbox' = IF inbox[t].state = "none" THEN [inbox EXCEPT ![t].state = "pending"] ELSE inbox
          /\ UNCHANGED <<unacked, skipped>>
  /\ UNCHANGED <<world, tombstone, cutover, capturing, repair, projections>>

\* repairMutation: what is complete or waits for a review is left alone; a pin
\* whose event was complete is reconciled again with what it is now.
Read(c) ==
  /\ At(c, "read")
  /\ LET t == call[c].t
         s == inbox[t].state
     IN \/ s = "complete" /\ c # Tool /\ commits[t].kind # "visit"
           /\ Goto(c, "again") /\ UNCHANGED <<unacked, repair>>
        \/ s = "complete" /\ (c = Tool \/ commits[t].kind = "visit") /\ Return(c, TRUE)
        \/ s = "needs_review" /\ ~(c = Tool /\ repair.review) /\ Return(c, FALSE)
        \/ s \in {"pending", "awaiting_account"} \cup (IF c = Tool /\ repair.review THEN {"needs_review"} ELSE {})
           /\ Goto(c, "apply") /\ UNCHANGED <<unacked, repair>>
  /\ UNCHANGED <<world, tombstone, control, inbox, projections, budget>>

\* Capture switched off meanwhile: the record stays as it is, for the tool.
Apply(c) ==
  /\ At(c, "apply")
  /\ \/ /\ Enabled /\ Active
        /\ Reconcile(PinOf(c), call[c].t)
        /\ Goto(c, "finish") /\ UNCHANGED <<skipped, unacked, repair>>
     \/ /\ Enabled /\ ~Active
        /\ Goto(c, "park") /\ UNCHANGED <<projections, skipped, unacked, repair>>
     \/ /\ ~Enabled
        /\ skipped' = IF c = Tool THEN skipped ELSE skipped \cup {call[c].t}
        /\ Return(c, FALSE) /\ UNCHANGED projections
  /\ UNCHANGED <<world, tombstone, cutover, capturing, inbox, budget>>

\* The inbox is told afterwards, in a write of its own.
Finish(c) ==
  /\ At(c, "finish")
  /\ inbox' = [inbox EXCEPT ![call[c].t].state = "complete"]
  /\ Return(c, TRUE)
  /\ UNCHANGED <<world, tombstone, control, projections, budget>>

\* Fault: an event of an account that is not there is done with.
Discard(c) ==
  /\ At(c, "park")
  /\ inbox' = [inbox EXCEPT ![call[c].t].state = "complete"]
  /\ Return(c, FALSE)
  /\ UNCHANGED <<world, tombstone, control, projections, budget>>

\* No account: the record waits for one.
Park(c) ==
  /\ At(c, "park")
  /\ inbox' = [inbox EXCEPT ![call[c].t].state = "awaiting_account"]
  /\ Return(c, FALSE)
  /\ UNCHANGED <<world, tombstone, control, projections, budget>>

\* onPinWritten, the event was known: the pin is reconciled without one.
Again(c) ==
  /\ At(c, "again")
  /\ IF Enabled /\ Active THEN Reconcile(PinOf(c), 0) ELSE UNCHANGED projections
  /\ Return(c, TRUE)
  /\ UNCHANGED <<world, tombstone, control, inbox, budget>>

Costs == budget.failures > 0 /\ budget' = [budget EXCEPT !.failures = @ - 1]

\* A transaction or the write after it fails: the attempt is counted, unless
\* the record was completed meanwhile; the last one asks for a review.
Fails(c) ==
  /\ call[c].pc \in {"apply", "finish", "park"}
  /\ Costs
  /\ LET t == call[c].t
         n == inbox[t].attempts + 1
     IN IF inbox[t].state = "complete" THEN inbox' = inbox /\ Throw(c)
        ELSE /\ inbox' = [inbox EXCEPT ![t] = [state |-> IF n >= MAX_ATTEMPTS THEN "needs_review" ELSE "pending",
                                               attempts |-> n]]
             /\ IF n >= MAX_ATTEMPTS THEN Return(c, FALSE) ELSE Throw(c)
  /\ UNCHANGED <<world, tombstone, control, projections>>

\* The instance dies, or a read throws.
Dies(c) ==
  /\ call[c].pc # "idle"
  /\ Costs
  /\ Throw(c)
  /\ UNCHANGED <<world, tombstone, control, inbox, projections>>

\* onUserDeleted: not when the account was created again in the meantime.
Bury(g) ==
  /\ g \in buried
  /\ buried' = buried \ {g}
  /\ tombstone' = IF account = 0 \/ account = g THEN g ELSE tombstone
  /\ UNCHANGED <<pin, visit, commits, account, accounts, control, inbox, unacked, call, repair, projections, budget>>

-----------------------------------------------------------------------------
(* The operator: switches capture on and off, repairs the inbox with the tool *)

\* The cutover is set the first time and stays.
InitializeCapture ==
  /\ ~capturing
  /\ capturing' = TRUE
  /\ cutover' = IF cutover = 0 THEN Now ELSE cutover
  /\ UNCHANGED <<world, tombstone, skipped, inbox, unacked, call, repair, projections, budget>>

\* captureEnabled is written by hand.
PauseCapture ==
  /\ capturing /\ budget.pauses > 0
  /\ budget' = [budget EXCEPT !.pauses = @ - 1]
  /\ capturing' = FALSE
  /\ UNCHANGED <<world, tombstone, cutover, skipped, inbox, unacked, call, repair, projections>>

RepairStarts ==
  /\ ~repair.on /\ budget.repairs > 0
  /\ budget' = [budget EXCEPT !.repairs = @ - 1]
  /\ \E r \in BOOLEAN : repair' = [on |-> TRUE, cursor |-> 0, review |-> r]
  /\ UNCHANGED <<world, tombstone, control, inbox, unacked, call, projections>>

\* The records after the cursor, in document order; they arrive in any order.
Scanned == {t \in Time : t > repair.cursor /\ inbox[t].state # "none"}

\* The next record: done ones and those nobody asked to review are passed over.
RepairNext ==
  /\ repair.on /\ At(Tool, "idle")
  /\ \/ /\ Scanned = {}
        /\ repair' = [repair EXCEPT !.on = FALSE]
        /\ UNCHANGED call
     \/ \E t \in Scanned :
          /\ \A u \in Scanned : t <= u
          /\ IF inbox[t].state = "complete" \/ (inbox[t].state = "needs_review" /\ ~repair.review)
             THEN repair' = [repair EXCEPT !.cursor = t] /\ UNCHANGED call
             ELSE call' = [call EXCEPT ![Tool] = [pc |-> "read", t |-> t]] /\ UNCHANGED repair
  /\ UNCHANGED <<world, tombstone, control, inbox, unacked, projections, budget>>

-----------------------------------------------------------------------------

Owner == \/ \E p \in Pins : CreatePin(p) \/ UpdatePin(p) \/ DeletePin(p) \/ WriteVisit(p)
         \/ CreateUser \/ DeleteUser
Step(c) == Read(c) \/ Apply(c) \/ Finish(c) \/ Park(c) \/ Again(c)
Operator == InitializeCapture \/ PauseCapture \/ RepairStarts \/ RepairNext

Next == \/ Owner \/ Operator
        \/ \E c \in Caller : Step(c) \/ Fails(c) \/ Dies(c)
        \/ \E c \in Trigger, t \in Time : Capture(c, t)
        \/ \E g \in buried : Bury(g)

Safety == Init /\ [][Next]_vars

-----------------------------------------------------------------------------

\* Every variable stays in its domain.
TypeOK ==
  /\ pin \in [Pins -> Pin] /\ visit \in [Pins -> [time : Gen, on : BOOLEAN]]
  /\ commits \in Seq(Commit) /\ Len(commits) <= MaxCommits
  /\ account \in Acc /\ accounts \in Acc /\ buried \subseteq Acc /\ tombstone \in Acc
  /\ cutover \in 0..MaxCommits + 1 /\ capturing \in BOOLEAN /\ (capturing => cutover # 0)
  /\ skipped \subseteq 1..Len(commits) /\ unacked \subseteq 1..Len(commits)
  /\ inbox \in [Time -> [state : {"none", "pending", "awaiting_account", "needs_review", "complete"}, attempts : Nat]]
  /\ call \in [Caller -> [pc : {"idle", "read", "apply", "finish", "park", "again"}, t : 0..Len(commits)]]
  /\ repair \in [on : BOOLEAN, cursor : Gen, review : BOOLEAN]
  /\ contribution \in [Pins -> [exists : BOOLEAN, visited : BOOLEAN, gen : Gen, keys : SUBSET Sources, known : BOOLEAN]]
  /\ index \subseteq Pins \X Sources
  /\ stats \in [pins : Nat, visited : Nat, revision : Nat, ready : BOOLEAN]
  /\ receipts \subseteq 1..Len(commits) /\ saveEvents \subseteq receipts
  /\ profile \in [saves : Nat, adds : Nat, last : Gen, city : Cities \cup {"none"}]
  /\ head \in [Pins -> [acc : Acc, gen : Gen]]
  /\ metaPin \in [Pins -> [Time -> [exists : BOOLEAN, acc : Acc, city : Cities \cup {"none"}]]]
  /\ summary \in [acc : Acc, n : Nat] /\ bucket \in [Cities -> [acc : Acc, n : Nat]]

\* The sources the events of the history have brought, one by one.
Additions == UNION {{t} \X (1..commits[t].adds) : t \in saveEvents}

\* The totals are those of the contributions, the index has exactly their rows
\* and the history counts a save or a source once.
CountersMatch ==
  /\ stats.pins = Cardinality({p \in Pins : contribution[p].exists})
  /\ stats.visited = Cardinality({p \in Pins : contribution[p].visited})
  /\ index = {r \in Pins \X Sources : r[2] \in contribution[r[1]].keys}
  /\ profile.saves = Cardinality({t \in saveEvents : commits[t].kind = "created"})
  /\ profile.adds = Cardinality(Additions)
  /\ \A t \in receipts : t >= cutover

\* The metadata totals count each pin of this account generation once, in the
\* city it was last projected with.
Projected(p) == head[p].acc = account /\ head[p].gen # 0
MetadataMatches == account # 0 =>
  /\ Total(summary) = Cardinality({p \in Pins : Projected(p)})
  /\ \A c \in Cities : Total(bucket[c]) = Cardinality({p \in Pins : Projected(p) /\ metaPin[p][head[p].gen].city = c})

\* All totals agree with what they count, however often and in whatever order an
\* event is delivered, retried or repaired, and across deletions of a pin and of
\* the account; nothing of before the cutover is history.
TotalsMatch == CountersMatch /\ MetadataMatches

\* When the latest commit of a pin is complete in the inbox the projections
\* are what the pin is now, whatever order its events were worked off in: no
\* late event brings back an older pin, or a deleted one.
LastCommit(p) == LET T == {t \in 1..Len(commits) : commits[t].pin = p}
                 IN IF T = {} THEN 0 ELSE CHOOSE t \in T : \A u \in T : u <= t
Settled(p) == LastCommit(p) # 0 /\ inbox[LastCommit(p)].state = "complete"
SettledAgrees == \A p \in Pins : Settled(p) =>
  /\ contribution[p] = Contribution(p)
  /\ Projected(p) => metaPin[p][head[p].gen].city = pin[p].city

\* The last save is the latest one counted and has its pin's city.
LastSaveIsLatest ==
  /\ \A t \in saveEvents : commits[t].kind = "created" => t <= profile.last
  /\ \A p \in Pins : Settled(p) /\ Exists(p) /\ profile.last = pin[p].gen => profile.city = pin[p].city

\* A commit after the cutover that the platform will not deliver again is
\* counted, or its record in the inbox shows an operator why not: no account, a
\* review, or an attempt of his own tool that failed; or it was delivered while
\* the capture was switched off, which drops it, or leaves its record pending.
Shown(t) == inbox[t].state \in {"awaiting_account", "needs_review"} \/ inbox[t].attempts > 0
NothingDropped == \A t \in 1..Len(commits) :
  cutover # 0 /\ t >= cutover /\ t \notin unacked => t \in receipts \/ Shown(t) \/ t \in skipped
=============================================================================
