--------------------- MODULE AccountingMigration_proofs ---------------------
(***************************************************************************)
(* Proofs about PinAccounting and AccountingMigration together: the        *)
(* triggers, the repair tool and the migration, for any pins, accounts,    *)
(* runs and failures.                                                      *)
(***************************************************************************)
EXTENDS AccountingMigration, FiniteSetTheorems, WellFoundedInduction, TLAPS

-----------------------------------------------------------------------------
(* The invariant, in parts *)

\* The documents and what the bounds leave of commits.
WorldTyped ==
  /\ budget \in Budget
  /\ pin \in [Pins -> Pin] /\ visit \in [Pins -> [time : Gen, on : BOOLEAN]]
  /\ commits \in Seq(Commit) /\ Len(commits) + budget.commits <= MaxCommits
  /\ account \in Acc /\ accounts \in Acc /\ buried \subseteq Acc /\ tombstone \in Acc
  /\ cutover \in 0..Len(commits) + 1 /\ capturing \in BOOLEAN /\ (capturing => cutover # 0)

CallsTyped ==
  /\ skipped \subseteq 1..Len(commits)
  /\ unacked \subseteq 1..Len(commits)
  /\ inbox \in [Time -> [state : {"none", "pending", "awaiting_account", "needs_review", "complete"}, attempts : Nat]]
  /\ call \in [Caller -> [pc : {"idle", "read", "apply", "finish", "park", "again"}, t : 0..Len(commits)]]
  /\ repair \in [on : BOOLEAN, cursor : Gen, review : BOOLEAN]

ProjectionsTyped ==
  /\ contribution \in [Pins -> [exists : BOOLEAN, visited : BOOLEAN, gen : Gen, keys : SUBSET Sources, known : BOOLEAN]]
  /\ index \subseteq Pins \X Sources
  /\ stats \in [pins : Nat, visited : Nat, revision : Nat, ready : BOOLEAN]
  /\ receipts \subseteq 1..Len(commits) /\ saveEvents \subseteq receipts
  /\ profile \in [saves : Nat, adds : Nat, last : Gen, city : Cities \cup {"none"}]
  /\ head \in [Pins -> [acc : Acc, gen : Gen]]
  /\ metaPin \in [Pins -> [Time -> [exists : BOOLEAN, acc : Acc, city : Cities \cup {"none"}]]]
  /\ summary \in [acc : Acc, n : Nat] /\ bucket \in [Cities -> [acc : Acc, n : Nat]]

MigrationTyped ==
  /\ checkpoint \in Checkpoint /\ ready \in BOOLEAN
  /\ runner \in [Runner -> [pc : {"idle", "read", "work"}, at : Checkpoint, page : SUBSET Pins, next : Checkpoint]]

\* A pin that is there was created by a commit of its own; an account that is
\* there is the latest one.
WorldSound ==
  /\ \A p \in Pins : Exists(p) => /\ pin[p].gen \in 1..Len(commits) /\ commits[pin[p].gen].pin = p
                                  /\ pin[p].city \in Cities
  /\ account \in {0, accounts} /\ accounts # 0

\* Only commits there are get an inbox record or a call, and none before the
\* capture was switched on for the first time.
CallsSound ==
  /\ \A t \in Time : inbox[t].state # "none" => t <= Len(commits)
  /\ \A c \in Caller : call[c].pc # "idle" => call[c].t # 0

Off == /\ \A t \in Time : inbox[t].state = "none"
       /\ \A c \in Caller : call[c].pc = "idle"
       /\ receipts = {} /\ ~ready /\ checkpoint.phase = "none"
       /\ \A r \in Runner : runner[r].pc = "idle"
Begun == cutover # 0
OffUntilCutover == ~Begun => Off

\* Of an account's documents the pointer names the one that is counted; nothing
\* bears the number of an account to come.
Live(p, h) == metaPin[p][h].exists /\ metaPin[p][h].acc = account
PointersSound == \A p \in Pins :
  /\ head[p].acc <= accounts /\ (head[p].acc = 0 => head[p].gen = 0)
  /\ \A h \in Time : metaPin[p][h].acc <= accounts
  /\ account # 0 => \A h \in Time : Live(p, h) <=> Projected(p) /\ head[p].gen = h
  /\ account # 0 /\ Projected(p) => metaPin[p][head[p].gen].city \in Cities
StampsSound == summary.acc <= accounts /\ \A c \in Cities : bucket[c].acc <= accounts

SavesSound == IsFiniteSet(Additions) /\ \A t \in saveEvents : commits[t].kind = "created" => t <= profile.last

\* The latest commit of a pin is through as soon as its transaction is.
IsLast(p, t) == /\ t \in 1..Len(commits) /\ commits[t].pin = p
                /\ \A u \in 1..Len(commits) : commits[u].pin = p => u <= t
Through(t) == inbox[t].state = "complete" \/ \E c \in Caller : call[c].pc = "finish" /\ call[c].t = t
Reached(p) == contribution[p] = Contribution(p)
CityAgrees(p) == Projected(p) => metaPin[p][head[p].gen].city = pin[p].city
SaveAgrees(p) == Exists(p) /\ profile.last = pin[p].gen => profile.city = pin[p].city
Agrees(p) == Reached(p) /\ CityAgrees(p) /\ SaveAgrees(p)
Agreement == \A p \in Pins, t \in Time : IsLast(p, t) /\ Through(t) => Agrees(p)

\* A call that got past its transaction has left its receipt.
Counted(t) == t >= cutover => t \in receipts
CallsCounted ==
  /\ \A t \in Time : inbox[t].state = "complete" => Counted(t)
  /\ \A c \in Caller : call[c].pc \in {"finish", "again"} => Counted(call[c].t)

\* A pin the capture never saw, and how far a checkpoint says its migration is.
Old(p) == \A t \in 1..Len(commits) : commits[t].pin = p => t < cutover
Due(p) == Exists(p) /\ Old(p)
Covers(at, p) == at.phase # "none" /\ (at.phase = "pins" => p <= at.cursor)
Covered == \A p \in Pins : Due(p) /\ ~Reached(p) =>
  /\ ~Covers(checkpoint, p) /\ ~ready
  /\ \A r \in Runner :
       /\ runner[r].pc # "idle" => ~Covers(runner[r].at, p)
       /\ runner[r].pc = "work" /\ Covers(runner[r].next, p) => p \in runner[r].page
RunnersSound == \A r \in Runner : /\ runner[r].pc # "idle" => runner[r].at.phase # "none"
                                  /\ runner[r].pc = "work" => runner[r].next.phase # "none"

Typed == WorldTyped /\ CallsTyped /\ ProjectionsTyped /\ MigrationTyped
Sound == WorldSound /\ CallsSound /\ OffUntilCutover /\ PointersSound /\ StampsSound /\ SavesSound /\ RunnersSound
Inv == /\ Typed /\ Sound
       /\ TotalsMatch /\ Agreement /\ CallsCounted /\ NothingDropped /\ Covered

-----------------------------------------------------------------------------
(* Counting *)

\* Where two sets differ in at most one element, so do their sizes.
LEMMA CountChange ==
  ASSUME NEW S, IsFiniteSet(S), NEW A \in SUBSET S, NEW B \in SUBSET S, NEW p \in S,
         \A q \in S \ {p} : q \in A <=> q \in B
  PROVE  /\ Cardinality(A) \in Nat
         /\ Cardinality(B) = Cardinality(A) + (Bit(p \in B) - Bit(p \in A))
         /\ Counter(Cardinality(A), Bit(p \in B) - Bit(p \in A)) = Cardinality(B)
<1>1. /\ IsFiniteSet(A) /\ IsFiniteSet(B)
      /\ Cardinality(A) \in Nat /\ Cardinality(B) \in Nat
  BY FS_Subset, FS_CardinalityType
<1>2. Cardinality(B) = Cardinality(A) + (Bit(p \in B) - Bit(p \in A))
  <2>1. CASE (p \in A) = (p \in B)
    <3>1. A = B
      BY <2>1
    <3> QED BY <1>1, <3>1 DEF Bit
  <2>2. CASE p \in A /\ p \notin B
    <3>1. B = A \ {p}
      BY <2>2
    <3> QED BY <1>1, <2>2, <3>1, FS_RemoveElement DEF Bit
  <2>3. CASE p \notin A /\ p \in B
    <3>1. B = A \cup {p}
      BY <2>3
    <3> QED BY <1>1, <2>3, <3>1, FS_AddElement DEF Bit
  <2> QED BY <2>1, <2>2, <2>3
<1> QED BY <1>1, <1>2 DEF Counter

-----------------------------------------------------------------------------
(* Kinds of steps *)

\* A commit of pin p.
Writes(p) ==
  /\ \E e \in Commit : e.pin = p /\ commits' = Append(commits, e)
  /\ pin' \in [Pins -> Pin] /\ visit' \in [Pins -> [time : Gen, on : BOOLEAN]]
  /\ \A q \in Pins \ {p} : pin'[q] = pin[q] /\ visit'[q] = visit[q]
  /\ pin'[p].gen # 0 => pin'[p].gen \in {Now, pin[p].gen} /\ pin'[p].city \in Cities
  /\ unacked' = unacked \cup {Now}
  /\ budget' \in Budget /\ budget'.commits = budget.commits - 1
  /\ UNCHANGED <<account, accounts, buried, tombstone, control, inbox, call, repair, projections, migration>>

\* The account is deleted, created anew or its tombstone written.
Accounts ==
  /\ account' \in {0, accounts'} /\ account' \in Acc /\ accounts' \in Acc /\ accounts' # 0
  /\ \/ account' \in {0, account} /\ accounts' = accounts
     \/ account' = accounts + 1 /\ accounts' = accounts + 1
  /\ buried' \subseteq Acc /\ tombstone' \in Acc
  /\ budget' \in Budget /\ budget'.commits = budget.commits
  /\ UNCHANGED <<pin, visit, commits, control, inbox, unacked, call, repair, projections, migration>>

\* What may be said of the calls after a step that counted the commits T, and
\* may have switched the capture.
CallsMove(T) ==
  /\ CallsTyped' /\ CallsSound' /\ CallsCounted' /\ NothingDropped'
  /\ ~Begun => \A t \in Time : inbox'[t].state = "none"
  /\ ~Begun => \A c \in Caller : call'[c].pc = "idle"
  /\ \A t \in Time : Through(t)' => Through(t) \/ t \in T
  /\ budget' \in Budget /\ budget'.commits = budget.commits
  /\ capturing' \in BOOLEAN /\ (capturing' => cutover # 0)
  /\ UNCHANGED <<world, tombstone, cutover>>

USE DEF control

LEMMA CaptureBegan == ASSUME Inv, Enabled PROVE Begun
  BY DEF Inv, Typed, WorldTyped, Enabled, Begun

LEMMA EarlierCommits ==
  ASSUME commits \in Seq(Commit), NEW e \in Commit, commits' = Append(commits, e)
  PROVE  /\ commits' \in Seq(Commit) /\ Len(commits') = Len(commits) + 1 /\ Len(commits) \in Nat
         /\ \A t \in 1..Len(commits) : commits'[t] = commits[t]
         /\ commits'[Len(commits) + 1] = e
  OBVIOUS

LEMMA WritesStep == ASSUME Inv, NEW p \in Pins, Writes(p) PROVE Inv'
<1> USE DEF projections, migration
<1>1. PICK e \in Commit : e.pin = p /\ commits' = Append(commits, e)
  BY DEF Writes
<1>2. commits \in Seq(Commit)
  BY DEF Inv, Typed, WorldTyped
<1>3. /\ commits' \in Seq(Commit) /\ Len(commits') = Len(commits) + 1 /\ Len(commits) \in Nat
      /\ \A t \in 1..Len(commits) : commits'[t] = commits[t]
      /\ commits'[Len(commits) + 1] = e
  BY <1>1, <1>2, EarlierCommits
<1>4. Len(commits) + 1 <= MaxCommits /\ MaxCommits \in Nat
  <2>1. budget.commits \in Nat /\ budget'.commits \in Nat /\ budget'.commits = budget.commits - 1
    BY AccountingConstants DEF Inv, Typed, WorldTyped, Writes, Budget
  <2>2. Len(commits) + budget.commits <= MaxCommits /\ MaxCommits \in Nat
    BY AccountingConstants DEF Inv, Typed, WorldTyped
  <2> QED BY <1>3, <2>1, <2>2
<1>5. WorldTyped'
  <2>1. budget.commits \in Nat /\ budget' \in Budget /\ budget'.commits = budget.commits - 1
    BY DEF Inv, Typed, WorldTyped, Writes, Budget
  <2>2. Len(commits') + budget'.commits <= MaxCommits
    BY <1>3, <1>4, <2>1 DEF Inv, Typed, WorldTyped
  <2>3. cutover' \in 0..Len(commits') + 1
    BY <1>3 DEF Inv, Typed, WorldTyped, Writes
  <2> QED BY <1>3, <2>1, <2>2, <2>3 DEF Inv, Typed, WorldTyped, Writes
<1>6. CallsTyped' /\ ProjectionsTyped' /\ MigrationTyped'
  <2>1. CallsTyped'
    <3>1. 0..Len(commits) \subseteq 0..Len(commits') /\ 1..Len(commits) \cup {Now} \subseteq 1..Len(commits')
      BY <1>3 DEF Now
    <3>2. \A S, T : S \subseteq T => [pc : {"idle", "read", "apply", "finish", "park", "again"}, t : S]
                                    \subseteq [pc : {"idle", "read", "apply", "finish", "park", "again"}, t : T]
      OBVIOUS
    <3>3. call \in [Caller -> [pc : {"idle", "read", "apply", "finish", "park", "again"}, t : 0..Len(commits')]]
      BY <3>1, <3>2 DEF Inv, Typed, CallsTyped
    <3>4. skipped \subseteq 1..Len(commits')
      BY <1>3 DEF Inv, Typed, CallsTyped
    <3> QED BY <3>1, <3>3, <3>4 DEF Inv, Typed, CallsTyped, Writes
  <2>2. ProjectionsTyped'
    <3>1. receipts \subseteq 1..Len(commits) /\ Len(commits') = Len(commits) + 1 /\ Len(commits) \in Nat
      BY <1>3 DEF Inv, Typed, ProjectionsTyped
    <3>2. receipts \subseteq 1..Len(commits')
      BY <3>1
    <3> QED BY <3>2 DEF Inv, Typed, ProjectionsTyped, Writes
  <2>3. MigrationTyped'
    BY DEF Inv, Typed, MigrationTyped, Writes
  <2> QED BY <2>1, <2>2, <2>3
<1>7. WorldSound'
  BY <1>1, <1>3 DEF Inv, Sound, WorldSound, Writes, Exists, Now
<1>8. CallsSound' /\ OffUntilCutover' /\ PointersSound' /\ StampsSound' /\ RunnersSound'
  <2>1. CallsSound'
    BY <1>3 DEF Inv, Sound, CallsSound, Writes, Typed, CallsTyped, Time
  <2>2. OffUntilCutover' /\ RunnersSound' /\ StampsSound'
    BY DEF Inv, Sound, OffUntilCutover, Off, RunnersSound, StampsSound, Writes, Begun
  <2>3. PointersSound'
    BY DEF Inv, Sound, PointersSound, Live, Projected, Writes
  <2> QED BY <2>1, <2>2, <2>3
<1>9. saveEvents \subseteq 1..Len(commits) /\ UNCHANGED saveEvents
  BY DEF Inv, Typed, ProjectionsTyped, Writes
<1>17. Additions' = Additions
  <2>1. \A u \in saveEvents : commits'[u] = commits[u]
    BY <1>3, <1>9
  <2> QED BY <1>9, <2>1 DEF Additions
<1>10. SavesSound'
  BY <1>3, <1>9, <1>17 DEF Inv, Sound, SavesSound, Writes
<1>11. TotalsMatch'
  <2>1. {t \in saveEvents' : commits'[t].kind = "created"} = {t \in saveEvents : commits[t].kind = "created"}
    BY <1>3, <1>9
  <2>2. CountersMatch'
    BY <1>17, <2>1 DEF Inv, TotalsMatch, CountersMatch, Writes
  <2>3. MetadataMatches'
    BY DEF Inv, TotalsMatch, MetadataMatches, Total, Projected, Writes
  <2> QED BY <2>2, <2>3 DEF TotalsMatch
<1>12. ASSUME NEW q \in Pins, q # p PROVE (Reached(q)' <=> Reached(q)) /\ (Agrees(q)' <=> Agrees(q)) /\ (Exists(q)' <=> Exists(q))
  BY <1>12 DEF Reached, Agrees, CityAgrees, SaveAgrees, Contribution, Exists, Visited, Projected, Writes
<1>13. Agreement'
  <2> SUFFICES ASSUME NEW q \in Pins, NEW t \in Time, IsLast(q, t)', Through(t)' PROVE Agrees(q)'
    BY DEF Agreement
  <2>1. Through(t) /\ t <= Len(commits)
    <3>1. Through(t)
      BY DEF Through, Writes
    <3>2. CASE inbox[t].state = "complete"
      BY <3>1, <3>2 DEF Inv, Sound, CallsSound
    <3>3. ASSUME NEW c \in Caller, call[c].t = t PROVE Through(t) /\ t <= Len(commits)
      BY <1>3, <3>1, <3>3 DEF Inv, Typed, CallsTyped
    <3> QED BY <3>1, <3>2, <3>3 DEF Through
  <2>2. q # p
    BY <1>1, <1>3, <2>1 DEF IsLast, Time
  <2>3. IsLast(q, t)
    BY <1>3, <2>1 DEF IsLast, Time
  <2> QED BY <1>12, <2>1, <2>2, <2>3 DEF Inv, Agreement
<1>14. CallsCounted'
  BY DEF Inv, CallsCounted, Counted, Writes
<1>15. NothingDropped'
  BY <1>3 DEF Inv, NothingDropped, Shown, Begun, Writes, Now
<1>16. Covered'
  <2> SUFFICES ASSUME NEW q \in Pins, Due(q)', ~Reached(q)' PROVE Due(q) /\ ~Reached(q)
    BY DEF Inv, Covered, Covers, Writes
  <2>1. q # p
    BY <1>1, <1>3 DEF Due, Old, Writes, Inv, Typed, WorldTyped
  <2>2. Old(q)
    BY <1>3 DEF Due, Old, Writes
  <2> QED BY <1>12, <2>1, <2>2 DEF Due
<1> QED BY <1>5, <1>6, <1>7, <1>8, <1>10, <1>11, <1>13, <1>14, <1>15, <1>16 DEF Inv, Typed, Sound

LEMMA AccountsStep == ASSUME Inv, Accounts PROVE Inv'
<1> USE DEF projections, migration
<1>1. Typed'
  <2>1. WorldTyped'
    BY DEF Inv, Typed, WorldTyped, Accounts
  <2>2. CallsTyped' /\ ProjectionsTyped' /\ MigrationTyped'
    BY DEF Inv, Typed, CallsTyped, ProjectionsTyped, MigrationTyped, Accounts
  <2> QED BY <2>1, <2>2 DEF Typed
<1>2. accounts \in Nat /\ account \in Nat
  BY AccountingConstants DEF Inv, Typed, WorldTyped, Acc
<1>3. \A p \in Pins : head[p].acc \in Nat /\ \A h \in Time : metaPin[p][h].acc \in Nat
  BY AccountingConstants DEF Inv, Typed, ProjectionsTyped, Acc
<1>4. \/ account' = account /\ accounts' = accounts
      \/ account' = 0 /\ accounts' = accounts
      \/ account' = accounts + 1 /\ accounts' = accounts + 1
  BY DEF Accounts
<1>5. ASSUME NEW p \in Pins, Projected(p)' PROVE Projected(p) /\ account' = account
  BY <1>2, <1>3, <1>4, <1>5 DEF Projected, Inv, Sound, PointersSound, Accounts
<1>14. Additions' = Additions
  BY DEF Additions, Accounts
<1>6. WorldSound' /\ CallsSound' /\ OffUntilCutover' /\ SavesSound' /\ RunnersSound'
  BY <1>14 DEF Inv, Sound, WorldSound, CallsSound, OffUntilCutover, Off, Begun, Exists, SavesSound, RunnersSound, Accounts
<1>7. PointersSound'
  <2> SUFFICES ASSUME NEW p \in Pins
               PROVE  /\ head[p].acc <= accounts' /\ (head[p].acc = 0 => head[p].gen = 0)
                      /\ \A h \in Time : metaPin[p][h].acc <= accounts'
                      /\ account' # 0 => \A h \in Time : Live(p, h)' <=> Projected(p)' /\ head[p].gen = h
                      /\ account' # 0 /\ Projected(p)' => metaPin[p][head[p].gen].city \in Cities
    BY DEF PointersSound, Accounts
  <2>1. head[p].acc <= accounts' /\ (head[p].acc = 0 => head[p].gen = 0) /\ \A h \in Time : metaPin[p][h].acc <= accounts'
    BY <1>2, <1>3, <1>4 DEF Inv, Sound, PointersSound
  <2>2. CASE account' = account
    BY <2>1, <2>2 DEF Inv, Sound, PointersSound, Live, Projected, Accounts
  <2>3. CASE account' = accounts + 1
    <3>1. ~Projected(p)' /\ \A h \in Time : ~Live(p, h)'
      BY <1>2, <1>3, <2>3 DEF Inv, Sound, PointersSound, Live, Projected, Accounts
    <3> QED BY <2>1, <3>1
  <2> QED BY <1>4, <2>1, <2>2, <2>3
<1>8. StampsSound'
  <2>1. summary.acc \in Nat /\ \A c \in Cities : bucket[c].acc \in Nat
    BY AccountingConstants DEF Inv, Typed, ProjectionsTyped, Acc
  <2> QED BY <1>2, <1>4, <2>1 DEF Inv, Sound, StampsSound, Accounts
<1>9. TotalsMatch'
  <2>1. CountersMatch'
    BY <1>14 DEF Inv, TotalsMatch, CountersMatch, Accounts
  <2>2. MetadataMatches'
    <3>1. CASE account' = account
      BY <3>1 DEF Inv, TotalsMatch, MetadataMatches, Total, Projected, Accounts
    <3>2. CASE account' = accounts + 1
      <4>1. \A p \in Pins : ~Projected(p)'
        BY <1>2, <1>3, <3>2 DEF Inv, Sound, PointersSound, Projected, Accounts
      <4>2. Total(summary)' = 0 /\ \A c \in Cities : Total(bucket[c])' = 0
        <5>1. summary.acc \in Nat /\ \A c \in Cities : bucket[c].acc \in Nat
          BY AccountingConstants DEF Inv, Typed, ProjectionsTyped, Acc
        <5> QED BY <1>2, <3>2, <5>1 DEF Inv, Sound, StampsSound, Total, Accounts
      <4>3. {p \in Pins : Projected(p)'} = {}
            /\ \A c \in Cities : {p \in Pins : Projected(p)' /\ (metaPin[p][head[p].gen].city = c)'} = {}
        BY <4>1
      <4> QED BY <4>2, <4>3, FS_EmptySet DEF MetadataMatches, Accounts
    <3> QED BY <1>4, <3>1, <3>2 DEF MetadataMatches
  <2> QED BY <2>1, <2>2 DEF TotalsMatch
<1>10. \A p \in Pins : (Reached(p)' <=> Reached(p)) /\ (Agrees(p) => Agrees(p)')
  <2> SUFFICES ASSUME NEW p \in Pins PROVE (Reached(p)' <=> Reached(p)) /\ (Agrees(p) => Agrees(p)')
    OBVIOUS
  <2>1. Reached(p)' <=> Reached(p)
    BY DEF Reached, Contribution, Exists, Visited, Accounts
  <2>2. CityAgrees(p) => CityAgrees(p)'
    BY <1>5 DEF CityAgrees, Accounts
  <2>3. SaveAgrees(p) => SaveAgrees(p)'
    BY DEF SaveAgrees, Exists, Accounts
  <2> QED BY <2>1, <2>2, <2>3 DEF Agrees
<1>11. Agreement'
  BY <1>10 DEF Inv, Agreement, IsLast, Through, Accounts
<1>12. CallsCounted' /\ NothingDropped'
  BY DEF Inv, CallsCounted, Counted, NothingDropped, Shown, Begun, Accounts
<1>13. Covered'
  BY <1>10 DEF Inv, Covered, Covers, Due, Old, Exists, Accounts
<1> QED BY <1>1, <1>6, <1>7, <1>8, <1>9, <1>11, <1>12, <1>13 DEF Inv, Sound

\* The capture is switched on for the first time.
LEMMA CaptureStep == ASSUME Inv, InitializeCapture, ~Begun, UNCHANGED migration PROVE Inv'
<1> USE DEF InitializeCapture, world, projections, migration
<1>8. cutover' = Now /\ capturing' = TRUE /\ Additions' = Additions
  BY DEF Begun, Additions
<1>0. Off /\ Len(commits) \in Nat
  BY DEF Inv, Sound, OffUntilCutover, Begun, Typed, WorldTyped
<1>1. Typed'
  <2>1. WorldTyped'
    BY <1>0, <1>8 DEF Inv, Typed, WorldTyped, Now
  <2>2. CallsTyped' /\ ProjectionsTyped' /\ MigrationTyped'
    BY DEF Inv, Typed, CallsTyped, ProjectionsTyped, MigrationTyped
  <2> QED BY <2>1, <2>2 DEF Typed
<1>2. Sound'
  <2>1. WorldSound' /\ CallsSound' /\ SavesSound' /\ RunnersSound' /\ StampsSound'
    BY <1>8 DEF Inv, Sound, WorldSound, CallsSound, SavesSound, RunnersSound, StampsSound, Exists
  <2>2. OffUntilCutover'
    BY <1>0, <1>8 DEF OffUntilCutover, Begun, Now
  <2>3. PointersSound'
    BY DEF Inv, Sound, PointersSound, Live, Projected
  <2> QED BY <2>1, <2>2, <2>3 DEF Sound
<1>3. TotalsMatch'
  <2>1. CountersMatch'
    BY <1>0, <1>8 DEF Inv, TotalsMatch, CountersMatch, Off
  <2>2. MetadataMatches'
    BY DEF Inv, TotalsMatch, MetadataMatches, Total, Projected
  <2> QED BY <2>1, <2>2 DEF TotalsMatch
<1>4. Agreement'
  BY DEF Inv, Agreement, IsLast, Through, Agrees, Reached, CityAgrees, SaveAgrees, Contribution, Exists, Visited, Projected
<1>5. CallsCounted'
  BY <1>0 DEF CallsCounted, Off
<1>6. NothingDropped'
  BY <1>0, <1>8 DEF NothingDropped, Now
<1>7. Covered'
  BY <1>0 DEF Covered, Off, Covers
<1> QED BY <1>1, <1>2, <1>3, <1>4, <1>5, <1>6, <1>7 DEF Inv

\* Where only calls and inbox move, the rest of the invariant stays.
LEMMA QuietStep == ASSUME Inv, CallsMove({}), UNCHANGED <<projections, migration>> PROVE Inv'
<1> USE DEF projections, migration, world, CallsMove
<1>6. Additions' = Additions
  BY DEF Additions
<1>1. Typed'
  <2>1. WorldTyped'
    BY DEF Inv, Typed, WorldTyped
  <2>2. ProjectionsTyped' /\ MigrationTyped'
    BY DEF Inv, Typed, ProjectionsTyped, MigrationTyped
  <2> QED BY <2>1, <2>2 DEF Typed
<1>2. Sound'
  <2>1. WorldSound' /\ SavesSound' /\ RunnersSound' /\ StampsSound'
    BY <1>6 DEF Inv, Sound, WorldSound, SavesSound, RunnersSound, StampsSound, Exists
  <2>2. OffUntilCutover'
    BY DEF Inv, Sound, OffUntilCutover, Off, Begun
  <2>3. PointersSound'
    BY DEF Inv, Sound, PointersSound, Live, Projected
  <2> QED BY <2>1, <2>2, <2>3 DEF Sound
<1>3. TotalsMatch'
  BY <1>6 DEF Inv, TotalsMatch, CountersMatch, MetadataMatches, Total, Projected
<1>4. Agreement'
  BY DEF Inv, Agreement, IsLast, Agrees, Reached, CityAgrees, SaveAgrees, Contribution, Exists, Visited, Projected
<1>5. Covered'
  BY DEF Inv, Covered, Covers, Due, Old, Reached, Contribution, Exists, Visited
<1> QED BY <1>1, <1>2, <1>3, <1>4, <1>5 DEF Inv

-----------------------------------------------------------------------------
(* The calls *)

LEMMA CommitsInTime == ASSUME Inv PROVE 1..Len(commits) \subseteq Time /\ Len(commits) \in Nat
<1>1. Len(commits) \in Nat /\ budget.commits \in Nat /\ Len(commits) + budget.commits <= MaxCommits
  BY DEF Inv, Typed, WorldTyped, Budget
<1> QED BY <1>1, AccountingConstants DEF Time

\* What a call is at is a commit that is there.
LEMMA CallAt ==
  ASSUME Inv, NEW c \in Caller, call[c].pc # "idle"
  PROVE  /\ call[c].t \in Time /\ call[c].t \in 1..Len(commits) /\ Len(commits) \in Nat
         /\ commits[call[c].t] \in Commit /\ Begun
<1>1. call[c].t \in 1..Len(commits) /\ Len(commits) \in Nat /\ commits \in Seq(Commit)
  BY DEF Inv, Typed, WorldTyped, CallsTyped, Sound, CallsSound
<1>2. Len(commits) <= MaxCommits /\ MaxCommits \in Nat
  BY <1>1, AccountingConstants DEF Inv, Typed, WorldTyped, Budget
<1>3. Begun
  BY DEF Inv, Sound, OffUntilCutover, Off
<1>4. commits[call[c].t] \in Commit
  BY <1>1
<1> QED BY <1>1, <1>2, <1>3, <1>4 DEF Time

States == {"none", "pending", "awaiting_account", "needs_review", "complete"}
Steps  == {"idle", "read", "apply", "finish", "park", "again"}

\* A call goes idle or on to a step that owes no receipt.
CallGoes(c, t) ==
  \/ call' = [call EXCEPT ![c] = Idle]
  \/ \E x \in {"apply", "park", "again"} :
       call' = [call EXCEPT ![c] = [pc |-> x, t |-> t]] /\ (x = "again" => Counted(t))

\* The record of a commit comes to say complete only when it is through and counted.
InboxGoes(t) ==
  \/ inbox' = inbox
  \/ \E s \in States \ {"none"}, n \in Nat :
       /\ inbox' = [inbox EXCEPT ![t] = [state |-> s, attempts |-> n]]
       /\ n >= inbox[t].attempts /\ (s = "pending" => n > 0)
       /\ s = "complete" => Through(t) /\ Counted(t)

\* A delivery is acknowledged only when it is counted or shown, or skipped.
AckGoes(t) == /\ skipped' \in {skipped, skipped \cup {t}}
              /\ \/ unacked' = unacked
                 \/ unacked' = unacked \ {t} /\ (Counted(t) \/ Shown(t)' \/ t \in skipped')

LEMMA OneCallMoves ==
  ASSUME Inv, NEW c \in Caller, call[c].pc # "idle", NEW t, t = call[c].t,
         UNCHANGED <<world, tombstone, cutover, capturing, receipts>>, budget' \in Budget, budget'.commits = budget.commits,
         CallGoes(c, t), InboxGoes(t), AckGoes(t), repair' \in [on : BOOLEAN, cursor : Gen, review : BOOLEAN]
  PROVE  CallsMove({})
<1> USE DEF world
<1>1. t \in Time /\ t \in 1..Len(commits) /\ Begun /\ Len(commits) \in Nat
  BY CallAt
<1>2. /\ inbox \in [Time -> [state : States, attempts : Nat]]
      /\ call \in [Caller -> [pc : Steps, t : 0..Len(commits)]]
  BY DEF Inv, Typed, CallsTyped, States, Steps
<1>3. /\ call' \in [Caller -> [pc : Steps, t : 0..Len(commits)]]
      /\ \A d \in Caller \ {c} : call'[d] = call[d]
      /\ call'[c].pc \in {"idle", "apply", "park", "again"} /\ (call'[c].pc # "idle" => call'[c].t = t)
      /\ call'[c].pc = "again" => Counted(t)
  <2>1. PICK r \in [pc : Steps, t : 0..Len(commits)] :
              /\ call' = [call EXCEPT ![c] = r]
              /\ r.pc \in {"idle", "apply", "park", "again"} /\ (r.pc # "idle" => r.t = t)
              /\ r.pc = "again" => Counted(t)
    <3>1. CASE call' = [call EXCEPT ![c] = Idle]
      <4>1. Idle \in [pc : Steps, t : 0..Len(commits)] /\ Idle.pc = "idle"
        BY <1>1 DEF Idle, Steps
      <4> QED BY <3>1, <4>1
    <3>2. ASSUME NEW x \in {"apply", "park", "again"}, call' = [call EXCEPT ![c] = [pc |-> x, t |-> t]],
                 x = "again" => Counted(t)
          PROVE  \E r \in [pc : Steps, t : 0..Len(commits)] :
                   /\ call' = [call EXCEPT ![c] = r]
                   /\ r.pc \in {"idle", "apply", "park", "again"} /\ (r.pc # "idle" => r.t = t)
                   /\ r.pc = "again" => Counted(t)
      <4>1. [pc |-> x, t |-> t] \in [pc : Steps, t : 0..Len(commits)]
        BY <1>1 DEF Steps
      <4> QED BY <3>2, <4>1
    <3> QED BY <3>1, <3>2 DEF CallGoes
  <2> QED BY <1>2, <2>1
<1>4. /\ inbox' \in [Time -> [state : States, attempts : Nat]]
      /\ \A u \in Time \ {t} : inbox'[u] = inbox[u]
      /\ \/ inbox'[t] = inbox[t]
         \/ /\ inbox'[t].state # "none" /\ inbox'[t].attempts >= inbox[t].attempts
            /\ inbox'[t].state = "complete" => Through(t) /\ Counted(t)
            /\ inbox'[t].state = "pending" => inbox'[t].attempts > 0
  <2>1. CASE inbox' = inbox
    BY <1>2, <2>1
  <2>2. ASSUME NEW s \in States \ {"none"}, NEW n \in Nat,
               inbox' = [inbox EXCEPT ![t] = [state |-> s, attempts |-> n]]
        PROVE  /\ inbox' \in [Time -> [state : States, attempts : Nat]]
               /\ \A u \in Time \ {t} : inbox'[u] = inbox[u]
               /\ inbox'[t].state = s /\ inbox'[t].attempts = n
    BY <1>1, <1>2, <2>2
  <2> QED BY <2>1, <2>2 DEF InboxGoes
<1>5. CallsTyped'
  BY <1>1, <1>3, <1>4 DEF CallsTyped, Inv, Typed, States, Steps, AckGoes
<1>6. CallsSound'
  <2>1. \A u \in Time : inbox'[u].state # "none" => u <= Len(commits)
    BY <1>1, <1>4 DEF CallsSound, Inv, Sound
  <2>2. ASSUME NEW d \in Caller, call'[d].pc # "idle" PROVE call'[d].t # 0
    <3>1. CASE d = c
      BY <1>1, <1>3, <2>2, <3>1
    <3>2. CASE d # c
      BY <1>3, <2>2, <3>2 DEF CallsSound, Inv, Sound
    <3> QED BY <3>1, <3>2
  <2> QED BY <2>1, <2>2 DEF CallsSound
<1>7. CallsCounted'
  <2>1. ASSUME NEW u \in Time, inbox'[u].state = "complete" PROVE Counted(u)
    BY <1>4, <2>1 DEF CallsCounted, Inv
  <2>2. ASSUME NEW d \in Caller, call'[d].pc \in {"finish", "again"} PROVE Counted(call'[d].t)
    <3>1. CASE d = c
      BY <1>3, <2>2, <3>1
    <3>2. CASE d # c
      BY <1>3, <2>2, <3>2 DEF CallsCounted, Inv
    <3> QED BY <3>1, <3>2
  <2> QED BY <2>1, <2>2 DEF CallsCounted, Counted
<1>8. ASSUME NEW u \in 1..Len(commits), u >= cutover, u \notin unacked' PROVE u \in receipts \/ Shown(u)' \/ u \in skipped'
  <2>1. CASE u \in unacked
    BY <1>8, <2>1 DEF Counted, AckGoes
  <2>2. CASE u \notin unacked /\ u # t
    <3>1. u \in Time
      BY CommitsInTime
    <3> QED BY <1>1, <1>4, <1>8, <2>2, <3>1 DEF Inv, NothingDropped, Shown, AckGoes, Begun
  <2>3. CASE u \notin unacked /\ u = t
    <3>1. u \in receipts \/ Shown(u) \/ u \in skipped'
      BY <1>1, <1>8, <2>3 DEF Inv, NothingDropped, Begun, AckGoes
    <3> QED BY <1>1, <1>2, <1>4, <1>8, <2>3, <3>1 DEF Shown, Counted, States
  <2> QED BY <2>1, <2>2, <2>3
<1>9. NothingDropped'
  BY <1>8 DEF NothingDropped
<1>10. \A u \in Time : Through(u)' => Through(u)
  <2> SUFFICES ASSUME NEW u \in Time, Through(u)' PROVE Through(u)
    OBVIOUS
  <2>1. CASE inbox'[u].state = "complete"
    BY <1>4, <2>1 DEF Through
  <2>2. ASSUME NEW d \in Caller, call'[d].pc = "finish", call'[d].t = u PROVE Through(u)
    BY <1>3, <2>2 DEF Through
  <2> QED BY <2>1, <2>2 DEF Through
<1> QED BY <1>1, <1>5, <1>6, <1>7, <1>9, <1>10 DEF CallsMove, Inv, Typed, WorldTyped

LEMMA NextUnfolds == Next <=>
  \/ \E p \in Pins : CreatePin(p) \/ UpdatePin(p) \/ DeletePin(p) \/ WriteVisit(p)
  \/ CreateUser \/ DeleteUser \/ \E g \in buried : Bury(g)
  \/ InitializeCapture \/ PauseCapture \/ RepairStarts \/ RepairNext
  \/ \E c \in Caller : Read(c) \/ Apply(c) \/ Finish(c) \/ Park(c) \/ Again(c) \/ Fails(c) \/ Dies(c)
  \/ \E c \in Trigger, t \in Time : Capture(c, t)
  BY DEF Next, Owner, Operator, Step

\* Return and Throw: the call is over; what it did not do for the tool it may
\* acknowledge.
LEMMA CallEnds ==
  ASSUME Inv, NEW c \in Caller, call[c].pc # "idle", (\E done \in BOOLEAN : Return(c, done)) \/ Throw(c)
  PROVE  /\ call' = [call EXCEPT ![c] = Idle]
         /\ unacked' \in {unacked, unacked \ {call[c].t}}
         /\ repair' \in [on : BOOLEAN, cursor : Gen, review : BOOLEAN]
<1>1. call[c].t \in Gen /\ repair \in [on : BOOLEAN, cursor : Gen, review : BOOLEAN]
  BY CallAt, AccountingConstants DEF Inv, Typed, CallsTyped, Time, Gen
<1>2. /\ call' = [call EXCEPT ![c] = Idle]
      /\ unacked' \in {unacked, unacked \ {call[c].t}}
      /\ repair' \in {repair, [repair EXCEPT !.cursor = call[c].t], [repair EXCEPT !.on = FALSE]}
  BY DEF Return, Throw
<1> QED BY <1>1, <1>2

LEMMA GotoIs ==
  ASSUME Inv, NEW c \in Caller, NEW x, Goto(c, x)
  PROVE  call' = [call EXCEPT ![c] = [pc |-> x, t |-> call[c].t]]
<1>1. call[c] \in [pc : Steps, t : 0..Len(commits)]
  BY DEF Inv, Typed, CallsTyped, Steps
<1>2. [call[c] EXCEPT !.pc = x] = [pc |-> x, t |-> call[c].t]
  BY <1>1
<1>3. call' = [call EXCEPT ![c] = [call[c] EXCEPT !.pc = x]]
  BY DEF Goto
<1> QED BY <1>2, <1>3

LEMMA CallStep ==
  ASSUME Inv, NEW c \in Caller,
         Read(c) \/ Finish(c) \/ Park(c) \/ Fails(c) \/ Dies(c) \/ ((Apply(c) \/ Again(c)) /\ ~(Enabled /\ Active))
  PROVE  CallsMove({}) /\ UNCHANGED projections
<1>0. PICK t : t = call[c].t
  OBVIOUS
<1>1. call[c].pc # "idle"
  BY DEF Read, Finish, Park, Fails, Dies, Apply, Again, At
<1>2. t \in Time /\ Begun /\ t <= Len(commits)
  BY <1>0, <1>1, CallAt
<1>3. inbox[t] \in [state : States, attempts : Nat] /\ repair \in [on : BOOLEAN, cursor : Gen, review : BOOLEAN]
      /\ inbox \in [Time -> [state : States, attempts : Nat]]
  BY <1>2 DEF Inv, Typed, CallsTyped, States
<1>4. UNCHANGED projections /\ UNCHANGED <<world, tombstone, cutover, capturing, receipts>>
  BY DEF Read, Finish, Park, Fails, Dies, Apply, Again, projections
<1>5. budget' \in Budget /\ budget'.commits = budget.commits
  <2>1. budget \in Budget
    BY DEF Inv, Typed, WorldTyped
  <2>2. CASE Costs
    BY <2>1, <2>2 DEF Costs, Budget
  <2> QED BY <2>1, <2>2 DEF Read, Finish, Park, Fails, Dies, Apply, Again
<1>6. ASSUME NEW s
      PROVE  [inbox EXCEPT ![t].state = s] = [inbox EXCEPT ![t] = [state |-> s, attempts |-> inbox[t].attempts]]
  <2>1. [inbox[t] EXCEPT !.state = s] = [state |-> s, attempts |-> inbox[t].attempts]
    BY <1>3
  <2> QED BY <2>1
<1>7. CallGoes(c, t) /\ repair' \in [on : BOOLEAN, cursor : Gen, review : BOOLEAN]
  <2>1. CASE (\E done \in BOOLEAN : Return(c, done)) \/ Throw(c)
    BY <1>1, <2>1, CallEnds DEF CallGoes
  <2>2. CASE Read(c) /\ inbox[t].state = "complete" /\ Goto(c, "again") /\ UNCHANGED repair
    <3>1. Counted(t)
      BY <1>2, <2>2 DEF Inv, CallsCounted
    <3> QED BY <1>0, <1>3, <2>2, <3>1, GotoIs DEF CallGoes
  <2>3. CASE (Goto(c, "apply") \/ Goto(c, "park")) /\ UNCHANGED repair
    BY <1>0, <1>3, <2>3, GotoIs DEF CallGoes
  <2> QED BY <1>0, <2>1, <2>2, <2>3 DEF Read, Finish, Park, Fails, Dies, Apply, Again
<1>8. InboxGoes(t)
  <2>0. ASSUME NEW s \in States \ {"none", "pending"}, s = "complete" => Through(t) /\ Counted(t),
               inbox' = [inbox EXCEPT ![t] = [state |-> s, attempts |-> inbox[t].attempts]]
        PROVE  InboxGoes(t)
    <3>1. PICK n \in Nat : n = inbox[t].attempts
      BY <1>3
    <3>2. /\ inbox' = [inbox EXCEPT ![t] = [state |-> s, attempts |-> n]]
          /\ s \in States \ {"none"} /\ n >= inbox[t].attempts /\ (s = "pending" => n > 0)
      BY <1>3, <2>0, <3>1
    <3> QED BY <2>0, <3>2 DEF InboxGoes
  <2>1. CASE Finish(c)
    <3>1. Through(t) /\ Counted(t)
      BY <1>0, <2>1 DEF Finish, At, Through, Inv, CallsCounted
    <3>2. inbox' = [inbox EXCEPT ![t] = [state |-> "complete", attempts |-> inbox[t].attempts]]
      BY <1>0, <1>6, <2>1 DEF Finish, States
    <3> QED BY <2>0, <3>1, <3>2 DEF States
  <2>2. CASE Park(c)
    <3>1. inbox' = [inbox EXCEPT ![t] = [state |-> "awaiting_account", attempts |-> inbox[t].attempts]]
      BY <1>0, <1>6, <2>2 DEF Park, States
    <3>2. "awaiting_account" \in States \ {"none", "pending"} /\ "awaiting_account" # "complete"
      BY DEF States
    <3> QED BY <2>0, <3>1, <3>2
  <2>3. CASE Fails(c) /\ inbox[t].state # "complete"
    <3> DEFINE n == inbox[t].attempts + 1
               s == IF n >= MAX_ATTEMPTS THEN "needs_review" ELSE "pending"
    <3>1. inbox' = [inbox EXCEPT ![t] = [state |-> s, attempts |-> n]]
      BY <1>0, <2>3 DEF Fails
    <3>2. n \in Nat /\ n >= inbox[t].attempts /\ n > 0 /\ s \in States \ {"none"} /\ s # "complete"
      BY <1>3 DEF States
    <3> HIDE DEF n, s
    <3> QED BY <3>1, <3>2 DEF InboxGoes
  <2>4. CASE UNCHANGED inbox
    BY <2>4 DEF InboxGoes
  <2> QED BY <1>0, <2>1, <2>2, <2>3, <2>4 DEF Read, Fails, Dies, Apply, Again
<1>9. AckGoes(t)
  <2>0. skipped' \in {skipped, skipped \cup {t}}
    BY <1>0 DEF Read, Finish, Park, Fails, Dies, Apply, Again
  <2>1. CASE UNCHANGED unacked
    BY <2>0, <2>1 DEF AckGoes
  <2>2. ASSUME unacked' # unacked PROVE unacked' = unacked \ {t} /\ (Counted(t) \/ Shown(t)' \/ t \in skipped')
    <3>1. /\ unacked' = unacked \ {t}
          /\ \E done \in BOOLEAN : Return(c, done)
      BY <1>0, <2>2 DEF Read, Finish, Park, Fails, Dies, Apply, Again, Return, Throw
    <3> SUFFICES Counted(t) \/ Shown(t)' \/ t \in skipped'
      BY <3>1
    <3>2. CASE Read(c)
      BY <1>0, <1>2, <2>2, <3>2 DEF Read, Shown, Inv, CallsCounted
    <3>3. CASE Finish(c) \/ Again(c)
      BY <1>0, <3>3 DEF Finish, Again, At, Inv, CallsCounted
    <3>4. CASE Park(c)
      BY <1>0, <1>2, <1>3, <3>4 DEF Park, Shown
    <3>5. CASE Fails(c)
      <4>1. inbox[t].state # "complete" /\ inbox[t].attempts + 1 >= MAX_ATTEMPTS
        BY <1>0, <2>2, <3>5 DEF Fails, Throw
      <4>2. inbox' = [inbox EXCEPT ![t] = [state |-> "needs_review", attempts |-> inbox[t].attempts + 1]]
        BY <1>0, <3>5, <4>1 DEF Fails
      <4>3. inbox'[t].state = "needs_review"
        BY <1>2, <1>3, <4>2
      <4> QED BY <4>3 DEF Shown
    <3>6. CASE Apply(c) /\ ~Enabled
      BY <1>0, <2>2, <3>6 DEF Apply, Return
    <3> QED BY <2>2, <3>2, <3>3, <3>4, <3>5, <3>6 DEF Dies, Throw, Apply
  <2> QED BY <2>0, <2>1, <2>2 DEF AckGoes
<1> QED BY <1>0, <1>1, <1>4, <1>5, <1>7, <1>8, <1>9, OneCallMoves

\* What a bound allows is in the bound afterwards.
LEMMA BudgetSpent ==
  ASSUME budget \in Budget
  PROVE  /\ budget.repeats > 0 => [budget EXCEPT !.repeats = @ - 1] \in Budget
         /\ budget.repairs > 0 => [budget EXCEPT !.repairs = @ - 1] \in Budget
         /\ budget.runs > 0 => [budget EXCEPT !.runs = @ - 1] \in Budget
         /\ budget.accounts > 0 => [budget EXCEPT !.accounts = @ - 1] \in Budget
         /\ budget.pauses > 0 => [budget EXCEPT !.pauses = @ - 1] \in Budget
         /\ budget.commits > 0 => [budget EXCEPT !.commits = @ - 1] \in Budget
         /\ [budget EXCEPT !.pauses = @ - 1].commits = budget.commits
         /\ [budget EXCEPT !.repeats = @ - 1].commits = budget.commits
         /\ [budget EXCEPT !.repairs = @ - 1].commits = budget.commits
         /\ [budget EXCEPT !.runs = @ - 1].commits = budget.commits
         /\ [budget EXCEPT !.accounts = @ - 1].commits = budget.commits
         /\ [budget EXCEPT !.commits = @ - 1].commits = budget.commits - 1
<1>1. budget.commits > 0 => [budget EXCEPT !.commits = @ - 1] \in Budget
  BY AccountingConstants DEF Budget
<1>2. budget.repeats > 0 => [budget EXCEPT !.repeats = @ - 1] \in Budget
  BY DEF Budget
<1>3. budget.repairs > 0 => [budget EXCEPT !.repairs = @ - 1] \in Budget
  BY DEF Budget
<1>4. budget.runs > 0 => [budget EXCEPT !.runs = @ - 1] \in Budget
  BY DEF Budget
<1>5. budget.accounts > 0 => [budget EXCEPT !.accounts = @ - 1] \in Budget
  BY DEF Budget
<1>7. budget.pauses > 0 => [budget EXCEPT !.pauses = @ - 1] \in Budget
  BY DEF Budget
<1>6. /\ [budget EXCEPT !.repeats = @ - 1].commits = budget.commits
      /\ [budget EXCEPT !.pauses = @ - 1].commits = budget.commits
      /\ [budget EXCEPT !.repairs = @ - 1].commits = budget.commits
      /\ [budget EXCEPT !.runs = @ - 1].commits = budget.commits
      /\ [budget EXCEPT !.accounts = @ - 1].commits = budget.commits
      /\ [budget EXCEPT !.commits = @ - 1].commits = budget.commits - 1
  BY DEF Budget
<1> QED BY <1>1, <1>2, <1>3, <1>4, <1>5, <1>6, <1>7

LEMMA InboxStep ==
  ASSUME Inv, RepairStarts \/ RepairNext \/ \E c \in Trigger, t \in Time : Capture(c, t)
  PROVE  CallsMove({}) /\ UNCHANGED projections
<1> USE DEF CallsMove
<1>4. capturing \in BOOLEAN /\ (capturing => cutover # 0) /\ skipped \subseteq 1..Len(commits)
  BY DEF Inv, Typed, WorldTyped, CallsTyped
<1>0. /\ budget \in Budget /\ inbox \in [Time -> [state : States, attempts : Nat]]
      /\ call \in [Caller -> [pc : Steps, t : 0..Len(commits)]] /\ unacked \subseteq 1..Len(commits)
      /\ repair \in [on : BOOLEAN, cursor : Gen, review : BOOLEAN]
  BY DEF Inv, Typed, WorldTyped, CallsTyped, States, Steps
<1>1. CASE RepairStarts
  <2>1. UNCHANGED <<world, tombstone, control, inbox, unacked, call, projections, commits, receipts>>
        /\ repair' \in [on : BOOLEAN, cursor : Gen, review : BOOLEAN]
    BY <1>1, AccountingConstants DEF RepairStarts, world, projections, Gen
  <2>2. budget' \in Budget /\ budget'.commits = budget.commits
    BY <1>0, <1>1, BudgetSpent DEF RepairStarts
  <2> QED BY <1>4, <2>1, <2>2 DEF Inv, Typed, CallsTyped, Sound, CallsSound, CallsCounted, Counted, NothingDropped, Shown,
                         Through, OffUntilCutover, Off, Begun
<1>2. CASE RepairNext
  <2>1. UNCHANGED <<world, tombstone, control, inbox, unacked, projections, commits, receipts, budget>>
    BY <1>2 DEF RepairNext, world, projections
  <2>2. \/ call' = call
        \/ \E t \in Time : inbox[t].state # "none" /\ call' = [call EXCEPT ![Tool] = [pc |-> "read", t |-> t]]
    BY <1>2 DEF RepairNext, Scanned
  <2>5. repair' \in [on : BOOLEAN, cursor : Gen, review : BOOLEAN]
    <3>1. \/ repair' = repair \/ repair' = [repair EXCEPT !.on = FALSE]
          \/ \E t \in Time : repair' = [repair EXCEPT !.cursor = t]
      BY <1>2 DEF RepairNext, Scanned
    <3>2. Time \subseteq Gen
      BY AccountingConstants DEF Time, Gen
    <3> QED BY <1>0, <3>1, <3>2
  <2>3. CASE call' = call
    BY <1>0, <1>4, <2>1, <2>5, <2>3 DEF Inv, Typed, CallsTyped, Sound, CallsSound, CallsCounted, Counted, NothingDropped, Shown,
                            Through, OffUntilCutover, Off, Begun
  <2>4. ASSUME NEW t \in Time, inbox[t].state # "none", call' = [call EXCEPT ![Tool] = [pc |-> "read", t |-> t]]
        PROVE  CallsMove({})
    <3>1. Begun /\ t \in 0..Len(commits) /\ t # 0
      BY <2>4, CommitsInTime DEF Inv, Sound, OffUntilCutover, Off, CallsSound, Time
    <3>2. /\ call' \in [Caller -> [pc : Steps, t : 0..Len(commits)]]
          /\ \A d \in Caller \ {Tool} : call'[d] = call[d]
          /\ call'[Tool].pc = "read" /\ call'[Tool].t = t
      <4>1. [pc |-> "read", t |-> t] \in [pc : Steps, t : 0..Len(commits)] /\ Tool \in Caller
        BY <3>1 DEF Steps, Caller
      <4> QED BY <1>0, <2>4, <4>1
    <3>3. CallsTyped'
      BY <2>1, <2>5, <3>2 DEF Inv, Typed, CallsTyped, Steps
    <3>4. CallsSound' /\ CallsCounted'
      BY <2>1, <3>1, <3>2 DEF Inv, Sound, CallsSound, CallsCounted, Counted
    <3>5. NothingDropped' /\ \A u \in Time : Through(u)' => Through(u)
      BY <2>1, <3>2 DEF Inv, NothingDropped, Shown, Through, Begun
    <3> QED BY <1>0, <1>4, <2>1, <3>1, <3>3, <3>4, <3>5
  <2> QED BY <2>1, <2>2, <2>3, <2>4
<1>3. ASSUME NEW c \in Trigger, NEW t \in Time, Capture(c, t) PROVE CallsMove({}) /\ UNCHANGED projections
  <2>1. UNCHANGED <<world, tombstone, cutover, capturing, repair, projections, commits, receipts>>
        /\ c \in Caller /\ t \in 1..Len(commits) /\ Len(commits) \in Nat
    BY <1>3, CommitsInTime DEF Capture, world, projections, Caller, Time
  <2>2. budget' \in Budget /\ budget'.commits = budget.commits
    BY <1>0, <1>3, BudgetSpent DEF Capture
  <2>3. CASE inbox[t].state = "none" /\ ~Enabled
    <3>1. UNCHANGED <<inbox, call>> /\ unacked' = unacked \ {t} /\ skipped' = skipped \cup {t}
      BY <1>3, <2>3 DEF Capture
    <3>2. NothingDropped'
      <4> SUFFICES ASSUME cutover # 0, NEW u \in 1..Len(commits), u >= cutover, u \notin unacked'
                   PROVE  u \in receipts \/ Shown(u)' \/ u \in skipped'
        BY <2>1 DEF NothingDropped, world
      <4>1. CASE u = t
        BY <3>1, <4>1
      <4>2. CASE u # t
        BY <3>1, <4>2 DEF Inv, NothingDropped, Shown
      <4> QED BY <4>1, <4>2
    <3> QED BY <1>4, <2>1, <2>2, <3>1, <3>2 DEF Inv, Typed, CallsTyped, Sound, CallsSound, CallsCounted, Counted,
                            Through, OffUntilCutover, Off, Begun
  <2>4. CASE inbox[t].state # "none" \/ Enabled
    <3>1. /\ call' = [call EXCEPT ![c] = [pc |-> "read", t |-> t]]
          /\ inbox' = IF inbox[t].state = "none" THEN [inbox EXCEPT ![t].state = "pending"] ELSE inbox
          /\ unacked' = unacked /\ skipped' = skipped
      BY <1>3, <2>4 DEF Capture
    <3>2. /\ call' \in [Caller -> [pc : Steps, t : 0..Len(commits)]]
          /\ \A d \in Caller \ {c} : call'[d] = call[d]
          /\ call'[c].pc = "read" /\ call'[c].t = t
      <4>1. [pc |-> "read", t |-> t] \in [pc : Steps, t : 0..Len(commits)]
        BY <2>1 DEF Steps
      <4> QED BY <1>0, <2>1, <3>1, <4>1
    <3>3. /\ inbox' \in [Time -> [state : States, attempts : Nat]]
          /\ \A u \in Time : \/ inbox'[u] = inbox[u]
                             \/ /\ u = t /\ inbox[u].state = "none" /\ inbox'[u].state = "pending"
                                /\ inbox'[u].attempts = inbox[u].attempts
      BY <1>0, <3>1 DEF States
    <3>4. CallsTyped'
      BY <1>0, <1>4, <2>1, <3>1, <3>2, <3>3 DEF CallsTyped, States, Steps
    <3>5. CallsSound' /\ CallsCounted'
      <4>1. CallsSound'
        <5>1. \A u \in Time : inbox'[u].state # "none" => u <= Len(commits)
          BY <2>1, <3>3 DEF Inv, Sound, CallsSound
        <5>2. \A d \in Caller : call'[d].pc # "idle" => call'[d].t # 0
          BY <2>1, <3>2 DEF Inv, Sound, CallsSound
        <5> QED BY <2>1, <5>1, <5>2 DEF CallsSound
      <4>2. CallsCounted'
        BY <2>1, <3>2, <3>3 DEF Inv, CallsCounted, Counted
      <4> QED BY <4>1, <4>2
    <3>6. NothingDropped'
      <4> SUFFICES ASSUME NEW u \in 1..Len(commits), u >= cutover, u \notin unacked PROVE u \in receipts \/ Shown(u)' \/ u \in skipped
        BY <2>1, <3>1 DEF NothingDropped
      <4>1. u \in Time /\ Begun
        BY <2>4, CommitsInTime, CaptureBegan DEF Inv, Sound, OffUntilCutover, Off
      <4> QED BY <3>3, <4>1 DEF Inv, NothingDropped, Shown, Begun
    <3>7. \A u \in Time : Through(u)' => Through(u)
      BY <3>2, <3>3 DEF Through
    <3>8. Begun
      BY <2>4, CaptureBegan DEF Inv, Sound, OffUntilCutover, Off
    <3> QED BY <1>4, <2>1, <2>2, <3>4, <3>5, <3>6, <3>7, <3>8
  <2> QED BY <2>1, <2>3, <2>4
<1> QED BY <1>1, <1>2, <1>3

\* The capture is switched off, or on again.
LEMMA SwitchStep ==
  ASSUME Inv, PauseCapture \/ (InitializeCapture /\ Begun)
  PROVE  CallsMove({}) /\ UNCHANGED projections
<1> USE DEF CallsMove
<1>1. /\ UNCHANGED <<world, tombstone, cutover, skipped, inbox, unacked, call, repair, projections>>
      /\ capturing' \in BOOLEAN /\ cutover # 0
  BY CaptureBegan DEF PauseCapture, InitializeCapture, Begun, Enabled
<1>2. UNCHANGED <<commits, receipts>>
  BY <1>1 DEF world, projections
<1>3. budget' \in Budget /\ budget'.commits = budget.commits
  <2>1. budget \in Budget
    BY DEF Inv, Typed, WorldTyped
  <2> QED BY <2>1, BudgetSpent DEF PauseCapture, InitializeCapture
<1>4. CallsTyped' /\ CallsSound' /\ CallsCounted' /\ NothingDropped'
  BY <1>1, <1>2 DEF Inv, Typed, CallsTyped, Sound, CallsSound, CallsCounted, Counted, NothingDropped, Shown
<1>5. \A t \in Time : Through(t)' => Through(t)
  BY <1>1 DEF Through
<1> QED BY <1>1, <1>3, <1>4, <1>5 DEF Begun

-----------------------------------------------------------------------------
(* A reconciliation *)

Contributions == [exists : BOOLEAN, visited : BOOLEAN, gen : Gen, keys : SUBSET Sources, known : BOOLEAN]

LEMMA ContributionType == ASSUME Inv, NEW p \in Pins PROVE Contribution(p) \in Contributions
<1>1. pin[p] \in Pin /\ visit[p] \in [time : Gen, on : BOOLEAN]
  BY DEF Inv, Typed, WorldTyped
<1>2. Visited(p) \in BOOLEAN /\ Exists(p) \in BOOLEAN
  BY <1>1 DEF Visited, Exists, Pin
<1> QED BY <1>1, <1>2 DEF Contribution, Contributions, Pin

\* The event a reconciliation is called with is of its pin.
Of(p, t) == t # 0 => t \in 1..Len(commits) /\ commits[t].pin = p

LEMMA ProjectsContribution ==
  ASSUME Inv, NEW p \in Pins, ProjectContribution(p), UNCHANGED world
  PROVE  /\ contribution' \in [Pins -> Contributions] /\ index' \subseteq Pins \X Sources
         /\ stats' \in [pins : Nat, visited : Nat, revision : Nat, ready : BOOLEAN]
         /\ contribution'[p] = Contribution(p) /\ \A q \in Pins \ {p} : contribution'[q] = contribution[q]
         /\ stats'.pins = Cardinality({q \in Pins : contribution'[q].exists})
         /\ stats'.visited = Cardinality({q \in Pins : contribution'[q].visited})
         /\ index' = {r \in Pins \X Sources : r[2] \in contribution'[r[1]].keys}
<1> DEFINE next == Contribution(p)
           old  == contribution[p]
<1>1. /\ contribution \in [Pins -> Contributions] /\ index \subseteq Pins \X Sources
      /\ stats \in [pins : Nat, visited : Nat, revision : Nat, ready : BOOLEAN]
  BY DEF Inv, Typed, ProjectionsTyped, Contributions
<1>2. next \in Contributions /\ old \in Contributions
  BY <1>1, ContributionType
<1>3. /\ stats.pins = Cardinality({q \in Pins : contribution[q].exists})
      /\ stats.visited = Cardinality({q \in Pins : contribution[q].visited})
      /\ index = {r \in Pins \X Sources : r[2] \in contribution[r[1]].keys}
  BY DEF Inv, TotalsMatch, CountersMatch
<1>4. CASE next = old
  <2>1. UNCHANGED <<contribution, index, stats>>
    BY <1>4 DEF ProjectContribution
  <2> HIDE DEF next
  <2> QED BY <1>1, <1>3, <1>4, <2>1 DEF next
<1>5. CASE next # old
  <2>1. /\ contribution' = [contribution EXCEPT ![p] = next]
        /\ index' = (index \ ({p} \X Sources)) \cup ({p} \X next.keys)
        /\ stats' = [stats EXCEPT !.pins = Counter(@, Bit(next.exists) - Bit(old.exists)),
                                  !.visited = Counter(@, Bit(next.visited) - Bit(old.visited)),
                                  !.revision = @ + 1]
    BY <1>5 DEF ProjectContribution
  <2> HIDE DEF next
  <2>2. /\ contribution' \in [Pins -> Contributions]
        /\ contribution'[p] = next /\ \A q \in Pins \ {p} : contribution'[q] = contribution[q]
    BY <1>1, <1>2, <2>1
  <2>3. /\ index' \subseteq Pins \X Sources
        /\ index' = {r \in Pins \X Sources : r[2] \in contribution'[r[1]].keys}
    <3>1. next.keys \subseteq Sources
      BY <1>2 DEF Contributions
    <3>2. ASSUME NEW q \in Pins, NEW k \in Sources PROVE <<q, k>> \in index' <=> k \in contribution'[q].keys
      BY <1>3, <2>1, <2>2
    <3>3. index' \subseteq Pins \X Sources
      BY <1>1, <2>1, <3>1
    <3> QED BY <3>2, <3>3
  <2>4. stats'.pins = Counter(stats.pins, Bit(next.exists) - Bit(old.exists))
        /\ stats'.visited = Counter(stats.visited, Bit(next.visited) - Bit(old.visited))
        /\ stats' = [pins |-> stats'.pins, visited |-> stats'.visited, revision |-> stats.revision + 1, ready |-> stats.ready]
    BY <1>1, <2>1
  <2>5. stats'.pins = Cardinality({q \in Pins : contribution'[q].exists}) /\ stats'.pins \in Nat
    <3> DEFINE A == {q \in Pins : contribution[q].exists}
               B == {q \in Pins : contribution'[q].exists}
    <3>1. (p \in A) = old.exists /\ (p \in B) = next.exists /\ \A q \in Pins \ {p} : q \in A <=> q \in B
      BY <1>2, <2>2 DEF Contributions
    <3>2. A \in SUBSET Pins /\ B \in SUBSET Pins /\ IsFiniteSet(Pins) /\ stats.pins = Cardinality(A)
      BY <1>3, AccountingConstants
    <3> HIDE DEF A, B
    <3>3. Counter(Cardinality(A), Bit(p \in B) - Bit(p \in A)) = Cardinality(B)
      BY <3>1, <3>2, CountChange
    <3>4. Cardinality(B) \in Nat
      BY <3>2, FS_Subset, FS_CardinalityType
    <3> QED BY <2>4, <3>1, <3>2, <3>3, <3>4 DEF B
  <2>6. stats'.visited = Cardinality({q \in Pins : contribution'[q].visited}) /\ stats'.visited \in Nat
    <3> DEFINE A == {q \in Pins : contribution[q].visited}
               B == {q \in Pins : contribution'[q].visited}
    <3>1. (p \in A) = old.visited /\ (p \in B) = next.visited /\ \A q \in Pins \ {p} : q \in A <=> q \in B
      BY <1>2, <2>2 DEF Contributions
    <3>2. A \in SUBSET Pins /\ B \in SUBSET Pins /\ IsFiniteSet(Pins) /\ stats.visited = Cardinality(A)
      BY <1>3, AccountingConstants
    <3> HIDE DEF A, B
    <3>3. Counter(Cardinality(A), Bit(p \in B) - Bit(p \in A)) = Cardinality(B)
      BY <3>1, <3>2, CountChange
    <3>4. Cardinality(B) \in Nat
      BY <3>2, FS_Subset, FS_CardinalityType
    <3> QED BY <2>4, <3>1, <3>2, <3>3, <3>4 DEF B
  <2>7. stats' \in [pins : Nat, visited : Nat, revision : Nat, ready : BOOLEAN]
    BY <1>1, <2>4, <2>5, <2>6
  <2> QED BY <2>2, <2>3, <2>5, <2>6, <2>7 DEF next
<1> QED BY <1>4, <1>5

LEMMA ProjectsHistory ==
  ASSUME Inv, NEW p \in Pins, NEW t, Of(p, t), ProjectHistory(p, t), UNCHANGED <<world, cutover>>, Begun
  PROVE  /\ receipts' \subseteq 1..Len(commits) /\ saveEvents' \subseteq receipts' /\ receipts \subseteq receipts'
         /\ profile' \in [saves : Nat, adds : Nat, last : Gen, city : Cities \cup {"none"}]
         /\ profile'.saves = Cardinality({u \in saveEvents' : commits[u].kind = "created"})
         /\ profile'.adds = Cardinality(Additions')
         /\ \A u \in receipts' : u >= cutover
         /\ t # 0 /\ t >= cutover => t \in receipts'
         /\ SavesSound' /\ SaveAgrees(p)' /\ \A q \in Pins \ {p} : SaveAgrees(q) => SaveAgrees(q)'
<1> USE DEF world
<1> DEFINE newer == FreshSave(t) /\ t > profile.last
           last == IF newer THEN t ELSE profile.last
           city == IF Exists(p) /\ last = pin[p].gen THEN pin[p].city ELSE IF newer THEN commits[t].city ELSE profile.city
<1>1. /\ receipts' = IF IsEvent(t) THEN receipts \cup {t} ELSE receipts
      /\ saveEvents' = IF FreshSave(t) \/ SourceAdds(t) > 0 THEN saveEvents \cup {t} ELSE saveEvents
      /\ profile' = [saves |-> profile.saves + Bit(FreshSave(t)), adds |-> profile.adds + SourceAdds(t),
                     last |-> last, city |-> city]
  BY DEF ProjectHistory
<1>2. /\ receipts \subseteq 1..Len(commits) /\ saveEvents \subseteq receipts
      /\ profile \in [saves : Nat, adds : Nat, last : Gen, city : Cities \cup {"none"}]
      /\ commits \in Seq(Commit) /\ cutover \in Nat /\ pin[p] \in Pin /\ 1..Len(commits) \subseteq Time
      /\ Len(commits) \in Nat /\ Time \subseteq Gen
  <2>1. Time \subseteq Gen
    BY AccountingConstants DEF Time, Gen
  <2>2. cutover \in Nat /\ Len(commits) \in Nat /\ 1..Len(commits) \subseteq Time
    BY CommitsInTime DEF Inv, Typed, WorldTyped
  <2> QED BY <2>1, <2>2 DEF Inv, Typed, WorldTyped, ProjectionsTyped
<1>3. /\ profile.saves = Cardinality({u \in saveEvents : commits[u].kind = "created"})
      /\ \A u \in receipts : u >= cutover
  BY DEF Inv, TotalsMatch, CountersMatch
<1>4. /\ t # 0 => t \in 1..Len(commits) /\ commits[t] \in Commit /\ commits[t].pin = p
      /\ IsEvent(t) => t # 0 /\ t >= cutover
      /\ FreshSave(t) => IsEvent(t) /\ t \notin receipts /\ commits[t].kind = "created"
      /\ SourceAdds(t) \in Nat /\ (SourceAdds(t) > 0 => IsEvent(t) /\ t \notin receipts)
      /\ IsEvent(t) /\ t \notin receipts /\ commits[t].kind = "created" => FreshSave(t)
  <2>1. t # 0 => t \in 1..Len(commits) /\ commits[t] \in Commit /\ commits[t].pin = p
    BY <1>2 DEF Of
  <2>2. t # 0 => commits[t].adds \in Nat
    BY <2>1 DEF Commit
  <2> QED BY <2>1, <2>2 DEF IsEvent, FreshSave, Fresh, SourceAdds
<1>5. /\ receipts' \subseteq 1..Len(commits) /\ saveEvents' \subseteq receipts' /\ receipts \subseteq receipts'
      /\ \A u \in receipts' : u >= cutover
      /\ t # 0 /\ t >= cutover => t \in receipts'
  BY <1>1, <1>2, <1>3, <1>4 DEF IsEvent
<1>6. last \in Gen /\ city \in Cities \cup {"none"}
  <2>1. pin[p].city \in Cities \cup {"none"} /\ profile.last \in Gen /\ profile.city \in Cities \cup {"none"}
    BY <1>2 DEF Pin
  <2>2. newer => t \in Gen /\ commits[t].city \in Cities \cup {"none"}
    BY <1>2, <1>4 DEF Commit
  <2> QED BY <2>1, <2>2
<1>7. profile'.saves = profile.saves + Bit(FreshSave(t)) /\ profile'.last = last /\ profile'.city = city
      /\ profile' \in [saves : Nat, adds : Nat, last : Gen, city : Cities \cup {"none"}]
  <2>1. profile.saves + Bit(FreshSave(t)) \in Nat /\ profile.adds + SourceAdds(t) \in Nat
    BY <1>2, <1>4 DEF Bit
  <2> HIDE DEF last, city
  <2> QED BY <1>1, <1>6, <2>1
<1>8. profile'.saves = Cardinality({u \in saveEvents' : commits[u].kind = "created"})
  <2> DEFINE A == {u \in saveEvents : commits[u].kind = "created"}
             B == {u \in saveEvents' : commits[u].kind = "created"}
  <2>1. IsFiniteSet(A) /\ Cardinality(A) \in Nat
    <3>1. A \in SUBSET (1..Len(commits))
      BY <1>2
    <3>2. IsFiniteSet(1..Len(commits))
      BY <1>2, FS_Interval
    <3> HIDE DEF A
    <3> QED BY <3>1, <3>2, FS_Subset, FS_CardinalityType
  <2>2. CASE FreshSave(t)
    <3>1. B = A \cup {t} /\ t \notin A
      BY <1>1, <1>2, <1>4, <2>2
    <3>2. Cardinality(B) = Cardinality(A) + 1
      <4> HIDE DEF A, B
      <4> QED BY <2>1, <3>1, FS_AddElement
    <3> QED BY <1>3, <1>7, <2>2, <3>2 DEF Bit
  <2>3. CASE ~FreshSave(t)
    <3>1. B = A
      BY <1>1, <1>4, <2>3
    <3>2. profile.saves = Cardinality(A) /\ profile.saves \in Nat
      BY <1>2, <1>3
    <3>3. Bit(FreshSave(t)) = 0
      BY <2>3 DEF Bit
    <3> HIDE DEF A, B
    <3>4. profile'.saves = Cardinality(B)
      BY <1>7, <3>1, <3>2, <3>3
    <3> QED BY <3>4 DEF B
  <2> QED BY <2>2, <2>3
<1>12. profile'.adds = profile.adds + SourceAdds(t) /\ profile.adds \in Nat
  BY <1>1, <1>2
<1>13. profile.adds = Cardinality(Additions) /\ IsFiniteSet(Additions)
  BY DEF Inv, Sound, SavesSound, TotalsMatch, CountersMatch
<1>14. profile'.adds = Cardinality(Additions') /\ IsFiniteSet(Additions')
  <2>1. CASE FreshSave(t) \/ SourceAdds(t) > 0
    <3> DEFINE new == {t} \X (1..commits[t].adds)
    <3>1. Fresh(t) /\ t \notin saveEvents /\ t \in 1..Len(commits) /\ commits[t].adds \in Nat
      BY <1>2, <1>4, <2>1 DEF FreshSave, SourceAdds, Fresh, Commit
    <3>2. SourceAdds(t) = commits[t].adds /\ saveEvents' = saveEvents \cup {t} /\ commits' = commits
      BY <1>1, <2>1, <3>1 DEF SourceAdds
    <3>3. Additions' = Additions \cup new
      BY <3>2 DEF Additions
    <3>4. Additions \cap new = {}
      BY <3>1 DEF Additions
    <3>5. IsFiniteSet(1..commits[t].adds) /\ Cardinality(1..commits[t].adds) = commits[t].adds
      <4>1. \A n \in Nat : IsFiniteSet(1..n) /\ Cardinality(1..n) = IF 1 > n THEN 0 ELSE n - 1 + 1
        BY FS_Interval
      <4>2. \A n \in Nat : (IF 1 > n THEN 0 ELSE n - 1 + 1) = n
        OBVIOUS
      <4> QED BY <3>1, <4>1, <4>2
    <3>6. IsFiniteSet({t}) /\ Cardinality({t}) = 1
      BY FS_Singleton
    <3>7. IsFiniteSet(new) /\ Cardinality(new) = Cardinality({t}) * Cardinality(1..commits[t].adds)
      BY <3>5, <3>6, FS_Product
    <3>8. Cardinality(new) = commits[t].adds
      BY <3>1, <3>5, <3>6, <3>7
    <3> HIDE DEF new
    <3>9. IsFiniteSet(Additions') /\ Cardinality(Additions') = Cardinality(Additions) + Cardinality(new) - Cardinality({})
      BY <1>13, <3>3, <3>4, <3>7, FS_Union
    <3> QED BY <1>12, <1>13, <3>1, <3>2, <3>8, <3>9, FS_EmptySet
  <2>2. CASE ~(FreshSave(t) \/ SourceAdds(t) > 0)
    <3>1. SourceAdds(t) = 0 /\ Additions' = Additions
      BY <1>1, <1>4, <2>2 DEF Additions
    <3> QED BY <1>12, <1>13, <3>1
  <2> QED BY <2>1, <2>2
<1>9. SavesSound'
  <2> SUFFICES ASSUME NEW u \in saveEvents', commits[u].kind = "created" PROVE u <= profile'.last
    BY <1>14 DEF SavesSound
  <2>1. profile.last \in Nat /\ u \in Nat
    BY <1>2, <1>5, AccountingConstants DEF Gen
  <2>2. CASE u \in saveEvents
    BY <1>4, <1>7, <2>1, <2>2 DEF Inv, Sound, SavesSound
  <2>3. CASE u \notin saveEvents
    <3>1. u = t /\ FreshSave(t)
      BY <1>1, <1>4, <2>3
    <3> QED BY <1>7, <2>1, <3>1
  <2> QED BY <2>2, <2>3
<1>10. SaveAgrees(p)'
  BY <1>7 DEF SaveAgrees, Exists
<1>11. ASSUME NEW q \in Pins \ {p}, SaveAgrees(q) PROVE SaveAgrees(q)'
  <2> SUFFICES ASSUME Exists(q), last = pin[q].gen PROVE city = pin[q].city
    BY <1>7 DEF SaveAgrees, Exists
  <2>1. commits[pin[q].gen].pin = q /\ pin[q].gen # 0
    BY DEF Inv, Sound, WorldSound, Exists
  <2>2. ~newer
    BY <1>4, <2>1
  <2>3. ~(Exists(p) /\ last = pin[p].gen)
    BY <2>1 DEF Inv, Sound, WorldSound
  <2> QED BY <1>11, <2>2, <2>3 DEF SaveAgrees
<1> HIDE DEF last, city
<1> QED BY <1>5, <1>7, <1>8, <1>9, <1>10, <1>11, <1>14

\* The metadata: what the pointer names is what is counted, before and after.
LEMMA ProjectsMetadata ==
  ASSUME Inv, NEW p \in Pins, ProjectMetadata(p), account # 0, UNCHANGED world
  PROVE  /\ head' \in [Pins -> [acc : Acc, gen : Gen]]
         /\ metaPin' \in [Pins -> [Time -> [exists : BOOLEAN, acc : Acc, city : Cities \cup {"none"}]]]
         /\ summary' \in [acc : Acc, n : Nat] /\ bucket' \in [Cities -> [acc : Acc, n : Nat]]
         /\ PointersSound' /\ StampsSound' /\ MetadataMatches'
         /\ CityAgrees(p)' /\ \A q \in Pins \ {p} : CityAgrees(q)' <=> CityAgrees(q)
<1> USE DEF world
<1> DEFINE none == [exists |-> FALSE, acc |-> 0, city |-> "none"]
           g     == Previous(p)
           prev  == IF g = 0 THEN none ELSE metaPin[p][g]
           prior == prev.exists /\ prev.acc = account
           doc   == [exists |-> TRUE, acc |-> account, city |-> pin[p].city]
           delta(c) == Bit(Exists(p) /\ pin[p].city = c) - Bit(prior /\ prev.city = c)
           same  == prior = Exists(p) /\ (Exists(p) => g = pin[p].gen /\ prev = doc)
           Docs  == [exists : BOOLEAN, acc : Acc, city : Cities \cup {"none"}]
<1>1. /\ head' = [head EXCEPT ![p] = [acc |-> account, gen |-> pin[p].gen]]
      /\ same => UNCHANGED <<metaPin, summary, bucket>>
      /\ ~same => /\ metaPin' = [metaPin EXCEPT ![p] = [h \in Time |->
                        IF h = pin[p].gen THEN doc ELSE IF h = g THEN [metaPin[p][h] EXCEPT !.exists = FALSE]
                        ELSE metaPin[p][h]]]
                  /\ bucket' = [c \in Cities |-> IF delta(c) = 0 THEN bucket[c]
                                                  ELSE [acc |-> account, n |-> Counter(Total(bucket[c]), delta(c))]]
                  /\ summary' = [acc |-> account, n |-> Counter(Total(summary), Bit(Exists(p)) - Bit(prior))]
  BY DEF ProjectMetadata
<1>2. /\ head \in [Pins -> [acc : Acc, gen : Gen]] /\ metaPin \in [Pins -> [Time -> Docs]]
      /\ summary \in [acc : Acc, n : Nat] /\ bucket \in [Cities -> [acc : Acc, n : Nat]]
      /\ contribution[p].gen \in Gen /\ pin[p] \in Pin /\ account \in Acc /\ Acc \subseteq Nat /\ 0 \in Acc
  <2>1. Acc \subseteq Nat /\ 0 \in Acc
    BY AccountingConstants DEF Acc
  <2> QED BY <2>1 DEF Inv, Typed, WorldTyped, ProjectionsTyped
<1>3. Gen = Time \cup {0} /\ 0 \notin Time
  BY AccountingConstants DEF Gen, Time
<1>4. Exists(p) => pin[p].gen \in Time /\ pin[p].city \in Cities
  BY CommitsInTime DEF Inv, Sound, WorldSound
<1>5. g \in Gen /\ prev \in Docs /\ doc \in Docs /\ prior \in BOOLEAN /\ Exists(p) \in BOOLEAN
  <2>1. g \in Gen
    BY <1>2 DEF Previous
  <2>2. prev \in Docs
    BY <1>2, <1>3, <2>1
  <2>3. doc \in Docs
    BY <1>2 DEF Pin
  <2> QED BY <2>1, <2>2, <2>3 DEF Exists
<1>6. account # 0 /\ account = accounts
  BY DEF Inv, Sound, WorldSound
<1>7. /\ \A q \in Pins : \A h \in Time : Live(q, h) <=> Projected(q) /\ head[q].gen = h
      /\ \A q \in Pins : Projected(q) => metaPin[q][head[q].gen].city \in Cities
      /\ \A q \in Pins : head[q].acc <= accounts /\ (head[q].acc = 0 => head[q].gen = 0)
                          /\ \A h \in Time : metaPin[q][h].acc <= accounts
  BY <1>6 DEF Inv, Sound, PointersSound
<1>8. /\ prior = Projected(p)
      /\ Projected(p) => g = head[p].gen /\ g \in Time /\ prev = metaPin[p][head[p].gen]
  <2>1. CASE Projected(p)
    <3>1. g = head[p].gen /\ g \in Time
      BY <1>2, <1>3, <2>1 DEF Previous, Projected
    <3>2. prev = metaPin[p][g] /\ Live(p, g)
      BY <1>3, <1>7, <2>1, <3>1
    <3> QED BY <2>1, <3>1, <3>2 DEF Live
  <2>2. CASE ~Projected(p)
    <3>1. ~prior
      BY <1>3, <1>5, <1>7, <2>2 DEF Live
    <3> QED BY <2>2, <3>1 DEF Projected
  <2> QED BY <2>1, <2>2
<1> HIDE DEF prior, prev, doc, same, g
<1>9. /\ head' \in [Pins -> [acc : Acc, gen : Gen]]
      /\ head'[p] = [acc |-> account, gen |-> pin[p].gen] /\ \A q \in Pins \ {p} : head'[q] = head[q]
  <2>1. [acc |-> account, gen |-> pin[p].gen] \in [acc : Acc, gen : Gen]
    BY <1>2 DEF Pin
  <2> QED BY <1>1, <1>2, <2>1
<1>10. /\ \A q \in Pins \ {p} : Projected(q)' <=> Projected(q)
       /\ Projected(p)' <=> Exists(p)
  BY <1>6, <1>9 DEF Projected, Exists
<1>11. /\ metaPin' \in [Pins -> [Time -> Docs]] /\ \A q \in Pins \ {p} : metaPin'[q] = metaPin[q]
       /\ \A h \in Time : /\ metaPin'[p][h].exists /\ metaPin'[p][h].acc = account <=> Exists(p) /\ pin[p].gen = h
                          /\ metaPin'[p][h].acc <= accounts
       /\ Exists(p) => metaPin'[p][pin[p].gen].city = pin[p].city
  <2>1. CASE same
    <3>1. metaPin' = metaPin /\ prior = Exists(p) /\ (Exists(p) => g = pin[p].gen /\ prev = doc)
      BY <1>1, <2>1 DEF same
    <3>2. \A h \in Time : Live(p, h) <=> Exists(p) /\ pin[p].gen = h
      BY <1>7, <1>8, <3>1
    <3>3. Exists(p) => metaPin[p][pin[p].gen] = doc
      BY <1>8, <3>1
    <3> QED BY <1>2, <1>7, <3>1, <3>2, <3>3 DEF Live, doc
  <2>2. CASE ~same
    <3> DEFINE new == [h \in Time |-> IF h = pin[p].gen THEN doc ELSE IF h = g THEN [metaPin[p][h] EXCEPT !.exists = FALSE]
                                      ELSE metaPin[p][h]]
    <3>1. metaPin' = [metaPin EXCEPT ![p] = new]
      BY <1>1, <2>2
    <3>2. new \in [Time -> Docs]
      <4>1. ASSUME NEW h \in Time PROVE metaPin[p][h] \in Docs /\ [metaPin[p][h] EXCEPT !.exists = FALSE] \in Docs
        <5>1. metaPin[p][h] \in Docs
          BY <1>2
        <5> QED BY <5>1
      <4> HIDE DEF Docs
      <4> QED BY <1>5, <4>1
    <3>3. ASSUME NEW h \in Time
          PROVE  /\ new[h].exists /\ new[h].acc = account <=> Exists(p) /\ pin[p].gen = h
                 /\ new[h].acc <= accounts
      <4>1. metaPin[p][h] \in Docs
        BY <1>2
      <4>2. CASE h = pin[p].gen
        <5>1. new[h] = doc /\ Exists(p)
          BY <1>3, <4>2 DEF Exists
        <5> QED BY <1>2, <1>6, <4>2, <5>1 DEF doc
      <4>3. CASE h # pin[p].gen /\ h = g
        <5>1. new[h] = [metaPin[p][h] EXCEPT !.exists = FALSE]
          BY <4>3
        <5>2. ~new[h].exists /\ new[h].acc = metaPin[p][h].acc
          BY <4>1, <5>1
        <5> HIDE DEF new
        <5> QED BY <1>7, <4>3, <5>2
      <4>4. CASE h # pin[p].gen /\ h # g
        <5>1. new[h] = metaPin[p][h]
          BY <4>4
        <5>2. ~Live(p, h)
          BY <1>7, <1>8, <4>4
        <5> HIDE DEF new
        <5> QED BY <1>7, <4>4, <5>1, <5>2 DEF Live
      <4> QED BY <4>2, <4>3, <4>4
    <3>4. Exists(p) => new[pin[p].gen].city = pin[p].city
      <4> SUFFICES ASSUME Exists(p) PROVE new[pin[p].gen].city = pin[p].city
        OBVIOUS
      <4>1. new[pin[p].gen] = doc
        BY <1>4
      <4> HIDE DEF new
      <4> QED BY <4>1 DEF doc
    <3> HIDE DEF new
    <3> QED BY <1>2, <3>1, <3>2, <3>3, <3>4
  <2> QED BY <2>1, <2>2
<1>12. PointersSound'
  <2> SUFFICES ASSUME NEW q \in Pins
               PROVE  /\ head'[q].acc <= accounts /\ (head'[q].acc = 0 => head'[q].gen = 0)
                      /\ \A h \in Time : metaPin'[q][h].acc <= accounts
                      /\ \A h \in Time : metaPin'[q][h].exists /\ metaPin'[q][h].acc = account
                                         <=> Projected(q)' /\ head'[q].gen = h
                      /\ Projected(q)' => metaPin'[q][head'[q].gen].city \in Cities
    BY DEF PointersSound, Live
  <2>1. CASE q = p
    <3>1. head'[q].acc = accounts /\ head'[q].gen = pin[p].gen /\ accounts # 0 /\ accounts <= accounts
      BY <1>2, <1>6, <1>9, <2>1
    <3>2. Exists(p) => metaPin'[p][head'[p].gen].city \in Cities
      BY <1>4, <1>11, <2>1, <3>1
    <3> QED BY <1>10, <1>11, <2>1, <3>1, <3>2
  <2>2. CASE q # p
    BY <1>7, <1>9, <1>10, <1>11, <2>2 DEF Live
  <2> QED BY <2>1, <2>2
<1>13. /\ same => UNCHANGED <<summary, bucket>>
       /\ ~same => /\ summary' = [acc |-> account, n |-> Counter(Total(summary), Bit(Exists(p)) - Bit(prior))]
                   /\ bucket' = [c \in Cities |-> IF delta(c) = 0 THEN bucket[c]
                                                   ELSE [acc |-> account, n |-> Counter(Total(bucket[c]), delta(c))]]
  BY <1>1
<1>14. /\ Total(summary) = Cardinality({q \in Pins : Projected(q)})
       /\ \A c \in Cities : Total(bucket[c]) = Cardinality({q \in Pins : Projected(q) /\ metaPin[q][head[q].gen].city = c})
  BY <1>6 DEF Inv, TotalsMatch, MetadataMatches
<1>15. /\ summary' \in [acc : Acc, n : Nat] /\ summary'.acc <= accounts
       /\ Total(summary)' = Cardinality({q \in Pins : Projected(q)'})
  <2> DEFINE A == {q \in Pins : Projected(q)}
             B == {q \in Pins : Projected(q)'}
  <2>1. /\ A \in SUBSET Pins /\ B \in SUBSET Pins /\ IsFiniteSet(Pins) /\ Total(summary) = Cardinality(A)
        /\ (p \in A) = prior /\ (p \in B) = Exists(p) /\ \A q \in Pins \ {p} : q \in A <=> q \in B
    BY <1>8, <1>10, <1>14, AccountingConstants DEF Exists, Projected
  <2>2. summary.acc <= accounts
    BY DEF Inv, Sound, StampsSound
  <2>3. CASE same
    <3>1. A = B
      BY <2>1, <2>3 DEF same
    <3>2. summary' = summary
      BY <1>13, <2>3
    <3> HIDE DEF A, B
    <3>3. Total(summary)' = Cardinality(B)
      BY <2>1, <3>1, <3>2 DEF Total
    <3> QED BY <1>2, <2>2, <3>2, <3>3 DEF B
  <2>4. CASE ~same
    <3> HIDE DEF A, B
    <3>1. /\ Counter(Cardinality(A), Bit(p \in B) - Bit(p \in A)) = Cardinality(B)
          /\ Cardinality(B) \in Nat
      BY <2>1, CountChange, FS_Subset, FS_CardinalityType
    <3>2. summary' = [acc |-> account, n |-> Cardinality(B)]
      BY <1>13, <2>1, <2>4, <3>1
    <3>3. Total(summary)' = Cardinality(B)
      BY <3>2 DEF Total
    <3> QED BY <1>2, <1>6, <3>1, <3>2, <3>3 DEF B
  <2> QED BY <2>3, <2>4
<1>16. ASSUME NEW c \in Cities
       PROVE  /\ bucket'[c] \in [acc : Acc, n : Nat] /\ bucket'[c].acc <= accounts
              /\ Total(bucket[c])' = Cardinality({q \in Pins : Projected(q)' /\ metaPin'[q][head'[q].gen].city = c})
  <2> DEFINE A == {q \in Pins : Projected(q) /\ metaPin[q][head[q].gen].city = c}
             B == {q \in Pins : Projected(q)' /\ metaPin'[q][head'[q].gen].city = c}
  <2>1. /\ A \in SUBSET Pins /\ B \in SUBSET Pins /\ IsFiniteSet(Pins) /\ Total(bucket[c]) = Cardinality(A)
        /\ p \in A <=> prior /\ prev.city = c
        /\ p \in B <=> Exists(p) /\ pin[p].city = c
        /\ \A q \in Pins \ {p} : q \in A <=> q \in B
    <3>1. p \in A <=> prior /\ prev.city = c
      BY <1>8
    <3>2. p \in B <=> Exists(p) /\ pin[p].city = c
      BY <1>9, <1>10, <1>11
    <3>3. \A q \in Pins \ {p} : q \in A <=> q \in B
      BY <1>9, <1>10, <1>11
    <3>4. Total(bucket[c]) = Cardinality(A)
      BY <1>14
    <3> HIDE DEF prev
    <3> QED BY <3>1, <3>2, <3>3, <3>4, AccountingConstants
  <2>2. bucket[c].acc <= accounts /\ bucket[c] \in [acc : Acc, n : Nat]
    BY <1>2 DEF Inv, Sound, StampsSound
  <2>3. CASE same
    <3>1. A = B
      BY <2>1, <2>3 DEF same, doc
    <3>2. bucket'[c] = bucket[c]
      BY <1>13, <2>3
    <3> HIDE DEF A, B
    <3>3. Total(bucket[c])' = Cardinality(B)
      BY <2>1, <3>1, <3>2 DEF Total
    <3> QED BY <2>2, <3>2, <3>3 DEF B
  <2>4. CASE ~same
    <3>0. delta(c) = Bit(p \in B) - Bit(p \in A)
      <4> HIDE DEF A, B
      <4> QED BY <2>1 DEF Bit
    <3>1. bucket'[c] = IF delta(c) = 0 THEN bucket[c] ELSE [acc |-> account, n |-> Counter(Total(bucket[c]), delta(c))]
      BY <1>13, <2>4
    <3> HIDE DEF A, B, delta
    <3>2. /\ Counter(Cardinality(A), Bit(p \in B) - Bit(p \in A)) = Cardinality(B)
          /\ Cardinality(B) = Cardinality(A) + (Bit(p \in B) - Bit(p \in A))
          /\ Cardinality(B) \in Nat /\ Cardinality(A) \in Nat
      BY <2>1, CountChange, FS_Subset, FS_CardinalityType
    <3>3. CASE delta(c) = 0
      <4>1. bucket'[c] = bucket[c] /\ Cardinality(B) = Cardinality(A)
        BY <3>0, <3>1, <3>2, <3>3
      <4>2. Total(bucket[c])' = Cardinality(B)
        BY <2>1, <4>1 DEF Total
      <4> QED BY <2>2, <4>1, <4>2 DEF B
    <3>4. CASE delta(c) # 0
      <4>1. bucket'[c] = [acc |-> account, n |-> Cardinality(B)]
        BY <2>1, <3>0, <3>1, <3>2, <3>4
      <4>2. Total(bucket[c])' = Cardinality(B)
        BY <4>1 DEF Total
      <4>3. bucket'[c] \in [acc : Acc, n : Nat] /\ bucket'[c].acc <= accounts
        BY <1>2, <1>6, <3>2, <4>1
      <4> QED BY <4>2, <4>3 DEF B
    <3> QED BY <3>3, <3>4
  <2> QED BY <2>3, <2>4
<1>17. bucket' \in [Cities -> [acc : Acc, n : Nat]]
  <2>1. DOMAIN bucket' = Cities /\ bucket' = [c \in Cities |-> bucket'[c]]
    BY <1>2, <1>13
  <2> QED BY <1>16, <2>1
<1>18. MetadataMatches' /\ StampsSound'
  BY <1>15, <1>16 DEF MetadataMatches, StampsSound
<1>19. CityAgrees(p)' /\ \A q \in Pins \ {p} : CityAgrees(q)' <=> CityAgrees(q)
  BY <1>9, <1>10, <1>11 DEF CityAgrees
<1> QED BY <1>9, <1>11, <1>12, <1>15, <1>17, <1>18, <1>19

\* What a reconciliation leaves: everything counted agrees, its own pin with
\* the document as it is now and no other pin worse than before.
LEMMA Reconciles ==
  ASSUME Inv, NEW p \in Pins, NEW t, Of(p, t), Active, Begun, Reconcile(p, t),
         UNCHANGED <<world, tombstone, cutover>>
  PROVE  /\ ProjectionsTyped' /\ TotalsMatch' /\ PointersSound' /\ StampsSound' /\ SavesSound'
         /\ Agrees(p)' /\ \A q \in Pins \ {p} : (Agrees(q) => Agrees(q)') /\ (Reached(q)' <=> Reached(q))
         /\ receipts \subseteq receipts' /\ (t # 0 /\ t >= cutover => t \in receipts')
<1> USE DEF world
<1>1. /\ ProjectContribution(p) /\ ProjectMetadata(p) /\ ProjectHistory(p, t)
      /\ account # 0 /\ UNCHANGED world
  BY DEF Reconcile, Active
<1>2. /\ contribution' \in [Pins -> Contributions] /\ index' \subseteq Pins \X Sources
      /\ stats' \in [pins : Nat, visited : Nat, revision : Nat, ready : BOOLEAN]
      /\ contribution'[p] = Contribution(p) /\ \A q \in Pins \ {p} : contribution'[q] = contribution[q]
      /\ stats'.pins = Cardinality({q \in Pins : contribution'[q].exists})
      /\ stats'.visited = Cardinality({q \in Pins : contribution'[q].visited})
      /\ index' = {r \in Pins \X Sources : r[2] \in contribution'[r[1]].keys}
  BY <1>1, ProjectsContribution
<1>3. /\ receipts' \subseteq 1..Len(commits) /\ saveEvents' \subseteq receipts' /\ receipts \subseteq receipts'
      /\ profile' \in [saves : Nat, adds : Nat, last : Gen, city : Cities \cup {"none"}]
      /\ profile'.saves = Cardinality({u \in saveEvents' : commits[u].kind = "created"})
      /\ profile'.adds = Cardinality(Additions')
      /\ \A u \in receipts' : u >= cutover
      /\ t # 0 /\ t >= cutover => t \in receipts'
      /\ SavesSound' /\ SaveAgrees(p)' /\ \A q \in Pins \ {p} : SaveAgrees(q) => SaveAgrees(q)'
  BY <1>1, ProjectsHistory
<1>4. /\ head' \in [Pins -> [acc : Acc, gen : Gen]]
      /\ metaPin' \in [Pins -> [Time -> [exists : BOOLEAN, acc : Acc, city : Cities \cup {"none"}]]]
      /\ summary' \in [acc : Acc, n : Nat] /\ bucket' \in [Cities -> [acc : Acc, n : Nat]]
      /\ PointersSound' /\ StampsSound' /\ MetadataMatches'
      /\ CityAgrees(p)' /\ \A q \in Pins \ {p} : CityAgrees(q)' <=> CityAgrees(q)
  BY <1>1, ProjectsMetadata
<1>5. ProjectionsTyped'
  BY <1>2, <1>3, <1>4 DEF ProjectionsTyped, Contributions
<1>6. TotalsMatch'
  <2>1. CountersMatch'
    BY <1>2, <1>3 DEF CountersMatch
  <2> QED BY <1>4, <2>1 DEF TotalsMatch
<1>7. \A q \in Pins : Contribution(q)' = Contribution(q)
  BY DEF Contribution, Exists, Visited
<1>8. Reached(p)' /\ \A q \in Pins \ {p} : Reached(q)' <=> Reached(q)
  BY <1>2, <1>7 DEF Reached
<1> QED BY <1>3, <1>4, <1>5, <1>6, <1>8 DEF Agrees

LEMMA ReconcileStep ==
  ASSUME Inv, NEW p \in Pins, NEW t, Of(p, t), Active, Begun, Reconcile(p, t), CallsMove({t}),
         UNCHANGED <<checkpoint, ready>>,
         \/ UNCHANGED runner
         \/ \E r \in Runner : runner' = [runner EXCEPT ![r].page = @ \ {p}]
  PROVE  Inv'
<1> USE DEF world, CallsMove
<1>1. UNCHANGED <<world, tombstone, cutover>> /\ UNCHANGED <<pin, visit, commits, account, accounts, buried, tombstone, cutover>>
  OBVIOUS
<1>2. /\ ProjectionsTyped' /\ TotalsMatch' /\ PointersSound' /\ StampsSound' /\ SavesSound'
      /\ Agrees(p)' /\ \A q \in Pins \ {p} : (Agrees(q) => Agrees(q)') /\ (Reached(q)' <=> Reached(q))
      /\ receipts \subseteq receipts' /\ (t # 0 /\ t >= cutover => t \in receipts')
  BY <1>1, Reconciles
<1>3. /\ DOMAIN runner' = Runner
      /\ \A r \in Runner : /\ runner'[r] \in [pc : {"idle", "read", "work"}, at : Checkpoint, page : SUBSET Pins, next : Checkpoint]
                           /\ runner'[r].pc = runner[r].pc /\ runner'[r].at = runner[r].at /\ runner'[r].next = runner[r].next
                           /\ runner[r].page \ {p} \subseteq runner'[r].page
      /\ runner' \in [Runner -> [pc : {"idle", "read", "work"}, at : Checkpoint, page : SUBSET Pins, next : Checkpoint]]
  <2>1. runner \in [Runner -> [pc : {"idle", "read", "work"}, at : Checkpoint, page : SUBSET Pins, next : Checkpoint]]
    BY DEF Inv, Typed, MigrationTyped
  <2>2. CASE UNCHANGED runner
    BY <2>1, <2>2
  <2>3. ASSUME NEW r \in Runner, runner' = [runner EXCEPT ![r].page = @ \ {p}]
        PROVE  <1>3!1 /\ <1>3!2 /\ <1>3!3
    <3>1. PICK z \in [pc : {"idle", "read", "work"}, at : Checkpoint, page : SUBSET Pins, next : Checkpoint] :
            z = [runner[r] EXCEPT !.page = @ \ {p}]
      <4>1. runner[r] \in [pc : {"idle", "read", "work"}, at : Checkpoint, page : SUBSET Pins, next : Checkpoint]
        BY <2>1
      <4>2. [runner[r] EXCEPT !.page = @ \ {p}] = [pc |-> runner[r].pc, at |-> runner[r].at,
                                                   page |-> runner[r].page \ {p}, next |-> runner[r].next]
        BY <4>1
      <4> QED BY <4>1, <4>2
    <3>2. z.pc = runner[r].pc /\ z.at = runner[r].at /\ z.next = runner[r].next /\ z.page = runner[r].page \ {p}
      BY <2>1, <3>1
    <3>3. runner' = [runner EXCEPT ![r] = z]
      BY <2>3, <3>1
    <3> QED BY <2>1, <3>2, <3>3
  <2> QED BY <2>2, <2>3
<1>4. Typed'
  BY <1>1, <1>2, <1>3 DEF Inv, Typed, WorldTyped, MigrationTyped
<1>5. Sound'
  <2>1. WorldSound' /\ RunnersSound'
    BY <1>1, <1>3 DEF Inv, Sound, WorldSound, RunnersSound, Exists
  <2>2. OffUntilCutover'
    BY <1>1 DEF OffUntilCutover, Begun
  <2> QED BY <1>2, <2>1, <2>2 DEF Sound
<1>6. Agreement'
  <2> SUFFICES ASSUME NEW q \in Pins, NEW u \in Time, IsLast(q, u)', Through(u)' PROVE Agrees(q)'
    BY DEF Agreement
  <2>1. IsLast(q, u)
    BY <1>1 DEF IsLast
  <2>2. CASE q = p
    BY <1>2, <2>2
  <2>3. CASE q # p
    <3>1. u # t
      BY <2>1, <2>3 DEF Of, IsLast
    <3>2. Through(u)
      BY <3>1
    <3> QED BY <1>2, <2>1, <2>3, <3>2 DEF Inv, Agreement
  <2> QED BY <2>2, <2>3
<1>7. Covered'
  <2> SUFFICES ASSUME NEW q \in Pins, Due(q)', ~Reached(q)'
               PROVE  /\ ~Covers(checkpoint, q)' /\ ~ready'
                      /\ \A r \in Runner :
                           /\ runner'[r].pc # "idle" => ~Covers(runner'[r].at, q)
                           /\ runner'[r].pc = "work" /\ Covers(runner'[r].next, q) => q \in runner'[r].page
    BY DEF Covered, Covers
  <2>1. q # p
    BY <1>2 DEF Agrees
  <2>2. Due(q) /\ ~Reached(q)
    BY <1>1, <1>2, <2>1 DEF Due, Old, Exists
  <2> QED BY <1>3, <2>1, <2>2 DEF Inv, Covered, Covers
<1> QED BY <1>2, <1>4, <1>5, <1>6, <1>7 DEF Inv

\* The two transactions of a call.
LEMMA ApplyStep == ASSUME Inv, NEW c \in Caller, Apply(c) \/ Again(c), UNCHANGED migration PROVE Inv'
<1> USE DEF migration
<1>0. PICK t : t = call[c].t
  OBVIOUS
<1>1. call[c].pc # "idle"
  BY DEF Apply, Again, At
<1>2. t \in Time /\ t \in 1..Len(commits) /\ commits[t] \in Commit /\ Begun
  BY <1>0, <1>1, CallAt
<1>3. CASE ~(Enabled /\ Active)
  BY <1>3, CallStep, QuietStep
<1>4. CASE Enabled /\ Active /\ Apply(c)
  <2> DEFINE p == commits[t].pin
  <2>1. /\ Reconcile(p, t) /\ Goto(c, "finish")
        /\ UNCHANGED <<world, tombstone, control, inbox, unacked, repair, budget>>
    BY <1>0, <1>4 DEF Apply, PinOf
  <2>2. p \in Pins /\ Of(p, t)
    BY <1>2 DEF Commit, Of
  <2>3. receipts \subseteq receipts' /\ (t >= cutover => t \in receipts')
    BY <1>2, <1>4, <2>1, <2>2, Reconciles DEF Time
  <2>4. UNCHANGED <<commits, control>>
    BY <2>1 DEF world
  <2>5. /\ call' \in [Caller -> [pc : Steps, t : 0..Len(commits)]]
        /\ \A d \in Caller \ {c} : call'[d] = call[d]
        /\ call'[c].pc = "finish" /\ call'[c].t = t
    <3>1. call' = [call EXCEPT ![c] = [pc |-> "finish", t |-> t]]
      BY <1>0, <2>1, GotoIs
    <3>2. [pc |-> "finish", t |-> t] \in [pc : Steps, t : 0..Len(commits)]
      BY <1>2 DEF Steps
    <3>3. call \in [Caller -> [pc : Steps, t : 0..Len(commits)]]
      BY DEF Inv, Typed, CallsTyped, Steps
    <3> QED BY <3>1, <3>2, <3>3
  <2>6. CallsTyped' /\ CallsSound'
    <3>1. CallsTyped'
      BY <2>1, <2>4, <2>5 DEF Inv, Typed, CallsTyped, Steps
    <3>2. \A d \in Caller : call'[d].pc # "idle" => call'[d].t # 0
      <4>1. t # 0
        BY <1>2
      <4> QED BY <2>5, <4>1 DEF Inv, Sound, CallsSound
    <3> QED BY <2>1, <2>4, <3>1, <3>2 DEF Inv, Sound, CallsSound
  <2>7. CallsCounted'
    <3>1. \A u : Counted(u) => Counted(u)'
      BY <2>3, <2>4 DEF Counted
    <3>2. Counted(t)'
      BY <2>3, <2>4 DEF Counted
    <3>3. \A u \in Time : inbox'[u].state = "complete" => Counted(u)'
      BY <2>1, <3>1 DEF Inv, CallsCounted
    <3>4. ASSUME NEW d \in Caller, call'[d].pc \in {"finish", "again"}, NEW u, u = call'[d].t PROVE Counted(u)'
      <4>1. CASE d = c
        BY <2>5, <3>2, <3>4, <4>1
      <4>2. CASE d # c
        BY <2>5, <3>1, <3>4, <4>2 DEF Inv, CallsCounted
      <4> QED BY <4>1, <4>2
    <3> QED BY <3>3, <3>4 DEF CallsCounted, Counted
  <2>8. NothingDropped'
    BY <2>1, <2>3, <2>4 DEF Inv, NothingDropped, Shown, Begun
  <2>9. \A u \in Time : Through(u)' => Through(u) \/ u \in {t}
    BY <2>1, <2>5 DEF Through
  <2>10. CallsMove({t})
    BY <1>2, <2>1, <2>6, <2>7, <2>8, <2>9 DEF CallsMove, Inv, Typed, WorldTyped
  <2> HIDE DEF p
  <2> QED BY <1>2, <1>4, <2>1, <2>2, <2>10, ReconcileStep
<1>5. CASE Enabled /\ Active /\ Again(c)
  <2> DEFINE p == commits[t].pin
  <2>1. /\ Reconcile(p, 0) /\ Return(c, TRUE) /\ call[c].pc = "again"
        /\ UNCHANGED <<world, tombstone, control, inbox, budget>>
    BY <1>0, <1>5 DEF Again, PinOf, At
  <2>2. p \in Pins /\ Of(p, 0)
    <3>1. p \in Pins
      BY <1>2 DEF Commit
    <3> QED BY <3>1 DEF Of
  <2>3. UNCHANGED receipts
    BY <2>1 DEF Reconcile, ProjectHistory, IsEvent
  <2>4. /\ call' = [call EXCEPT ![c] = Idle] /\ unacked' \in {unacked, unacked \ {t}}
        /\ repair' \in [on : BOOLEAN, cursor : Gen, review : BOOLEAN]
    BY <1>0, <1>1, <2>1, CallEnds
  <2>5. CallGoes(c, t) /\ InboxGoes(t) /\ AckGoes(t)
    BY <1>0, <2>1, <2>4 DEF CallGoes, InboxGoes, AckGoes, Inv, CallsCounted
  <2>6. CallsMove({})
    BY <1>0, <1>1, <2>1, <2>3, <2>4, <2>5, OneCallMoves DEF Inv, Typed, WorldTyped
  <2>7. CallsMove({0})
    BY <2>6 DEF CallsMove
  <2> HIDE DEF p
  <2> QED BY <1>2, <1>5, <2>1, <2>2, <2>7, ReconcileStep
<1> QED BY <1>3, <1>4, <1>5

-----------------------------------------------------------------------------
(* The runs of the migration *)

LEMMA Least == ASSUME NEW T \in SUBSET Nat, T # {} PROVE \E m \in T : \A y \in T : m <= y
<1>1. IsWellFoundedOn(OpToRel(<, Nat), Nat)
  BY NatLessThanWellFounded
<1>2. PICK x \in T : \A y \in T : ~ (<<y, x>> \in OpToRel(<, Nat))
  BY <1>1, WFMin
<1>3. \A y \in T : ~ (y < x)
  BY <1>2 DEF OpToRel
<1> QED BY <1>3

\* The one with the most below it.
LEMMA Greatest == ASSUME NEW S \in SUBSET Nat, IsFiniteSet(S), S # {} PROVE \E m \in S : \A y \in S : y <= m
<1> DEFINE UpTo(d) == {e \in S : e <= d}
           Rank(d) == Cardinality(UpTo(d))
           Room == {Cardinality(S) - Rank(d) : d \in S}
<1>1. ASSUME NEW d \in S PROVE IsFiniteSet(UpTo(d)) /\ Rank(d) \in Nat /\ Rank(d) <= Cardinality(S) /\ Cardinality(S) \in Nat
  <2>1. UpTo(d) \in SUBSET S
    OBVIOUS
  <2> HIDE DEF UpTo
  <2> QED BY <2>1, FS_Subset, FS_CardinalityType
<1> HIDE DEF Rank
<1>2. Room \in SUBSET Nat /\ Room # {}
  <2>1. ASSUME NEW k \in Room PROVE k \in Nat
    <3>1. PICK d \in S : k = Cardinality(S) - Rank(d)
      OBVIOUS
    <3> HIDE DEF UpTo
    <3> QED BY <1>1, <3>1
  <2> QED BY <2>1
<1>3. PICK n \in Room : \A k \in Room : n <= k
  <2> HIDE DEF Room
  <2> QED BY <1>2, Least
<1>4. PICK m \in S : n = Cardinality(S) - Rank(m)
  BY <1>3
<1>5. ASSUME NEW e \in S PROVE Rank(e) <= Rank(m)
  <2>1. n <= Cardinality(S) - Rank(e)
    BY <1>3
  <2>2. Rank(e) \in Nat /\ Rank(m) \in Nat /\ Cardinality(S) \in Nat
    BY <1>1
  <2> QED BY <1>4, <2>1, <2>2
<1>6. ASSUME NEW e \in S, ~ (e <= m) PROVE FALSE
  <2>1. UpTo(m) \in SUBSET UpTo(e) /\ UpTo(m) # UpTo(e)
    <3>1. ASSUME NEW y \in UpTo(m) PROVE y \in UpTo(e)
      <4>1. y \in S /\ y <= m /\ y \in Nat /\ m \in Nat /\ e \in Nat
        OBVIOUS
      <4>2. y <= e
        BY <1>6, <4>1
      <4> QED BY <4>1, <4>2
    <3>2. e \in UpTo(e) /\ e \notin UpTo(m)
      BY <1>6
    <3> HIDE DEF UpTo
    <3> QED BY <3>1, <3>2
  <2>2. Rank(m) <= Rank(e) /\ Rank(e) # Rank(m)
    <3>1. IsFiniteSet(UpTo(e))
      BY <1>1
    <3> HIDE DEF UpTo
    <3> QED BY <2>1, <3>1, FS_Subset DEF Rank
  <2>3. Rank(e) <= Rank(m) /\ Rank(e) \in Nat /\ Rank(m) \in Nat
    BY <1>1, <1>5
  <2> QED BY <2>2, <2>3
<1> QED BY <1>6

\* A page leaves out nothing below its last pin, and one that leaves anything
\* out is full.
LEMMA PageFromTheFront ==
  ASSUME NEW r \in Runner
  PROVE  /\ Page(r) \subseteq Listed(r) /\ Listed(r) \subseteq Pins /\ IsFiniteSet(Page(r))
         /\ \A d \in Listed(r) \ Page(r), e \in Page(r) : e < d
         /\ Listed(r) \ Page(r) # {} => Cardinality(Page(r)) = PageSize
<1> DEFINE L == Listed(r)
           P == Page(r)
           UpTo(d) == {e \in L : e <= d}
           Rank(d) == Cardinality(UpTo(d))
<1>1. L \subseteq Nat /\ L \subseteq Pins /\ IsFiniteSet(L) /\ P \subseteq L /\ IsFiniteSet(P) /\ PageSize \in Nat \ {0}
  <2>1. L \in SUBSET Pins /\ P \in SUBSET L /\ Pins \subseteq Nat /\ IsFiniteSet(Pins) /\ PageSize \in Nat \ {0}
    BY AccountingConstants, MigrationConstants DEF Listed, Page
  <2> HIDE DEF L, P
  <2> QED BY <2>1, FS_Subset
<1>2. P = {d \in L : Rank(d) <= PageSize}
  BY DEF Page
<1> HIDE DEF L, P
<1>3. ASSUME NEW d \in L PROVE IsFiniteSet(UpTo(d)) /\ Rank(d) \in Nat
  <2>1. UpTo(d) \subseteq L
    OBVIOUS
  <2> QED BY <1>1, <2>1, FS_Subset, FS_CardinalityType
<1>4. ASSUME NEW d \in L, NEW e \in L, d <= e PROVE Rank(d) <= Rank(e)
  <2>1. UpTo(d) \subseteq UpTo(e)
    <3> SUFFICES ASSUME NEW y \in UpTo(d) PROVE y \in UpTo(e)
      OBVIOUS
    <3>1. y \in L /\ y <= d /\ y \in Nat /\ d \in Nat /\ e \in Nat
      BY <1>1
    <3>2. y <= e
      BY <1>4, <3>1
    <3> QED BY <3>1, <3>2
  <2>2. IsFiniteSet(UpTo(e)) /\ UpTo(d) \in SUBSET UpTo(e)
    BY <1>3, <2>1
  <2> HIDE DEF UpTo
  <2> QED BY <2>2, FS_Subset
<1>5. ASSUME NEW d \in L \ P, NEW e \in P PROVE e < d
  <2>1. d \in L /\ e \in L /\ d \in Nat /\ e \in Nat
    BY <1>1
  <2>2. Rank(d) \in Nat /\ Rank(e) \in Nat /\ Rank(e) <= PageSize /\ ~ (Rank(d) <= PageSize)
    BY <1>2, <1>3, <2>1
  <2>3. ~ (d <= e)
    <3> HIDE DEF Rank
    <3> QED BY <1>1, <1>4, <2>1, <2>2
  <2> QED BY <2>1, <2>3
<1>6. ASSUME L \ P # {} PROVE Cardinality(P) = PageSize
  <2>1. PICK m \in L \ P : \A y \in L \ P : m <= y
    <3>1. L \ P \in SUBSET Nat
      BY <1>1
    <3> QED BY <1>6, <3>1, Least
  <2>2. UpTo(m) = P \cup {m}
    <3>1. m \in L /\ m \in Nat /\ P \subseteq L /\ L \subseteq Nat
      BY <1>1
    <3>2. ASSUME NEW e \in UpTo(m) PROVE e \in P \cup {m}
      BY <2>1, <3>1
    <3>3. ASSUME NEW e \in P PROVE e \in UpTo(m)
      BY <1>5, <3>1
    <3>4. m \in UpTo(m)
      BY <3>1
    <3> HIDE DEF UpTo
    <3> QED BY <3>2, <3>3, <3>4
  <2>3. IsFiniteSet(P) /\ Cardinality(P) \in Nat
    BY <1>1, FS_CardinalityType
  <2>4. Rank(m) = Cardinality(P) + 1
    <3>1. Cardinality(P \cup {m}) = Cardinality(P) + 1
      BY <2>1, <2>3, FS_AddElement
    <3> HIDE DEF UpTo
    <3> QED BY <2>2, <3>1
  <2>5. ~ (Rank(m) <= PageSize)
    BY <1>2, <2>1
  <2>6. Cardinality(P) >= PageSize
    BY <1>1, <2>3, <2>4, <2>5
  <2>7. Cardinality(P) <= PageSize
    <3>1. P # {} /\ P \in SUBSET Nat
      BY <1>1, <2>6, FS_EmptySet
    <3>2. PICK x \in P : \A y \in P : y <= x
      BY <2>3, <3>1, Greatest
    <3>3. x \in L /\ Rank(x) <= PageSize /\ Rank(x) \in Nat /\ IsFiniteSet(UpTo(x))
      BY <1>1, <1>2, <1>3
    <3>4. P \in SUBSET UpTo(x)
      BY <1>1, <3>2
    <3>5. Cardinality(P) <= Rank(x)
      <4> HIDE DEF UpTo
      <4> QED BY <3>3, <3>4, FS_Subset
    <3> HIDE DEF Rank
    <3> QED BY <1>1, <2>3, <3>3, <3>5
  <2> QED BY <1>1, <2>3, <2>6, <2>7
<1> QED BY <1>1, <1>5, <1>6 DEF L, P

\* A full page moves the cursor to its last pin, a short one ends the phase.
LEMMA AfterPage ==
  ASSUME Inv, NEW r \in Runner, NEW next, next = After(runner[r].at, Page(r)), runner[r].at.phase # "none"
  PROVE  /\ next \in Checkpoint /\ next.phase # "none"
         /\ \A p \in Pins : Exists(p) /\ Covers(next, p) /\ ~Covers(runner[r].at, p) => p \in Page(r)
<1> DEFINE at == runner[r].at
           full == Cardinality(Page(r)) = PageSize
           last == CHOOSE p \in Page(r) : \A q \in Page(r) : q <= p
<1>1. at \in Checkpoint
  BY DEF Inv, Typed, MigrationTyped
<1>2. /\ Page(r) \subseteq Listed(r) /\ Listed(r) \subseteq Pins /\ IsFiniteSet(Page(r))
      /\ \A d \in Listed(r) \ Page(r), e \in Page(r) : e < d
      /\ Listed(r) \ Page(r) # {} => Cardinality(Page(r)) = PageSize
  BY PageFromTheFront
<1>3. full => last \in Page(r)
  <2> SUFFICES ASSUME full PROVE \E p \in Page(r) : \A q \in Page(r) : q <= p
    OBVIOUS
  <2>1. Page(r) \in SUBSET Nat /\ Page(r) # {}
    BY <1>2, MigrationConstants, FS_EmptySet
  <2> QED BY <1>2, <2>1, Greatest
<1>4. next = [at EXCEPT !.pages = @ + 1, !.cursor = IF full THEN last ELSE 0,
                        !.phase = IF full THEN @ ELSE IF @ = "pins" THEN "contributions" ELSE "complete"]
  BY DEF After
<1> HIDE DEF last, full, at
<1>5. /\ next.cursor = (IF full THEN last ELSE 0)
      /\ next.phase = (IF full THEN at.phase ELSE IF at.phase = "pins" THEN "contributions" ELSE "complete")
      /\ next \in Checkpoint
  <2>1. (IF full THEN last ELSE 0) \in Cursor
    BY <1>2, <1>3 DEF Cursor
  <2>2. next = [phase |-> IF full THEN at.phase ELSE IF at.phase = "pins" THEN "contributions" ELSE "complete",
                cursor |-> IF full THEN last ELSE 0, pages |-> at.pages + 1, epoch |-> at.epoch]
    BY <1>1, <1>4 DEF Checkpoint
  <2>3. (IF full THEN at.phase ELSE IF at.phase = "pins" THEN "contributions" ELSE "complete") \in Phase \cup {"none"}
    BY <1>1 DEF Checkpoint, Phase
  <2>4. at.pages + 1 \in Nat /\ at.epoch \in Nat
    BY <1>1 DEF Checkpoint
  <2> QED BY <2>1, <2>2, <2>3, <2>4 DEF Checkpoint
<1>6. next.phase # "none"
  BY <1>5 DEF at
<1>7. ASSUME NEW p \in Pins, Exists(p), Covers(next, p), ~Covers(at, p) PROVE p \in Page(r)
  <2>1. at.phase = "pins" /\ ~ (p <= at.cursor)
    BY <1>7 DEF Covers, at
  <2>2. at.cursor \in Nat /\ p \in Nat
    <3>1. at.cursor \in Cursor
      BY <1>1 DEF Checkpoint
    <3>2. Pins \subseteq Nat /\ p \in Nat
      BY MigrationConstants
    <3>3. Cursor \subseteq Nat
      BY <3>2 DEF Cursor
    <3>4. at.cursor \in Nat
      BY <3>1, <3>3
    <3> QED BY <3>2, <3>4
  <2>3. p \in Listed(r)
    BY <1>7, <2>1, <2>2 DEF Listed, at
  <2>4. CASE full
    <3>1. p <= last /\ last \in Page(r) /\ last \in Nat
      BY <1>2, <1>3, <1>5, <1>7, <2>1, <2>4, MigrationConstants DEF Covers
    <3> QED BY <1>2, <2>2, <2>3, <3>1
  <2>5. CASE ~full
    BY <1>2, <2>3, <2>5 DEF full
  <2> QED BY <2>4, <2>5
<1> QED BY <1>5, <1>6, <1>7 DEF at

\* A step of the migration that changes no projection.
LEMMA RunStepQuiet ==
  ASSUME Inv, Begun, UNCHANGED <<world, tombstone, control, inbox, unacked, call, repair>>,
         UNCHANGED <<contribution, index, receipts, saveEvents, profile, head, metaPin, summary, bucket>>,
         \E b \in BOOLEAN : stats' = [stats EXCEPT !.ready = b],
         budget' \in Budget, budget'.commits = budget.commits,
         MigrationTyped', RunnersSound', Covered'
  PROVE  Inv'
<1> USE DEF world
<1>1. /\ stats' \in [pins : Nat, visited : Nat, revision : Nat, ready : BOOLEAN]
      /\ stats'.pins = stats.pins /\ stats'.visited = stats.visited /\ Additions' = Additions
  <2>1. stats \in [pins : Nat, visited : Nat, revision : Nat, ready : BOOLEAN]
    BY DEF Inv, Typed, ProjectionsTyped
  <2>2. Additions' = Additions
    BY DEF Additions
  <2> QED BY <2>1, <2>2
<1>2. Typed'
  <2>1. WorldTyped'
    BY DEF Inv, Typed, WorldTyped
  <2>2. CallsTyped' /\ ProjectionsTyped'
    BY <1>1 DEF Inv, Typed, CallsTyped, ProjectionsTyped
  <2> QED BY <2>1, <2>2 DEF Typed
<1>3. Sound'
  <2>1. WorldSound' /\ CallsSound' /\ SavesSound' /\ StampsSound'
    BY <1>1 DEF Inv, Sound, WorldSound, CallsSound, SavesSound, StampsSound, Exists
  <2>2. OffUntilCutover'
    BY DEF OffUntilCutover, Begun
  <2>3. PointersSound'
    BY DEF Inv, Sound, PointersSound, Live, Projected
  <2> QED BY <2>1, <2>2, <2>3 DEF Sound
<1>4. TotalsMatch'
  BY <1>1 DEF Inv, TotalsMatch, CountersMatch, MetadataMatches, Total, Projected
<1>5. Agreement'
  BY DEF Inv, Agreement, IsLast, Through, Agrees, Reached, CityAgrees, SaveAgrees, Contribution, Exists, Visited, Projected
<1>6. CallsCounted' /\ NothingDropped'
  BY DEF Inv, CallsCounted, Counted, NothingDropped, Shown, Begun
<1> QED BY <1>2, <1>3, <1>4, <1>5, <1>6 DEF Inv

Runs == [pc : {"idle", "read", "work"}, at : Checkpoint, page : SUBSET Pins, next : Checkpoint]

\* One run moves on, and the checkpoint with it.
LEMMA OneRunMoves ==
  ASSUME Inv, NEW r \in Runner, NEW z \in Runs, runner' = [runner EXCEPT ![r] = z],
         z.pc # "idle" => z.at.phase # "none", z.pc = "work" => z.next.phase # "none",
         checkpoint' \in Checkpoint, ready' \in BOOLEAN, ready' => ready,
         UNCHANGED <<world, cutover, contribution>>,
         \A p \in Pins : Due(p) /\ ~Reached(p) =>
           /\ ~Covers(checkpoint', p)
           /\ z.pc # "idle" => ~Covers(z.at, p)
           /\ z.pc = "work" /\ Covers(z.next, p) => p \in z.page
  PROVE  MigrationTyped' /\ RunnersSound' /\ Covered'
<1> USE DEF world
<1>1. runner \in [Runner -> Runs]
  BY DEF Inv, Typed, MigrationTyped, Runs
<1>2. runner' \in [Runner -> Runs] /\ runner'[r] = z /\ \A s \in Runner \ {r} : runner'[s] = runner[s]
  BY <1>1
<1>3. MigrationTyped'
  BY <1>2 DEF MigrationTyped, Runs
<1>4. RunnersSound'
  <2> SUFFICES ASSUME NEW s \in Runner
               PROVE  /\ runner'[s].pc # "idle" => runner'[s].at.phase # "none"
                      /\ runner'[s].pc = "work" => runner'[s].next.phase # "none"
    BY DEF RunnersSound
  <2>1. CASE s = r
    BY <1>2, <2>1
  <2>2. CASE s # r
    BY <1>2, <2>2 DEF Inv, Sound, RunnersSound
  <2> QED BY <2>1, <2>2
<1>5. Covered'
  <2> SUFFICES ASSUME NEW p \in Pins, Due(p)', ~Reached(p)', NEW s \in Runner
               PROVE  /\ ~Covers(checkpoint', p) /\ ~ready'
                      /\ runner'[s].pc # "idle" => ~Covers(runner'[s].at, p)
                      /\ runner'[s].pc = "work" /\ Covers(runner'[s].next, p) => p \in runner'[s].page
    BY DEF Covered, Covers
  <2>1. Due(p) /\ ~Reached(p)
    BY DEF Due, Old, Exists, Reached, Contribution, Visited
  <2>2. CASE s = r
    BY <1>2, <2>1, <2>2 DEF Inv, Covered
  <2>3. CASE s # r
    BY <1>2, <2>1, <2>3 DEF Inv, Covered
  <2> QED BY <2>2, <2>3
<1> QED BY <1>3, <1>4, <1>5

LEMMA RestingRuns == Resting \in Runs /\ NoCheckpoint \in Checkpoint /\ Resting.pc = "idle"
  BY DEF Resting, Runs, NoCheckpoint, Checkpoint, Cursor

LEMMA RunStartsStep == ASSUME Inv, NEW r \in Runner, RunStarts(r) PROVE Inv'
<1> USE DEF world
<1>1. PICK restart \in BOOLEAN :
       LET first == checkpoint.phase = "none" \/ restart
           next  == IF first THEN [phase |-> "pins", cursor |-> 0, pages |-> 0, epoch |-> checkpoint.epoch + 1]
                    ELSE checkpoint
       IN /\ checkpoint' = next
          /\ ready' = (ready /\ ~first)
          /\ stats' = [stats EXCEPT !.ready = @ /\ ~first]
          /\ runner' = [runner EXCEPT ![r] = [Resting EXCEPT !.pc = IF next.phase = "complete" THEN "idle" ELSE "read",
                                                             !.at = next]]
  BY DEF RunStarts
<1> DEFINE first == checkpoint.phase = "none" \/ restart
           fresh == [phase |-> "pins", cursor |-> 0, pages |-> 0, epoch |-> checkpoint.epoch + 1]
           pc    == IF checkpoint'.phase = "complete" THEN "idle" ELSE "read"
           z     == [Resting EXCEPT !.pc = pc, !.at = checkpoint']
<1>2. /\ checkpoint' = IF first THEN fresh ELSE checkpoint
      /\ ready' = (ready /\ ~first) /\ stats' = [stats EXCEPT !.ready = @ /\ ~first]
      /\ runner' = [runner EXCEPT ![r] = z]
  BY <1>1
<1>3. checkpoint \in Checkpoint /\ ready \in BOOLEAN
      /\ stats \in [pins : Nat, visited : Nat, revision : Nat, ready : BOOLEAN]
  BY DEF Inv, Typed, MigrationTyped, ProjectionsTyped
<1>4. fresh \in Checkpoint /\ fresh.phase = "pins" /\ fresh.cursor = 0
  <2>1. checkpoint.epoch + 1 \in Nat /\ 0 \in Cursor /\ "pins" \in Phase
    BY <1>3 DEF Checkpoint, Cursor, Phase
  <2> QED BY <2>1 DEF Checkpoint
<1> HIDE DEF fresh, first
<1>5. checkpoint' \in Checkpoint /\ checkpoint'.phase # "none"
  BY <1>2, <1>3, <1>4 DEF first
<1>6. z \in Runs /\ z.pc = pc /\ z.at = checkpoint'
  BY <1>5, RestingRuns DEF Resting, Runs
<1> HIDE DEF z
<1>7. ASSUME NEW p \in Pins, Due(p), ~Reached(p) PROVE ~Covers(checkpoint', p)
  <2>1. CASE first
    <3>1. p \in Nat \ {0}
      BY MigrationConstants
    <3> QED BY <1>2, <1>4, <2>1, <3>1 DEF Covers
  <2>2. CASE ~first
    BY <1>2, <1>7, <2>2 DEF Inv, Covered
  <2> QED BY <2>1, <2>2
<1>8. UNCHANGED <<world, tombstone, control, inbox, unacked, call, repair>>
      /\ UNCHANGED <<contribution, index, receipts, saveEvents, profile, head, metaPin, summary, bucket>>
      /\ Begun
  BY CaptureBegan DEF RunStarts, OnlyMigration
<1>9. budget' \in Budget /\ budget'.commits = budget.commits
  <2>1. budget \in Budget
    BY DEF Inv, Typed, WorldTyped
  <2> QED BY <2>1, BudgetSpent DEF RunStarts
<1>10. \E b \in BOOLEAN : stats' = [stats EXCEPT !.ready = b]
  <2>1. stats' = [stats EXCEPT !.ready = stats.ready /\ ~first]
    BY <1>2
  <2>2. (stats.ready /\ ~first) \in BOOLEAN
    OBVIOUS
  <2> QED BY <2>1, <2>2
<1>11. ready' \in BOOLEAN /\ (ready' => ready)
  BY <1>2, <1>3
<1>12. z.pc = "idle" \/ z.pc = "read"
  BY <1>6
<1>13. MigrationTyped' /\ RunnersSound' /\ Covered'
  BY <1>2, <1>5, <1>6, <1>7, <1>8, <1>11, <1>12, OneRunMoves
<1> QED BY <1>8, <1>9, <1>10, <1>13, RunStepQuiet

LEMMA RunReadsStep == ASSUME Inv, NEW r \in Runner, RunReads(r) PROVE Inv'
<1> USE DEF world, vars, projections
<1> DEFINE at == runner[r].at
           page == Page(r)
           next == After(at, page)
           z == [pc |-> "work", at |-> at, page |-> page, next |-> next]
<1>1. runner[r].pc = "read" /\ UNCHANGED <<vars, checkpoint, ready>>
      /\ runner' = [runner EXCEPT ![r] = [runner[r] EXCEPT !.pc = "work", !.page = page, !.next = next]]
  BY DEF RunReads
<1>2. runner[r] \in Runs /\ checkpoint \in Checkpoint /\ ready \in BOOLEAN
      /\ stats \in [pins : Nat, visited : Nat, revision : Nat, ready : BOOLEAN] /\ budget \in Budget
  BY DEF Inv, Typed, WorldTyped, MigrationTyped, ProjectionsTyped, Runs
<1>3. at.phase # "none" /\ Begun
  <2>1. runner[r].pc # "idle"
    BY <1>1
  <2>2. Begun
    BY <2>1 DEF Inv, Sound, OffUntilCutover, Off
  <2>3. at.phase # "none"
    BY <2>1 DEF Inv, Sound, RunnersSound
  <2> QED BY <2>2, <2>3
<1>4. next \in Checkpoint /\ next.phase # "none"
      /\ \A p \in Pins : Exists(p) /\ Covers(next, p) /\ ~Covers(at, p) => p \in page
  BY <1>3, AfterPage
<1>5. page \subseteq Pins
  BY DEF Page, Listed
<1> HIDE DEF page, next
<1>6. [runner[r] EXCEPT !.pc = "work", !.page = page, !.next = next] = z
  <2>1. \A x \in Runs : \A s, n : [x EXCEPT !.pc = "work", !.page = s, !.next = n] = [pc |-> "work", at |-> x.at, page |-> s, next |-> n]
    <3> SUFFICES ASSUME NEW x \in Runs, NEW s, NEW n
                 PROVE  [x EXCEPT !.pc = "work", !.page = s, !.next = n] = [pc |-> "work", at |-> x.at, page |-> s, next |-> n]
      OBVIOUS
    <3>1. [x EXCEPT !.pc = "work"] = [pc |-> "work", at |-> x.at, page |-> x.page, next |-> x.next]
      BY DEF Runs
    <3>2. [[pc |-> "work", at |-> x.at, page |-> x.page, next |-> x.next] EXCEPT !.page = s]
          = [pc |-> "work", at |-> x.at, page |-> s, next |-> x.next]
      OBVIOUS
    <3>3. [[pc |-> "work", at |-> x.at, page |-> s, next |-> x.next] EXCEPT !.next = n]
          = [pc |-> "work", at |-> x.at, page |-> s, next |-> n]
      OBVIOUS
    <3> QED BY <3>1, <3>2, <3>3
  <2> QED BY <1>2, <2>1
<1>7. z \in Runs
  BY <1>2, <1>4, <1>5 DEF Runs
<1>8. runner' = [runner EXCEPT ![r] = z]
  BY <1>1, <1>6
<1>9. ASSUME NEW p \in Pins, Due(p), ~Reached(p)
      PROVE  ~Covers(checkpoint', p) /\ ~Covers(at, p) /\ (Covers(next, p) => p \in page)
  BY <1>1, <1>4, <1>9 DEF Inv, Covered, Due
<1>10. z.pc = "work" /\ z.at = at /\ z.page = page /\ z.next = next
  OBVIOUS
<1> HIDE DEF z
<1>11. MigrationTyped' /\ RunnersSound' /\ Covered'
  BY <1>1, <1>2, <1>3, <1>4, <1>7, <1>8, <1>9, <1>10, OneRunMoves
<1>12. stats' = [stats EXCEPT !.ready = stats.ready] /\ stats.ready \in BOOLEAN
  BY <1>1, <1>2
<1> QED BY <1>1, <1>2, <1>3, <1>11, <1>12, RunStepQuiet

\* A run that ends.
LEMMA RunEnds ==
  ASSUME Inv, NEW r \in Runner, runner[r].pc # "idle", Ends(r), UNCHANGED <<vars, checkpoint, ready>>
  PROVE  Inv'
<1> USE DEF world, vars, projections
<1>1. runner' = [runner EXCEPT ![r] = Resting] /\ Resting \in Runs /\ Resting.pc = "idle"
  BY RestingRuns DEF Ends
<1>2. Begun
  BY DEF Inv, Sound, OffUntilCutover, Off
<1>3. checkpoint \in Checkpoint /\ ready \in BOOLEAN
      /\ stats \in [pins : Nat, visited : Nat, revision : Nat, ready : BOOLEAN] /\ budget \in Budget
  BY DEF Inv, Typed, WorldTyped, MigrationTyped, ProjectionsTyped
<1>4. \A p \in Pins : Due(p) /\ ~Reached(p) => ~Covers(checkpoint', p)
  BY DEF Inv, Covered
<1>5. MigrationTyped' /\ RunnersSound' /\ Covered'
  BY <1>1, <1>3, <1>4, OneRunMoves
<1>6. stats' = [stats EXCEPT !.ready = stats.ready] /\ stats.ready \in BOOLEAN
  BY <1>3
<1> QED BY <1>2, <1>3, <1>5, <1>6, RunStepQuiet

LEMMA RunSavesStep == ASSUME Inv, NEW r \in Runner, RunSaves(r) PROVE Inv'
<1> USE DEF world, vars, projections
<1>1. CASE ~(Enabled /\ Active /\ checkpoint = runner[r].at)
  BY <1>1, RunEnds DEF RunSaves
<1>2. CASE Enabled /\ Active /\ checkpoint = runner[r].at
  <2> DEFINE next == runner[r].next
             pc == IF next.phase = "complete" THEN "idle" ELSE "read"
             z == [Resting EXCEPT !.pc = pc, !.at = next]
  <2>1. /\ runner[r].pc = "work" /\ runner[r].page = {} /\ UNCHANGED <<vars, ready>>
        /\ checkpoint' = next /\ runner' = [runner EXCEPT ![r] = z]
    BY <1>2 DEF RunSaves
  <2>2. runner[r] \in Runs /\ ready \in BOOLEAN
        /\ stats \in [pins : Nat, visited : Nat, revision : Nat, ready : BOOLEAN] /\ budget \in Budget
    BY DEF Inv, Typed, WorldTyped, MigrationTyped, ProjectionsTyped, Runs
  <2>3. next \in Checkpoint /\ next.phase # "none" /\ Begun
    <3>1. Begun
      BY <2>1 DEF Inv, Sound, OffUntilCutover, Off
    <3>2. next.phase # "none"
      BY <2>1 DEF Inv, Sound, RunnersSound
    <3>3. next \in Checkpoint
      BY <2>2 DEF Runs
    <3> QED BY <3>1, <3>2, <3>3
  <2>4. z \in Runs /\ z.pc \in {"idle", "read"} /\ z.at = next
    BY <2>3, RestingRuns DEF Resting, Runs
  <2>5. \A p \in Pins : Due(p) /\ ~Reached(p) => ~Covers(next, p)
    BY <2>1 DEF Inv, Covered
  <2> HIDE DEF z, next
  <2>6. MigrationTyped' /\ RunnersSound' /\ Covered'
    BY <2>1, <2>2, <2>3, <2>4, <2>5, OneRunMoves
  <2>7. stats' = [stats EXCEPT !.ready = stats.ready] /\ stats.ready \in BOOLEAN
    BY <2>1, <2>2
  <2> QED BY <2>1, <2>2, <2>3, <2>6, <2>7, RunStepQuiet
<1> QED BY <1>1, <1>2

LEMMA RunReconcilesStep == ASSUME Inv, NEW r \in Runner, RunReconciles(r) PROVE Inv'
<1>1. PICK p \in runner[r].page :
        IF Enabled /\ Active /\ (Exists(p) \/ contribution[p].known)
        THEN Reconcile(p, 0) /\ runner' = [runner EXCEPT ![r].page = @ \ {p}]
        ELSE UNCHANGED projections /\ Ends(r)
  BY DEF RunReconciles
<1>2. /\ runner[r].pc = "work" /\ UNCHANGED <<world, tombstone, control, inbox, unacked, call, repair>>
      /\ UNCHANGED <<checkpoint, ready, budget>>
  BY DEF RunReconciles, OnlyMigration
<1>3. CASE ~(Enabled /\ Active /\ (Exists(p) \/ contribution[p].known))
  <2>1. UNCHANGED <<vars, checkpoint, ready>> /\ Ends(r)
    BY <1>1, <1>2, <1>3 DEF vars
  <2> QED BY <1>2, <2>1, RunEnds
<1>4. CASE Enabled /\ Active /\ (Exists(p) \/ contribution[p].known)
  <2>1. Reconcile(p, 0) /\ runner' = [runner EXCEPT ![r].page = @ \ {p}] /\ Active
    BY <1>1, <1>4
  <2>2. p \in Pins /\ Of(p, 0)
    <3>1. runner[r].page \subseteq Pins
      BY DEF Inv, Typed, MigrationTyped
    <3> QED BY <3>1 DEF Of
  <2>3. Begun
    BY <1>2 DEF Inv, Sound, OffUntilCutover, Off
  <2>4. receipts' = receipts
    BY <2>1 DEF Reconcile, ProjectHistory, IsEvent
  <2>5. CallsMove({0})
    <3>1. CallsTyped' /\ CallsSound'
      BY <1>2 DEF Inv, Typed, CallsTyped, Sound, CallsSound, world
    <3>2. CallsCounted' /\ NothingDropped'
      BY <1>2, <2>4 DEF Inv, CallsCounted, Counted, NothingDropped, Shown, Begun, world
    <3>3. \A t \in Time : Through(t)' => Through(t)
      BY <1>2 DEF Through
    <3> QED BY <1>2, <2>3, <3>1, <3>2, <3>3 DEF CallsMove, Inv, Typed, WorldTyped
  <2> QED BY <1>2, <2>1, <2>2, <2>3, <2>5, ReconcileStep
<1> QED BY <1>3, <1>4

\* What the verification accepts has every pin reached.
LEMMA ActivateStep == ASSUME Inv, Activate PROVE Inv'
<1> USE DEF world
<1>1. /\ UNCHANGED <<world, tombstone, control, inbox, unacked, call, repair>>
      /\ UNCHANGED <<contribution, index, receipts, saveEvents, profile, head, metaPin, summary, bucket,
                     checkpoint, runner, budget>>
      /\ ready' = TRUE /\ stats' = [stats EXCEPT !.ready = TRUE] /\ Begun
  BY CaptureBegan DEF Activate, OnlyMigration, Valid
<1>2. MigrationTyped' /\ RunnersSound'
  BY <1>1 DEF Inv, Typed, MigrationTyped, Sound, RunnersSound
<1>3. ASSUME NEW p \in Pins, Due(p) PROVE Reached(p)
  BY <1>3 DEF Due, Reached, Activate, Valid
<1>4. ASSUME NEW p \in Pins PROVE Due(p)' => Reached(p)'
  BY <1>1, <1>3 DEF Due, Old, Exists, Reached, Contribution, Visited
<1>5. Covered'
  BY <1>4 DEF Covered
<1>6. budget \in Budget
  BY DEF Inv, Typed, WorldTyped
<1> QED BY <1>1, <1>2, <1>5, <1>6, RunStepQuiet

-----------------------------------------------------------------------------
(* The owner and the account *)

\* What Commits does, for any kind of commit.
LEMMA CommitsIs ==
  ASSUME Inv, NEW p \in Pins, NEW kind \in {"created", "deleted", "updated", "visit"}, NEW adds \in Nat,
         Commits(p, kind, adds), pin'[p] \in Pin
  PROVE  /\ \E e \in Commit : e.pin = p /\ commits' = Append(commits, e)
         /\ unacked' = unacked \cup {Now} /\ Now \in Gen
         /\ budget' \in Budget /\ budget'.commits = budget.commits - 1
         /\ UNCHANGED <<account, accounts, buried, tombstone, control, inbox, call, repair, projections>>
<1>1. budget \in Budget /\ budget.commits > 0 /\ budget' = [budget EXCEPT !.commits = @ - 1]
  BY DEF Commits, Inv, Typed, WorldTyped
<1>2. Now \in Gen
  <2>1. Len(commits) \in Nat /\ Len(commits) + budget.commits <= MaxCommits /\ budget.commits \in Nat
    BY <1>1, CommitsInTime, AccountingConstants DEF Inv, Typed, WorldTyped, Budget
  <2> QED BY <1>1, <2>1, AccountingConstants DEF Now, Gen
<1>3. [pin |-> p, kind |-> kind, adds |-> adds, city |-> pin'[p].city] \in Commit
  BY DEF Commit, Pin
<1>4. \E e \in Commit : e.pin = p /\ commits' = Append(commits, e)
  <2>1. commits' = Append(commits, [pin |-> p, kind |-> kind, adds |-> adds, city |-> pin'[p].city])
    BY DEF Commits
  <2>2. [pin |-> p, kind |-> kind, adds |-> adds, city |-> pin'[p].city].pin = p
    OBVIOUS
  <2> QED BY <1>3, <2>1, <2>2
<1> QED BY <1>1, <1>2, <1>4, BudgetSpent DEF Commits

LEMMA OwnerWrites ==
  ASSUME Inv, NEW p \in Pins, CreatePin(p) \/ UpdatePin(p) \/ DeletePin(p) \/ WriteVisit(p), UNCHANGED migration
  PROVE  Writes(p)
<1>1. /\ pin \in [Pins -> Pin] /\ visit \in [Pins -> [time : Gen, on : BOOLEAN]]
      /\ Exists(p) => pin[p].city \in Cities
  BY DEF Inv, Typed, WorldTyped, Sound, WorldSound
<1>2. Now \in Nat
  BY CommitsInTime DEF Now
<1>3. CASE CreatePin(p)
  <2>1. PICK k \in SUBSET Sources, c \in Cities :
               pin' = [pin EXCEPT ![p] = [gen |-> Now, keys |-> k, city |-> c, visited |-> FALSE]]
    BY <1>3 DEF CreatePin
  <2>2. Now \in Gen
    <3>1. Len(commits) + budget.commits <= MaxCommits /\ budget.commits \in Nat /\ budget.commits > 0 /\ Len(commits) \in Nat
      BY <1>3, CommitsInTime, AccountingConstants DEF CreatePin, Commits, Inv, Typed, WorldTyped, Budget
    <3> QED BY <3>1, AccountingConstants DEF Now, Gen
  <2>3. [gen |-> Now, keys |-> k, city |-> c, visited |-> FALSE] \in Pin
    BY <2>2 DEF Pin
  <2>4. pin' \in [Pins -> Pin] /\ pin'[p] = [gen |-> Now, keys |-> k, city |-> c, visited |-> FALSE]
        /\ \A q \in Pins \ {p} : pin'[q] = pin[q]
    BY <1>1, <2>1, <2>3
  <2>5. Commits(p, "created", 0) /\ UNCHANGED visit
    BY <1>3 DEF CreatePin
  <2> QED BY <1>1, <2>4, <2>5, CommitsIs DEF Writes
<1>4. CASE UpdatePin(p)
  <2>0. pin[p].city \in Cities /\ pin[p] \in Pin /\ UNCHANGED visit
    BY <1>1, <1>4 DEF UpdatePin, Exists
  <2>1. ASSUME NEW z \in Pin, NEW adds \in Nat, pin' = [pin EXCEPT ![p] = z], z.gen = pin[p].gen, z.city \in Cities,
               Commits(p, "updated", adds)
        PROVE  Writes(p)
    <3>1. pin' \in [Pins -> Pin] /\ pin'[p] = z /\ \A q \in Pins \ {p} : pin'[q] = pin[q]
      BY <1>1, <2>1
    <3> QED BY <1>1, <2>0, <2>1, <3>1, CommitsIs DEF Writes
  <2>2. ASSUME NEW k \in SUBSET Sources, pin' = [pin EXCEPT ![p].keys = k], Commits(p, "updated", Cardinality(k \ pin[p].keys))
        PROVE  Writes(p)
    <3>1. Cardinality(k \ pin[p].keys) \in Nat
      <4>1. (k \ pin[p].keys) \in SUBSET Sources
        OBVIOUS
      <4> QED BY <4>1, AccountingConstants, FS_Subset, FS_CardinalityType
    <3>2. PICK z \in Pin : z = [pin[p] EXCEPT !.keys = k]
      BY <2>0 DEF Pin
    <3>3. z.gen = pin[p].gen /\ z.city \in Cities
      BY <2>0, <3>2 DEF Pin
    <3>4. pin' = [pin EXCEPT ![p] = z]
      BY <2>2, <3>2
    <3> QED BY <2>1, <2>2, <3>1, <3>3, <3>4
  <2>3. ASSUME NEW c \in Cities, pin' = [pin EXCEPT ![p].city = c], Commits(p, "updated", 0)
        PROVE  Writes(p)
    <3>1. PICK z \in Pin : z = [pin[p] EXCEPT !.city = c]
      BY <2>0 DEF Pin
    <3>2. z.gen = pin[p].gen /\ z.city \in Cities
      BY <2>0, <3>1 DEF Pin
    <3>3. pin' = [pin EXCEPT ![p] = z]
      BY <2>3, <3>1
    <3> QED BY <2>1, <2>3, <3>2, <3>3
  <2>4. ASSUME pin' = [pin EXCEPT ![p].visited = ~@], Commits(p, "updated", 0)
        PROVE  Writes(p)
    <3>1. PICK z \in Pin : z = [pin[p] EXCEPT !.visited = ~@]
      BY <2>0 DEF Pin
    <3>2. z.gen = pin[p].gen /\ z.city \in Cities
      BY <2>0, <3>1 DEF Pin
    <3>3. pin' = [pin EXCEPT ![p] = z]
      BY <2>4, <3>1
    <3> QED BY <2>1, <2>4, <3>2, <3>3
  <2> QED BY <1>4, <2>2, <2>3, <2>4 DEF UpdatePin
<1>5. CASE DeletePin(p)
  <2>1. NoPin \in Pin /\ NoPin.gen = 0
    BY AccountingConstants DEF NoPin, Pin, Gen
  <2>2. pin' = [pin EXCEPT ![p] = NoPin] /\ Commits(p, "deleted", 0) /\ UNCHANGED visit
    BY <1>5 DEF DeletePin
  <2>3. pin' \in [Pins -> Pin] /\ pin'[p] = NoPin /\ \A q \in Pins \ {p} : pin'[q] = pin[q]
    BY <1>1, <2>1, <2>2
  <2> QED BY <1>1, <2>1, <2>2, <2>3, CommitsIs DEF Writes
<1>6. CASE WriteVisit(p)
  <2>1. UNCHANGED pin /\ visit' = [visit EXCEPT ![p] = [time |-> Now, on |-> ~visit[p].on]] /\ Commits(p, "visit", 0)
    BY <1>6 DEF WriteVisit
  <2>2. pin'[p] \in Pin
    BY <1>1, <2>1
  <2>3. /\ \E e \in Commit : e.pin = p /\ commits' = Append(commits, e)
        /\ unacked' = unacked \cup {Now} /\ Now \in Gen
        /\ budget' \in Budget /\ budget'.commits = budget.commits - 1
        /\ UNCHANGED <<account, accounts, buried, tombstone, control, inbox, call, repair, projections>>
    BY <2>1, <2>2, CommitsIs
  <2>4. [time |-> Now, on |-> ~visit[p].on] \in [time : Gen, on : BOOLEAN]
    BY <2>3
  <2>5. visit' \in [Pins -> [time : Gen, on : BOOLEAN]] /\ \A q \in Pins \ {p} : visit'[q] = visit[q]
    BY <1>1, <2>1, <2>4
  <2> QED BY <1>1, <2>1, <2>3, <2>5 DEF Writes, Exists
<1> QED BY <1>3, <1>4, <1>5, <1>6

LEMMA AccountMoves ==
  ASSUME Inv, CreateUser \/ DeleteUser \/ \E g \in buried : Bury(g), UNCHANGED migration
  PROVE  Accounts
<1>1. /\ account \in Acc /\ accounts \in Acc /\ buried \subseteq Acc /\ tombstone \in Acc /\ budget \in Budget
      /\ account \in {0, accounts} /\ accounts # 0 /\ 0 \in Acc /\ MaxAccounts \in Nat
  BY AccountingConstants DEF Inv, Typed, WorldTyped, Sound, WorldSound, Acc
<1>2. CASE CreateUser
  <2>1. accounts + 1 \in Acc /\ accounts + 1 # 0
    BY <1>1, <1>2 DEF CreateUser, Acc
  <2> QED BY <1>1, <1>2, <2>1 DEF CreateUser, Accounts
<1>3. CASE DeleteUser
  <2>1. budget' \in Budget /\ budget'.commits = budget.commits
    BY <1>1, <1>3, BudgetSpent DEF DeleteUser
  <2> QED BY <1>1, <1>3, <2>1 DEF DeleteUser, Accounts
<1>4. ASSUME NEW g \in buried, Bury(g) PROVE Accounts
  BY <1>1, <1>4 DEF Bury, Accounts
<1> QED BY <1>2, <1>3, <1>4

-----------------------------------------------------------------------------
(* The invariant *)

\* Nothing is projected and nothing called; whatever was committed is of before
\* the cutover.
LEMMA QuietWorld ==
  ASSUME InitElse, checkpoint = NoCheckpoint, ready = FALSE, runner = [r \in Runner |-> Resting],
         pin \in [Pins -> Pin], commits \in Seq(Commit), Len(commits) + budget.commits <= MaxCommits,
         cutover \in 0..Len(commits) + 1, capturing \in BOOLEAN, capturing => cutover # 0, WorldSound,
         \A t \in 1..Len(commits) : t < cutover
  PROVE  Inv
<1> USE DEF InitElse
<1>1. 1 \in Acc /\ 0 \in Acc /\ 0 \in Gen /\ Acc \subseteq Nat /\ IsFiniteSet(Pins) /\ Budgets \subseteq Budget /\ Len(commits) \in Nat
  BY AccountingConstants DEF Acc, Gen
<1>2. WorldTyped
  BY <1>1 DEF WorldTyped
<1>3. CallsTyped
  BY <1>1 DEF CallsTyped, Idle
<1>4. ProjectionsTyped
  <2>1. NoDoc \in [exists : BOOLEAN, visited : BOOLEAN, gen : Gen, keys : SUBSET Sources, known : BOOLEAN]
    BY <1>1 DEF NoDoc
  <2>2. [exists |-> FALSE, acc |-> 0, city |-> "none"] \in [exists : BOOLEAN, acc : Acc, city : Cities \cup {"none"}]
    BY <1>1
  <2>3. [acc |-> 0, gen |-> 0] \in [acc : Acc, gen : Gen] /\ [acc |-> 0, n |-> 0] \in [acc : Acc, n : Nat]
    BY <1>1
  <2>4. profile \in [saves : Nat, adds : Nat, last : Gen, city : Cities \cup {"none"}]
    BY <1>1
  <2> QED BY <2>1, <2>2, <2>3, <2>4 DEF ProjectionsTyped
<1>5. MigrationTyped
  BY RestingRuns DEF MigrationTyped, Runs
<1>12. Additions = {} /\ IsFiniteSet(Additions) /\ Cardinality(Additions) = 0
  <2>1. Additions = {}
    BY DEF Additions
  <2> QED BY <2>1, FS_EmptySet
<1>6. CallsSound /\ RunnersSound /\ SavesSound /\ StampsSound
  BY <1>12 DEF CallsSound, Idle, RunnersSound, Resting, SavesSound, StampsSound
<1>7. Off
  BY DEF Off, Idle, NoCheckpoint, Resting
<1>8. \A p \in Pins : ~Projected(p)
  BY DEF Projected
<1>9. PointersSound
  BY <1>8 DEF PointersSound, Live
<1>10. TotalsMatch
  <2>1. /\ {p \in Pins : contribution[p].exists} = {} /\ {p \in Pins : contribution[p].visited} = {}
        /\ {r \in Pins \X Sources : r[2] \in contribution[r[1]].keys} = {}
        /\ {t \in saveEvents : commits[t].kind = "created"} = {}
    BY DEF NoDoc
  <2>2. CountersMatch
    BY <1>12, <2>1, FS_EmptySet DEF CountersMatch
  <2>3. /\ {p \in Pins : Projected(p)} = {}
        /\ \A c \in Cities : {p \in Pins : Projected(p) /\ metaPin[p][head[p].gen].city = c} = {}
    BY <1>8
  <2>4. Total(summary) = 0 /\ \A c \in Cities : Total(bucket[c]) = 0
    BY DEF Total
  <2>5. MetadataMatches
    BY <2>3, <2>4, FS_EmptySet DEF MetadataMatches
  <2> QED BY <2>2, <2>5 DEF TotalsMatch
<1>11. Agreement /\ CallsCounted /\ NothingDropped /\ Covered
  <2>1. Agreement /\ CallsCounted
    BY DEF Agreement, Through, CallsCounted, Idle
  <2>2. NothingDropped
    <3>1. cutover \in Nat
      BY <1>1
    <3> QED BY <1>1, <3>1 DEF NothingDropped
  <2>3. Covered
    BY DEF Covered, Covers, Resting, NoCheckpoint
  <2> QED BY <2>1, <2>2, <2>3
<1> QED BY <1>2, <1>3, <1>4, <1>5, <1>6, <1>7, <1>9, <1>10, <1>11 DEF Inv, Typed, Sound, OffUntilCutover

LEMMA InvInit == ASSUME MigrationInit PROVE Inv
<1>1. checkpoint = NoCheckpoint /\ ready = FALSE /\ runner = [r \in Runner |-> Resting] /\ InitElse
  BY DEF MigrationInit, Resting, Init
<1>2. budget \in Budget /\ account = 1 /\ accounts = 1 /\ budget.commits \in Nat /\ budget.commits <= MaxCommits /\ MaxCommits \in Nat
  BY <1>1, AccountingConstants DEF InitElse, Budget
<1>3. NoPin \in Pin
  BY AccountingConstants DEF NoPin, Pin, Gen
<1>4. CASE Init
  <2>1. pin = [p \in Pins |-> NoPin] /\ commits = <<>> /\ cutover = Bit(~budget.late) /\ capturing = ~budget.late
    BY <1>4 DEF Init
  <2>6. capturing \in BOOLEAN /\ (capturing => cutover # 0)
    <3>1. budget.late \in BOOLEAN
      BY <1>2 DEF Budget
    <3>2. CASE budget.late
      BY <2>1, <3>2
    <3>3. CASE ~budget.late
      BY <2>1, <3>3 DEF Bit
    <3> QED BY <3>1, <3>2, <3>3
  <2>2. pin \in [Pins -> Pin] /\ commits \in Seq(Commit) /\ Len(commits) = 0
    BY <1>3, <2>1
  <2>3. WorldSound
    BY <1>2, <2>1 DEF WorldSound, Exists, NoPin
  <2>4. cutover \in 0..Len(commits) + 1 /\ \A t \in 1..Len(commits) : t < cutover
    BY <2>1, <2>2 DEF Bit
  <2>5. Len(commits) + budget.commits <= MaxCommits
    BY <1>2, <2>2
  <2> QED BY <1>1, <2>2, <2>3, <2>4, <2>5, <2>6, QuietWorld
<1>5. CASE \E order \in OldOrders, c \in Cities : OldPins(order, c)
  <2>1. PICK n \in 1..MaxCommits - budget.commits : \E order \in Injection(1..n, Pins), c \in Cities : OldPins(order, c)
    BY <1>5 DEF OldOrders
  <2>2. PICK order \in Injection(1..n, Pins), c \in Cities : OldPins(order, c)
    BY <2>1
  <2>3. order \in [1..n -> Pins] /\ DOMAIN order = 1..n /\ Len(order) = n /\ n \in Nat
        /\ \A i, j \in 1..n : order[i] = order[j] => i = j
    BY <2>2 DEF Injection, IsInjective
  <2>4. /\ commits = [i \in 1..n |-> [pin |-> order[i], kind |-> "created", adds |-> 0, city |-> c]]
        /\ cutover = n + 1 /\ capturing = TRUE
        /\ pin = [p \in Pins |-> IF \E i \in 1..n : order[i] = p
                                  THEN [gen |-> CHOOSE i \in 1..n : order[i] = p, keys |-> Sources, city |-> c, visited |-> FALSE]
                                  ELSE NoPin]
    BY <2>2, <2>3 DEF OldPins
  <2>5. n + budget.commits <= MaxCommits
    BY <1>2, <2>1
  <2>6. commits \in Seq(Commit) /\ Len(commits) = n
    <3>1. ASSUME NEW i \in 1..n PROVE [pin |-> order[i], kind |-> "created", adds |-> 0, city |-> c] \in Commit
      BY <2>3 DEF Commit
    <3>2. commits \in [1..n -> Commit]
      BY <2>4, <3>1
    <3> QED BY <2>3, <3>2
  <2>7. ASSUME NEW p \in Pins
        PROVE  /\ pin[p] \in Pin
               /\ pin[p].gen # 0 => pin[p].gen \in 1..n /\ order[pin[p].gen] = p /\ pin[p].city = c
    <3>1. CASE \E i \in 1..n : order[i] = p
      <4>1. PICK k : k = CHOOSE i \in 1..n : order[i] = p
        OBVIOUS
      <4>2. k \in 1..n /\ order[k] = p
        BY <3>1, <4>1
      <4>3. pin[p] = [gen |-> k, keys |-> Sources, city |-> c, visited |-> FALSE]
        BY <2>4, <3>1, <4>1
      <4>4. k \in Gen
        BY <1>2, <2>3, <2>5, <4>2 DEF Gen
      <4> QED BY <4>2, <4>3, <4>4 DEF Pin
    <3>2. CASE ~ \E i \in 1..n : order[i] = p
      BY <1>3, <2>4, <3>2 DEF NoPin
    <3> QED BY <3>1, <3>2
  <2>8. pin \in [Pins -> Pin]
    <3>1. pin = [p \in Pins |-> pin[p]]
      BY <2>4
    <3> QED BY <2>7, <3>1
  <2>9. WorldSound
    <3>1. ASSUME NEW p \in Pins, pin[p].gen # 0 PROVE commits[pin[p].gen].pin = p /\ pin[p].gen \in 1..Len(commits) /\ pin[p].city \in Cities
      BY <2>4, <2>6, <2>7, <3>1
    <3> QED BY <1>2, <3>1 DEF WorldSound, Exists
  <2>10. cutover \in 0..Len(commits) + 1 /\ \A t \in 1..Len(commits) : t < cutover
    BY <2>3, <2>4, <2>6
  <2>11. Len(commits) + budget.commits <= MaxCommits
    BY <2>5, <2>6
  <2>12. capturing \in BOOLEAN /\ (capturing => cutover # 0)
    BY <2>3, <2>4
  <2> QED BY <1>1, <2>6, <2>8, <2>9, <2>10, <2>11, <2>12, QuietWorld
<1> QED BY <1>4, <1>5 DEF MigrationInit

LEMMA InvStep == ASSUME Inv, [MigrationNext]_allVars PROVE Inv'
<1>1. CASE Next /\ UNCHANGED migration
  <2>1. ASSUME NEW p \in Pins, CreatePin(p) \/ UpdatePin(p) \/ DeletePin(p) \/ WriteVisit(p) PROVE Inv'
    BY <1>1, <2>1, OwnerWrites, WritesStep
  <2>2. CASE CreateUser \/ DeleteUser \/ \E g \in buried : Bury(g)
    BY <1>1, <2>2, AccountMoves, AccountsStep
  <2>3. CASE InitializeCapture /\ ~Begun
    BY <1>1, <2>3, CaptureStep
  <2>7. CASE PauseCapture \/ (InitializeCapture /\ Begun)
    BY <1>1, <2>7, SwitchStep, QuietStep
  <2>4. CASE RepairStarts \/ RepairNext \/ \E c \in Trigger, t \in Time : Capture(c, t)
    BY <1>1, <2>4, InboxStep, QuietStep
  <2>5. ASSUME NEW c \in Caller, Read(c) \/ Finish(c) \/ Park(c) \/ Fails(c) \/ Dies(c) PROVE Inv'
    BY <1>1, <2>5, CallStep, QuietStep
  <2>6. ASSUME NEW c \in Caller, Apply(c) \/ Again(c) PROVE Inv'
    BY <1>1, <2>6, ApplyStep
  <2> QED BY <1>1, <2>1, <2>2, <2>3, <2>4, <2>5, <2>6, <2>7, NextUnfolds
<1>2. ASSUME NEW r \in Runner, RunStep(r) PROVE Inv'
  <2>1. CASE RunStops(r)
    BY <2>1, RunEnds DEF RunStops
  <2> QED BY <1>2, <2>1, RunStartsStep, RunReadsStep, RunReconcilesStep, RunSavesStep DEF RunStep
<1>3. CASE Activate
  BY <1>3, ActivateStep
<1>4. CASE UNCHANGED allVars
  <2>1. UNCHANGED <<vars, checkpoint, ready, runner>>
    BY <1>4 DEF allVars, migration
  <2>2. UNCHANGED <<projections, migration>> /\ CallsMove({})
    <3>1. UNCHANGED <<world, tombstone, control, inbox, unacked, call, repair, budget, receipts, commits>>
      BY <2>1 DEF vars, projections, world
    <3>2. CallsTyped' /\ CallsSound' /\ CallsCounted' /\ NothingDropped'
      BY <3>1 DEF Inv, Typed, CallsTyped, Sound, CallsSound, CallsCounted, Counted, NothingDropped, Shown, Begun
    <3> QED BY <2>1, <3>1, <3>2 DEF CallsMove, vars, migration, Through, Inv, Typed, WorldTyped, Sound, OffUntilCutover, Off
  <2> QED BY <2>2, QuietStep
<1> QED BY <1>1, <1>2, <1>3, <1>4 DEF MigrationNext

LEMMA InvHolds == MigrationSpec => []Inv
  BY InvInit, InvStep, PTL DEF MigrationSpec

-----------------------------------------------------------------------------
(* The properties *)

LEMMA LastCommitIs ==
  ASSUME Inv, NEW p \in Pins
  PROVE  /\ LastCommit(p) # 0 => IsLast(p, LastCommit(p)) /\ LastCommit(p) \in Time
         /\ \A t \in 1..Len(commits) : commits[t].pin = p => LastCommit(p) # 0 /\ t <= LastCommit(p)
<1> DEFINE T == {t \in 1..Len(commits) : commits[t].pin = p}
<1>1. 1..Len(commits) \subseteq Time /\ Len(commits) \in Nat
  BY CommitsInTime
<1>2. LastCommit(p) = IF T = {} THEN 0 ELSE CHOOSE t \in T : \A u \in T : u <= t
  BY DEF LastCommit
<1>3. CASE T = {}
  BY <1>2, <1>3
<1>4. CASE T # {}
  <2>1. T \in SUBSET Nat /\ IsFiniteSet(T)
    <3>1. T \in SUBSET (1..Len(commits)) /\ T \in SUBSET Nat
      OBVIOUS
    <3>2. IsFiniteSet(1..Len(commits))
      BY <1>1, FS_Interval
    <3> HIDE DEF T
    <3> QED BY <3>1, <3>2, FS_Subset
  <2>2. \E m \in T : \A y \in T : y <= m
    <3> HIDE DEF T
    <3> QED BY <1>4, <2>1, Greatest
  <2>3. LastCommit(p) \in T /\ \A u \in T : u <= LastCommit(p)
    <3> HIDE DEF T
    <3> QED BY <1>2, <1>4, <2>2
  <2>4. IsLast(p, LastCommit(p)) /\ LastCommit(p) # 0 /\ LastCommit(p) \in Time
    BY <1>1, <2>3 DEF IsLast
  <2> QED BY <2>3, <2>4
<1> QED BY <1>3, <1>4

LEMMA SettledAre == ASSUME Inv, NEW p \in Pins, Settled(p) PROVE Agrees(p)
<1>1. IsLast(p, LastCommit(p)) /\ LastCommit(p) \in Time /\ inbox[LastCommit(p)].state = "complete"
  BY LastCommitIs DEF Settled
<1> HIDE DEF LastCommit
<1> QED BY <1>1 DEF Inv, Agreement, Through

\* A pin that is there and has nothing outstanding was settled or is due.
LEMMA NothingOutstanding == ASSUME Inv, NEW p \in Pins, Exists(p), ~Outstanding(p), ~Due(p) PROVE Reached(p)
<1>1. LastCommit(p) # 0 /\ \A t \in 1..Len(commits) : commits[t].pin = p => t <= LastCommit(p)
  BY LastCommitIs DEF Inv, Sound, WorldSound
<1>2. LastCommit(p) \in Nat /\ cutover \in Nat /\ Len(commits) \in Nat
  BY <1>1, LastCommitIs, CommitsInTime DEF IsLast, Inv, Typed, WorldTyped
<1>3. CASE LastCommit(p) < cutover
  <2>1. Old(p)
    <3> SUFFICES ASSUME NEW t \in 1..Len(commits), commits[t].pin = p PROVE t < cutover
      BY DEF Old
    <3> HIDE DEF LastCommit
    <3> QED BY <1>1, <1>2, <1>3
  <2> QED BY <2>1 DEF Due
<1>4. CASE Settled(p)
  BY <1>4, SettledAre DEF Agrees
<1> QED BY <1>2, <1>3, <1>4 DEF Outstanding

\* The totals of the contributions, of the history (saves and added sources) and
\* of the metadata, and the rows
\* of the index, match what they count in every state: projectContribution,
\* the metadata accounting and the history are one transaction each pin.
THEOREM AccountsBalance == MigrationSpec => []TotalsMatch
<1>1. Inv => TotalsMatch
  BY DEF Inv
<1> QED BY <1>1, InvHolds, PTL

\* Once the latest commit of a pin is complete in the inbox, contribution and
\* metadata are what the pin is now, whatever order its events came in.
THEOREM LateEventsHarmless == MigrationSpec => []SettledAgrees
<1>1. Inv => SettledAgrees
  BY SettledAre DEF SettledAgrees, Agrees, Reached, CityAgrees
<1> QED BY <1>1, InvHolds, PTL

\* The profile's last save is the latest save counted, and bears the city its
\* pin has now once that pin is settled.
THEOREM LastSaveStands == MigrationSpec => []LastSaveIsLatest
<1>1. Inv => LastSaveIsLatest
  BY SettledAre DEF LastSaveIsLatest, Agrees, SaveAgrees, Inv, Sound, SavesSound
<1> QED BY <1>1, InvHolds, PTL

\* No commit after the cutover is acknowledged to the platform unless it is
\* counted, its inbox record shows an operator why not, or its delivery met the
\* capture switched off: capture and repairMutation lose no other.
THEOREM EventsNeverDropped == MigrationSpec => []NothingDropped
<1>1. Inv => NothingDropped
  BY DEF Inv
<1> QED BY <1>1, InvHolds, PTL

\* Whatever runs, restarts, deaths and page limits there were, a pin behind the
\* migration's checkpoint is projected as it is or has an event to come, or one
\* that was missed while the capture was off.
THEOREM MigrationCoversPins == MigrationSpec => []CheckpointCovers
<1>1. ASSUME Inv PROVE CheckpointCovers
  <2> SUFFICES ASSUME NEW p \in Pins, Covers(checkpoint, p), Exists(p), ~Outstanding(p) PROVE Reached(p)
    BY DEF CheckpointCovers, Covers, Reached
  <2>1. CASE Due(p)
    BY <1>1, <2>1 DEF Inv, Covered
  <2>2. CASE ~Due(p)
    BY <1>1, <2>2, NothingOutstanding
  <2> QED BY <2>1, <2>2
<1> QED BY <1>1, InvHolds, PTL

\* While an account's index is authoritative every source of a pin that has no
\* event to come, and missed none while the capture was off, has its row.
THEOREM ReadyMeansComplete == MigrationSpec => []ReadyIndexComplete
<1>1. ASSUME Inv PROVE ReadyIndexComplete
  <2> SUFFICES ASSUME ready, NEW p \in Pins, Exists(p), ~Outstanding(p), NEW k \in pin[p].keys PROVE <<p, k>> \in index
    BY DEF ReadyIndexComplete
  <2>1. Reached(p)
    <3>1. CASE Due(p)
      BY <1>1, <3>1 DEF Inv, Covered
    <3>2. CASE ~Due(p)
      BY <1>1, <3>2, NothingOutstanding
    <3> QED BY <3>1, <3>2
  <2>2. k \in Sources
    BY <1>1 DEF Inv, Typed, WorldTyped, Pin
  <2>3. k \in contribution[p].keys
    BY <2>1 DEF Reached, Contribution
  <2> QED BY <1>1, <2>2, <2>3 DEF Inv, TotalsMatch, CountersMatch
<1> QED BY <1>1, InvHolds, PTL

\* Every variable of the triggers and of the migration stays in its domain.
THEOREM AccountingTypes == MigrationSpec => []MigrationTypeOK
<1>1. ASSUME Inv PROVE MigrationTypeOK
  <2>1. Len(commits) <= MaxCommits
    BY <1>1, CommitsInTime, AccountingConstants DEF Inv, Typed, WorldTyped, Budget
  <2>2. cutover \in 0..MaxCommits + 1
    BY <1>1, <2>1, CommitsInTime, AccountingConstants DEF Inv, Typed, WorldTyped
  <2> QED BY <1>1, <2>1, <2>2 DEF MigrationTypeOK, TypeOK, Inv, Typed, WorldTyped, CallsTyped, ProjectionsTyped, MigrationTyped
<1> QED BY <1>1, InvHolds, PTL
=============================================================================
