--------------------------- MODULE ListMembership ---------------------------
(***************************************************************************)
(* Shared lists and their migration (lib/admin.js, lib/listMembership.js). *)
(* A pin claims lists in its own document (listIds); the migration gives   *)
(* every claim a member document below its list, drops member documents    *)
(* without a claim, and sets the list's pinCount.  It runs under a freeze  *)
(* of all user writes, each job under a lock that a crash leaves behind    *)
(* and that the operator may clear.                                        *)
(*                                                                         *)
(* Left out: who calls (a call that is not the owner's or an editor's      *)
(* changes nothing), joining a list, notifications, the members' order.    *)
(***************************************************************************)
EXTENDS Integers, FiniteSets

CONSTANTS List, Pin,
          Job, NoJob,   \* requests of the operator that run at a time
          NoCount,      \* a pinCount that was never written
          MaxCount      \* bound: no pinCount beyond it

ASSUME ListAssumption ==
  /\ List # {} /\ IsFiniteSet(Pin) /\ NoJob \notin Job
  /\ NoCount \notin Nat /\ MaxCount \in Nat /\ Cardinality(Pin) <= MaxCount

VARIABLES
  lists,     \* documents lists/{l} that exist
  claims,    \* pairs <<l, p>> with l in the listIds of p
  members,   \* documents lists/{l}/members/{p}
  corrupt,   \* those whose pinId or pinOwnerId is not the pin's
  edited,    \* those with overrides
  count,     \* pinCount
  frozen,    \* freezeListMembershipWrites: "unset", "off", "on"
  lock,      \* migrationInProgress
  pc, kind,  \* what each job does
  todo,      \* backfill: claims still to write
  left,      \* scrub and reconcile: lists still to visit
  at,        \* the list being visited (any list, when there is none)
  found,     \* its pins read so far
  stored,    \* reconcile: pinCounts as first read
  ok,        \* nothing went wrong in this job so far
  stage,     \* the migration's last clean step, see Advance
  cleared,   \* jobs that still run although the operator cleared their lock
  hasty      \* the operator once cleared the lock of a running job

docVars == <<lists, claims, members, corrupt, edited, count>>
flagVars == <<frozen, lock, stage, cleared, hasty>>
jobVars == <<pc, kind, todo, left, at, found, stored, ok>>
vars == <<docVars, flagVars, jobVars>>

Doc == List \X Pin
Kind == {"backfill", "scrub", "reconcile"}
Count == 0..MaxCount \cup {NoCount}
Working == {"pins", "lists", "write", "scan", "visit", "resolve", "delete", "update"}

PinsOf(docs, l) == {p \in Pin : <<l, p>> \in docs}

\* Every variable stays in its domain; only a member document is corrupt or
\* carries overrides.
TypeOK ==
  /\ lists \subseteq List /\ claims \subseteq Doc /\ members \subseteq Doc
  /\ corrupt \subseteq members /\ edited \subseteq members
  /\ count \in [List -> Count]
  /\ frozen \in {"unset", "off", "on"} /\ lock \in Job \cup {NoJob}
  /\ pc \in [Job -> {"idle", "asked"} \cup Working] /\ kind \in [Job -> Kind]
  /\ todo \in [Job -> SUBSET Doc] /\ left \in [Job -> SUBSET List]
  /\ at \in [Job -> List] /\ found \in [Job -> SUBSET Pin]
  /\ stored \in [Job -> [List -> Count]] /\ ok \in [Job -> BOOLEAN]
  /\ stage \in {"none", "filled", "scrubbed", "agreed"}
  /\ cleared \subseteq Job /\ hasty \in BOOLEAN

\* Before the migration: claims, some with a member document, some without;
\* member documents of partial earlier runs; counts that may be anything.
Init ==
  /\ lists \in SUBSET List
  /\ claims \in SUBSET Doc
  /\ members \in SUBSET {d \in Doc : d[1] \in lists}
  /\ corrupt \in SUBSET members /\ edited \in SUBSET members
  /\ count \in [List -> Count] /\ \A l \in List \ lists : count[l] = NoCount
  /\ frozen \in {"unset", "off"} /\ lock = NoJob
  /\ stage = "none" /\ cleared = {} /\ hasty = FALSE
  /\ pc = [j \in Job |-> "idle"] /\ kind = [j \in Job |-> "backfill"]
  /\ todo = [j \in Job |-> {}] /\ left = [j \in Job |-> {}]
  /\ at = [j \in Job |-> CHOOSE l \in List : TRUE]
  /\ found = [j \in Job |-> {}]
  /\ stored = [j \in Job |-> [l \in List |-> NoCount]]
  /\ ok = [j \in Job |-> FALSE]

-----------------------------------------------------------------------------
(* The flag and the lock *)

Freeze ==
  /\ frozen' = "on"
  /\ UNCHANGED <<lock, stage, cleared, hasty, docVars, jobVars>>

\* Fault: the freeze is lifted without looking at the lock
UnfreezeAnyTime ==
  /\ frozen' = "off"
  /\ stage' = IF stage = "agreed" THEN stage ELSE "none"
  /\ UNCHANGED <<lock, cleared, hasty, docVars, jobVars>>

\* One transaction looks at the lock and lifts the freeze.
Unfreeze ==
  /\ lock = NoJob
  /\ frozen' = "off"
  /\ stage' = IF stage = "agreed" THEN stage ELSE "none"
  /\ UNCHANGED <<lock, cleared, hasty, docVars, jobVars>>

\* The operator deletes the lock of a job that seems to have stalled.
ClearLock ==
  /\ lock # NoJob
  /\ lock' = NoJob
  /\ IF pc[lock] \in Working
     THEN cleared' = cleared \cup {lock} /\ hasty' = TRUE
     ELSE UNCHANGED <<cleared, hasty>>
  /\ UNCHANGED <<frozen, stage, docVars, jobVars>>

\* A request passes requireFrozen...
Request(j, k) ==
  /\ pc[j] = "idle" /\ frozen = "on"
  /\ pc' = [pc EXCEPT ![j] = "asked"]
  /\ kind' = [kind EXCEPT ![j] = k]
  /\ UNCHANGED <<todo, left, at, found, stored, ok, docVars, flagVars>>

\* Fault: the lock is taken on the strength of the first look at the flag
AcquireOnRequest(j) ==
  /\ pc[j] = "asked" /\ lock = NoJob
  /\ lock' = j
  /\ pc' = [pc EXCEPT ![j] = IF kind[j] = "backfill" THEN "pins" ELSE "scan"]
  /\ ok' = [ok EXCEPT ![j] = TRUE]
  /\ UNCHANGED <<kind, todo, left, at, found, stored, frozen, stage, cleared, hasty, docVars>>

\* ...and takes the lock in a transaction of its own, which looks at the flag
\* again.
Acquire(j) ==
  /\ pc[j] = "asked" /\ frozen = "on" /\ lock = NoJob
  /\ lock' = j
  /\ pc' = [pc EXCEPT ![j] = IF kind[j] = "backfill" THEN "pins" ELSE "scan"]
  /\ ok' = [ok EXCEPT ![j] = TRUE]
  /\ UNCHANGED <<kind, todo, left, at, found, stored, frozen, stage, cleared, hasty, docVars>>

Leave(j) ==
  /\ pc' = [pc EXCEPT ![j] = "idle"]
  /\ ok' = [ok EXCEPT ![j] = FALSE]
  /\ todo' = [todo EXCEPT ![j] = {}] /\ left' = [left EXCEPT ![j] = {}]
  /\ found' = [found EXCEPT ![j] = {}]
  /\ stored' = [stored EXCEPT ![j] = [l \in List |-> NoCount]]
  /\ cleared' = cleared \ {j}
  /\ UNCHANGED <<kind, at>>

\* The lock is not to be had, or the flag changed: the request fails.
AcquireFails(j) ==
  /\ pc[j] = "asked"
  /\ Leave(j)
  /\ UNCHANGED <<frozen, lock, stage, hasty, docVars>>

\* Fault: whoever ends deletes the lock
UnlockAny(j) == NoJob

\* releaseMigrationLock leaves the lock of another job alone.
Unlock(j) == IF lock = j THEN NoJob ELSE lock

\* The runbook's order: a clean backfill, then a clean scrub, then a clean
\* reconcile, all in one freeze.
Advance(k) == CASE k = "backfill" /\ stage = "none" -> "filled"
                [] k = "scrub" /\ stage = "filled" -> "scrubbed"
                [] k = "reconcile" /\ stage = "scrubbed" -> "agreed"
                [] OTHER -> stage

Finish(j) ==
  /\ \/ pc[j] = "write" /\ todo[j] = {}
     \/ pc[j] = "visit" /\ left[j] = {}
  /\ lock' = Unlock(j)
  /\ stage' = IF ok[j] THEN Advance(kind[j]) ELSE stage
  /\ Leave(j)
  /\ UNCHANGED <<frozen, hasty, docVars>>

\* A query outside of the loops fails: the job ends, its finally releases.
Abort(j) ==
  /\ pc[j] \in {"pins", "lists", "scan"}
  /\ lock' = Unlock(j)
  /\ Leave(j)
  /\ UNCHANGED <<frozen, stage, hasty, docVars>>

\* The process dies, or the release itself fails: the lock stays.
Crash(j) ==
  /\ pc[j] # "idle"
  /\ Leave(j)
  /\ UNCHANGED <<frozen, lock, stage, hasty, docVars>>

-----------------------------------------------------------------------------
(* runBackfill *)

\* All pins are read at once; what is malformed is skipped and reported.
ReadPins(j) ==
  /\ pc[j] = "pins"
  /\ \E valid \in SUBSET claims :
       /\ todo' = [todo EXCEPT ![j] = valid]
       /\ ok' = [ok EXCEPT ![j] = valid = claims]
  /\ pc' = [pc EXCEPT ![j] = "lists"]
  /\ UNCHANGED <<kind, left, at, found, stored, docVars, flagVars>>

\* Claims of lists that do not exist are dropped and reported.
ReadLists(j) ==
  /\ pc[j] = "lists"
  /\ todo' = [todo EXCEPT ![j] = {d \in todo[j] : d[1] \in lists}]
  /\ ok' = [ok EXCEPT ![j] = ok[j] /\ \A d \in todo[j] : d[1] \in lists]
  /\ pc' = [pc EXCEPT ![j] = "write"]
  /\ UNCHANGED <<kind, left, at, found, stored, docVars, flagVars>>

\* Fault: the member document is replaced, not merged
WriteMemberAnew(j) ==
  /\ pc[j] = "write"
  /\ \E d \in todo[j] :
       /\ todo' = [todo EXCEPT ![j] = todo[j] \ {d}]
       /\ d[1] \in lists
       /\ members' = members \cup {d} /\ corrupt' = corrupt \ {d} /\ edited' = edited \ {d}
  /\ UNCHANGED <<ok, pc, kind, left, at, found, stored, lists, claims, count, flagVars>>

\* Each chunk is a transaction that reads its lists again and merges what
\* differs into the member documents.  The chunk here is one claim.
WriteMember(j) ==
  /\ pc[j] = "write"
  /\ \E d \in todo[j] :
       /\ todo' = [todo EXCEPT ![j] = todo[j] \ {d}]
       /\ IF d[1] \in lists
          THEN /\ members' = members \cup {d} /\ corrupt' = corrupt \ {d}
               /\ UNCHANGED ok
          ELSE /\ ok' = [ok EXCEPT ![j] = FALSE]
               /\ UNCHANGED <<members, corrupt>>
  /\ UNCHANGED <<pc, kind, left, at, found, stored, lists, claims, edited, count, flagVars>>

\* A chunk that fails is reported; the others go on.
WriteFails(j) ==
  /\ pc[j] = "write"
  /\ \E d \in todo[j] : todo' = [todo EXCEPT ![j] = todo[j] \ {d}]
  /\ ok' = [ok EXCEPT ![j] = FALSE]
  /\ UNCHANGED <<pc, kind, left, at, found, stored, docVars, flagVars>>

-----------------------------------------------------------------------------
(* runScrubOrphanMembers and runReconcilePinCounts *)

\* Both read all lists first, and with them the counts.
ScanLists(j) ==
  /\ pc[j] = "scan"
  /\ left' = [left EXCEPT ![j] = lists]
  /\ stored' = IF kind[j] = "reconcile" THEN [stored EXCEPT ![j] = count] ELSE stored
  /\ pc' = [pc EXCEPT ![j] = "visit"]
  /\ UNCHANGED <<kind, todo, at, found, ok, docVars, flagVars>>

\* The member documents of the next list are read, or counted.
ReadMembers(j) ==
  /\ pc[j] = "visit"
  /\ \E l \in left[j] :
       /\ left' = [left EXCEPT ![j] = left[j] \ {l}]
       /\ at' = [at EXCEPT ![j] = l]
       /\ found' = [found EXCEPT ![j] = PinsOf(members, l)]
  /\ pc' = [pc EXCEPT ![j] = IF kind[j] = "scrub" THEN "resolve" ELSE "update"]
  /\ UNCHANGED <<kind, todo, stored, ok, docVars, flagVars>>

\* The work on this list fails; the next one follows.
VisitFails(j) ==
  /\ pc[j] \in {"resolve", "delete", "update"}
  /\ found' = [found EXCEPT ![j] = {}]
  /\ ok' = [ok EXCEPT ![j] = FALSE]
  /\ pc' = [pc EXCEPT ![j] = "visit"]
  /\ UNCHANGED <<kind, todo, left, at, stored, docVars, flagVars>>

\* The pins of the members say which are orphans.  (A pin whose listIds cannot
\* be read makes the visit fail.)
ReadOrphans(j) ==
  /\ pc[j] = "resolve"
  /\ found' = [found EXCEPT ![j] = found[j] \ PinsOf(claims, at[j])]
  /\ pc' = [pc EXCEPT ![j] = "delete"]
  /\ UNCHANGED <<kind, todo, left, at, stored, ok, docVars, flagVars>>

\* The orphans are deleted in batches, unconditionally; a batch may fail.
DeleteOrphans(j) ==
  /\ pc[j] = "delete"
  /\ \E done \in SUBSET found[j] : LET gone == {at[j]} \X done IN
       /\ members' = members \ gone /\ corrupt' = corrupt \ gone /\ edited' = edited \ gone
       /\ ok' = [ok EXCEPT ![j] = ok[j] /\ done = found[j]]
  /\ found' = [found EXCEPT ![j] = {}]
  /\ pc' = [pc EXCEPT ![j] = "visit"]
  /\ UNCHANGED <<kind, todo, left, at, stored, lists, claims, count, flagVars>>

\* The count is written if it differs from the one read with the lists; the
\* update of a list that is gone fails.
UpdateCount(j) == LET n == Cardinality(found[j]) IN
  /\ pc[j] = "update"
  /\ IF stored[j][at[j]] # n /\ at[j] \in lists
     THEN count' = [count EXCEPT ![at[j]] = n] ELSE UNCHANGED count
  /\ ok' = [ok EXCEPT ![j] = ok[j] /\ (stored[j][at[j]] = n \/ at[j] \in lists)]
  /\ found' = [found EXCEPT ![j] = {}]
  /\ pc' = [pc EXCEPT ![j] = "visit"]
  /\ UNCHANGED <<kind, todo, left, at, stored, lists, claims, members, corrupt, edited, flagVars>>

-----------------------------------------------------------------------------
(* The endpoints for editors: one transaction each, that reads the flag, the  *)
(* list, the pin and the member document                                      *)

\* Whatever does not agree is refused, for the operator to repair.
Sound(l, p) == /\ frozen = "off" /\ l \in lists
               /\ <<l, p>> \in (members \cap claims) \ corrupt

\* The editor's removal drops claim, member document and count together.
RemoveMember(l, p) ==
  /\ Sound(l, p)
  /\ count[l] \notin {NoCount, 0}
  /\ members' = members \ {<<l, p>>} /\ edited' = edited \ {<<l, p>>}
  /\ claims' = claims \ {<<l, p>>}
  /\ count' = [count EXCEPT ![l] = @ - 1]
  /\ UNCHANGED <<lists, corrupt, flagVars, jobVars>>

\* Overrides are set, or the last one is cleared.
OverrideMember(l, p) ==
  /\ Sound(l, p)
  /\ edited' \in {edited \cup {<<l, p>>}, edited \ {<<l, p>>}}
  /\ UNCHANGED <<lists, claims, members, corrupt, count, flagVars, jobVars>>

-----------------------------------------------------------------------------
(* The app, outside of this repository: it writes claim, member document and  *)
(* count in one batch, which the database's rules reject during a freeze      *)

ClientAdd(l, p) ==
  /\ frozen # "on" /\ l \in lists /\ <<l, p>> \notin claims
  /\ count[l] # MaxCount
  /\ claims' = claims \cup {<<l, p>>}
  /\ members' = members \cup {<<l, p>>} /\ corrupt' = corrupt \ {<<l, p>>}
  /\ count' = [count EXCEPT ![l] = IF @ = NoCount THEN 1 ELSE @ + 1]
  /\ UNCHANGED <<lists, edited, flagVars, jobVars>>

\* Also the deletion of a pin, list by list.
ClientRemove(l, p) ==
  /\ frozen # "on" /\ l \in lists /\ <<l, p>> \in claims
  /\ count[l] \notin {NoCount, 0}
  /\ claims' = claims \ {<<l, p>>}
  /\ members' = members \ {<<l, p>>}
  /\ corrupt' = corrupt \ {<<l, p>>} /\ edited' = edited \ {<<l, p>>}
  /\ count' = [count EXCEPT ![l] = @ - 1]
  /\ UNCHANGED <<lists, flagVars, jobVars>>

\* A list goes with its member documents, by its owner or by hand, at any time;
\* claims may stay behind.
DeleteList(l) == LET gone == {l} \X Pin IN
  /\ l \in lists
  /\ lists' = lists \ {l}
  /\ members' = members \ gone /\ corrupt' = corrupt \ gone /\ edited' = edited \ gone
  /\ count' = [count EXCEPT ![l] = NoCount]
  /\ UNCHANGED <<claims, flagVars, jobVars>>

JobStep(j) ==
  \/ \E k \in Kind : Request(j, k)
  \/ Acquire(j) \/ AcquireFails(j) \/ Finish(j) \/ Abort(j) \/ Crash(j)
  \/ ReadPins(j) \/ ReadLists(j) \/ WriteMember(j) \/ WriteFails(j)
  \/ ScanLists(j) \/ ReadMembers(j) \/ VisitFails(j)
  \/ ReadOrphans(j) \/ DeleteOrphans(j) \/ UpdateCount(j)

UserStep ==
  \/ \E l \in List, p \in Pin : \/ RemoveMember(l, p) \/ OverrideMember(l, p)
                                \/ ClientAdd(l, p) \/ ClientRemove(l, p)
  \/ \E l \in List : DeleteList(l)

Next == Freeze \/ Unfreeze \/ ClearLock \/ (\E j \in Job : JobStep(j)) \/ UserStep

Spec == Init /\ [][Next]_vars

-----------------------------------------------------------------------------
(* Properties *)

\* A job works under the freeze and under its own lock from its first read to
\* its last write, unless the operator took the lock away: not even the end of
\* a job whose lock was taken frees the lock of the next.
LockCoversWork ==
  \A j \in Job : pc[j] \in Working /\ j \notin cleared => lock = j /\ frozen = "on"

\* What each clean step of the migration promises stays true: every claim of a
\* list has its sound member document; then no other member documents exist;
\* then the counts agree, for ever after, whatever users and further jobs do.
StagesHold == hasty \/
  /\ stage # "none" => \A d \in claims : d[1] \in lists => d \in members \ corrupt
  /\ stage \in {"scrubbed", "agreed"} => members \subseteq claims
  /\ stage = "agreed" => \A l \in lists : count[l] = Cardinality(PinsOf(members, l))

\* No member document is written below a list that was deleted meanwhile: the
\* scrub would never find it.
NoMemberOfDeletedList == \A d \in members : d[1] \in lists

\* A member document goes only with its list or its claim: a scrub never
\* deletes a member on the strength of what it read before.
MembersFollowClaims ==
  [][hasty \/ \A d \in members \ members' : d[1] \notin lists' \/ d \notin claims']_vars

\* No migration costs a list its overrides.
MigrationKeepsOverrides ==
  [][frozen = "on" => edited \ edited' \subseteq members \ members']_vars
=============================================================================
