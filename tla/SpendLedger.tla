---------------------------- MODULE SpendLedger ----------------------------
(***************************************************************************)
(* The observation ledger of paid provider calls: a handle per physical    *)
(* call emits events, each is appended to a local journal and persisted in *)
(* Firestore independently and without being awaited; a worker of the same *)
(* process replays the journal and adds up counters.                       *)
(*                                                                         *)
(* An action is one transaction, one file operation or one local step of   *)
(* a handle.  Amounts are whole micro-dollars; the tokens and prices       *)
(* behind an amount are left out: a report is what they come to.           *)
(***************************************************************************)
EXTENDS Integers, FiniteSets, FiniteSetsExt

CONSTANTS
  Call,      \* physical calls, each with the handle that observes it
  Dim,       \* counters: scope and window
  DimsOf,    \* the counters a call is added to
  Ceilings,  \* bound: ceilings a call may have when it is dispatched
  Reports,   \* bound: what a settlement may know of a call's usage
  Journal,   \* whether there is a journal
  NoCeiling, \* the rate or a token bound is unknown
  Idle       \* the recovery worker has no file at hand

ASSUME LedgerConstants == /\ Journal \in BOOLEAN
                          /\ DimsOf \in [Call -> SUBSET Dim]
                          /\ Ceilings \subseteq Nat \cup {NoCeiling} /\ NoCeiling \notin Int
                          /\ Reports \subseteq [known : Nat, full : BOOLEAN]
                          /\ IsFiniteSet(Call) /\ IsFiniteSet(Dim) /\ Idle \notin Call \X {"begin", "dispatch", "settle", "release"}

Kind  == {"begin", "dispatch", "settle", "release"}
Event == Call \X Kind

VARIABLES
  pc, ceiling, usage, \* the handle: what it did, its seed's ceiling, its report
  remote,   \* each event's own write: none, open, done or lost
  local,    \* its journal file: none, open, file, failed or removed
  receipt,  \* what the handle's promise resolved to: its durability
  replay,   \* the file the recovery worker has at hand, or Idle
  replayed, \* whether it has persisted that file's event
  rec,      \* engineSpendCalls
  counter   \* engineSpendCounters

handle == <<pc, ceiling, usage>>
recovery == <<replay, replayed>>
ledgerVars == <<handle, remote, local, receipt, recovery, rec, counter>>

-----------------------------------------------------------------------------
(* Records and their contribution to the counters *)

Counters == {"physicalCalls", "knownActual", "uncertainLiability",
             "unknownLiability", "unresolved", "settled"}
Blank == [k \in Counters |-> 0]

\* No record yet; a new record is its handle's seed.
Absent == [state |-> "absent", ceiling |-> 0, known |-> 0, breached |-> FALSE,
           added |-> Blank, pending |-> FALSE]

Observation == [state : {"absent", "prepared", "released", "dispatched", "uncertain", "settled"},
                ceiling : Nat \cup {NoCeiling}, known : Nat, breached : BOOLEAN,
                added : [Counters -> Nat], pending : BOOLEAN]

Dispatched(r) == r.state \in {"dispatched", "uncertain", "settled"}

Remaining(r) == IF r.known > r.ceiling THEN 0 ELSE r.ceiling - r.known

\* What a record adds to its counters: a known amount and what may still come
\* never count the same money twice.
Contribution(r) == LET open == r.state # "settled" IN
  IF ~Dispatched(r) THEN Blank
  ELSE [physicalCalls |-> 1, knownActual |-> r.known,
        settled |-> IF open THEN 0 ELSE 1, unresolved |-> IF open THEN 1 ELSE 0,
        unknownLiability |-> IF open /\ (r.ceiling = NoCeiling \/ r.breached) THEN 1 ELSE 0,
        uncertainLiability |-> IF open /\ r.ceiling # NoCeiling THEN Remaining(r) ELSE 0]

\* A late release never refunds a dispatch.
Released(r) == IF Dispatched(r) THEN r ELSE [r EXCEPT !.state = "released"]

\* Fault: a dispatch that lands late starts the call over.
AsDispatchedAnew(r, c) == [r EXCEPT !.state = "dispatched", !.ceiling = ceiling[c]]

\* The first event that carries the dispatch fixes the ceiling.
AsDispatched(r, c) == IF Dispatched(r) THEN r
                      ELSE [r EXCEPT !.state = "dispatched", !.ceiling = ceiling[c]]

\* A final settlement is immutable; another report can only add to what is known.
Settled(r, u) == LET known == IF u.known > r.known THEN u.known ELSE r.known IN
  IF r.state = "settled" THEN r
  ELSE [r EXCEPT !.known = known,
                 !.breached = @ \/ (r.ceiling # NoCeiling /\ known > r.ceiling),
                 !.state = IF u.full THEN "settled" ELSE "uncertain"]

\* applyEvent: the transitions of a record, in whatever order events arrive.
Applied(r, e) == LET c == e[1]
                     s == IF r.state = "absent" THEN [r EXCEPT !.state = "prepared"] ELSE r IN
  CASE e[2] = "begin"    -> s
    [] e[2] = "release"  -> Released(s)
    [] e[2] = "dispatch" -> AsDispatched(s, c)
    [] e[2] = "settle"   -> Settled(AsDispatched(s, c), usage[c])

\* Fault: only the event that created the dispatch asks for aggregation.
PersistFirstOnly(e) == LET r == Applied(rec[e[1]], e) IN
  rec' = [rec EXCEPT ![e[1]] =
    [r EXCEPT !.pending = rec[e[1]].pending \/ (Dispatched(r) /\ ~Dispatched(rec[e[1]]))]]

\* persistEvent: the transition and what is still to be added to the counters.
Persist(e) == LET r == Applied(rec[e[1]], e) IN
  rec' = [rec EXCEPT ![e[1]] = [r EXCEPT !.pending = r.added # Contribution(r)]]

-----------------------------------------------------------------------------

\* Every variable stays in its domain: amounts are natural numbers.
TypeOK ==
  /\ pc \in [Call -> {"idle", "prepared", "dispatched", "ended", "dead"}]
  /\ ceiling \in [Call -> Nat \cup {NoCeiling}]
  /\ usage \in [Call -> [known : Nat, full : BOOLEAN]]
  /\ remote \in [Event -> {"none", "open", "done", "lost"}]
  /\ local \in [Event -> {"none", "open", "file", "failed", "removed"}]
  /\ receipt \in [Event -> {"none", "firestore", "local", "unconfirmed"}]
  /\ replay \in Event \cup {Idle} /\ replayed \in BOOLEAN
  /\ rec \in [Call -> Observation]
  /\ counter \in [Dim -> [Counters -> Nat]]

LedgerInit == /\ pc = [c \in Call |-> "idle"]
              /\ ceiling = [c \in Call |-> 0]
              /\ usage = [c \in Call |-> [known |-> 0, full |-> FALSE]]
              /\ remote = [e \in Event |-> "none"] /\ local = [e \in Event |-> "none"]
              /\ receipt = [e \in Event |-> "none"]
              /\ replay = Idle /\ replayed = FALSE
              /\ rec = [c \in Call |-> Absent]
              /\ counter = [d \in Dim |-> Blank]

-----------------------------------------------------------------------------
(* The handle *)

\* enqueue: the append, if there is a journal, and the database write both start.
Enqueue(e) == /\ remote' = [remote EXCEPT ![e] = "open"]
              /\ local' = [local EXCEPT ![e] = IF Journal THEN "open" ELSE "none"]
              /\ UNCHANGED <<receipt, recovery, rec, counter>>

Observe(c) == /\ pc[c] = "idle"
              /\ pc' = [pc EXCEPT ![c] = "prepared"]
              /\ Enqueue(<<c, "begin">>)
              /\ UNCHANGED <<ceiling, usage>>

\* Rates are read again at the dispatch.
MarkDispatched(c) == /\ pc[c] = "prepared"
                     /\ pc' = [pc EXCEPT ![c] = "dispatched"]
                     /\ \E k \in Ceilings : ceiling' = [ceiling EXCEPT ![c] = k]
                     /\ Enqueue(<<c, "dispatch">>)
                     /\ UNCHANGED usage

Settle(c) == /\ pc[c] = "dispatched"
             /\ pc' = [pc EXCEPT ![c] = "ended"]
             /\ \E u \in Reports : usage' = [usage EXCEPT ![c] = u]
             /\ Enqueue(<<c, "settle">>)
             /\ UNCHANGED ceiling

ReleaseUnsent(c) == /\ pc[c] = "prepared"
                    /\ pc' = [pc EXCEPT ![c] = "ended"]
                    /\ Enqueue(<<c, "release">>)
                    /\ UNCHANGED <<ceiling, usage>>

\* The process dies, its worker with it: what it was writing is lost.
ProcessDies == /\ \E c \in Call : pc[c] \notin {"idle", "dead"}
               /\ pc' = [c \in Call |-> IF pc[c] = "idle" THEN "idle" ELSE "dead"]
               /\ remote' = [e \in Event |-> IF remote[e] = "open" THEN "lost" ELSE remote[e]]
               /\ local' = [e \in Event |-> IF local[e] = "open" THEN "failed" ELSE local[e]]
               /\ replay' = Idle /\ replayed' = FALSE
               /\ UNCHANGED <<ceiling, usage, receipt, rec, counter>>

-----------------------------------------------------------------------------
(* The event's two writes *)

Append(e) == /\ local[e] = "open"
             /\ local' = [local EXCEPT ![e] = "file"]
             /\ UNCHANGED <<handle, remote, receipt, recovery, rec, counter>>

AppendFails(e) == /\ local[e] = "open"
                  /\ local' = [local EXCEPT ![e] = "failed"]
                  /\ UNCHANGED <<handle, remote, receipt, recovery, rec, counter>>

\* A handle's writes are queued: one starts when the receipt before it is out,
\* which a timeout may have given while the write before it goes on.
Before(e) == CASE e[2] = "begin"  -> {}
               [] e[2] = "settle" -> {<<e[1], "begin">>, <<e[1], "dispatch">>}
               [] OTHER           -> {<<e[1], "begin">>}
Started(e) == remote[e] = "open" /\ \A f \in Before(e) : receipt[f] # "none"

\* The first of the write, its failure and the timeout decides the receipt.
Give(e, d) == receipt' = IF receipt[e] = "none" THEN [receipt EXCEPT ![e] = d] ELSE receipt

DurableLocally(e) == IF local[e] \in {"file", "removed"} THEN "local" ELSE "unconfirmed"

Commit(e) == /\ Started(e)
             /\ Persist(e)
             /\ remote' = [remote EXCEPT ![e] = "done"]
             /\ Give(e, "firestore")
             /\ UNCHANGED <<handle, local, recovery, counter>>

\* The write is given up; its receipt waits for the end of the append.
WriteFails(e) == /\ Started(e)
                 /\ local[e] # "open"
                 /\ remote' = [remote EXCEPT ![e] = "lost"]
                 /\ Give(e, DurableLocally(e))
                 /\ UNCHANGED <<handle, local, recovery, rec, counter>>

\* The commit lands, its acknowledgement does not: the write goes on.
CommitUnacknowledged(e) == /\ Started(e)
                           /\ Persist(e)
                           /\ UNCHANGED <<handle, remote, local, receipt, recovery, counter>>

\* Giving up on the receipt never cancels the write.
Timeout(e) == /\ Started(e)
              /\ receipt[e] = "none"
              /\ Give(e, DurableLocally(e))
              /\ UNCHANGED <<handle, remote, local, recovery, rec, counter>>

Unlink(e) == local' = [local EXCEPT ![e] = IF @ = "file" THEN "removed" ELSE @]

\* Fault: the producer cleans up as soon as the receipt is out.
CleanupEarly(e) == /\ receipt[e] # "none" /\ local[e] = "file" /\ pc[e[1]] # "dead"
                   /\ Unlink(e)
                   /\ UNCHANGED <<handle, remote, receipt, recovery, rec, counter>>

\* The producer removes its file once the append and the write are both over.
Cleanup(e) == /\ remote[e] = "done" /\ local[e] = "file" /\ pc[e[1]] # "dead"
              /\ Unlink(e)
              /\ UNCHANGED <<handle, remote, receipt, recovery, rec, counter>>

-----------------------------------------------------------------------------
(* The worker: one file at a time, whose producer may still be writing *)

ReadJournal(e) == /\ replay = Idle /\ local[e] = "file"
                  /\ replay' = e
                  /\ UNCHANGED <<handle, remote, local, receipt, replayed, rec, counter>>

Replay(e) == /\ replay = e /\ ~replayed
             /\ Persist(e)
             /\ replayed' = TRUE
             /\ UNCHANGED <<handle, remote, local, receipt, replay, counter>>

Remove(e) == /\ replay = e /\ replayed
             /\ Unlink(e)
             /\ replay' = Idle /\ replayed' = FALSE
             /\ UNCHANGED <<handle, remote, receipt, rec, counter>>

\* The transaction or the removal fails: the file is for a later round.
RecoveryFails(e) == /\ replay = e
                    /\ replay' = Idle /\ replayed' = FALSE
                    /\ UNCHANGED <<handle, remote, local, receipt, rec, counter>>

Plus(x, y)  == [k \in Counters |-> x[k] + y[k]]
Minus(x, y) == [k \in Counters |-> x[k] - y[k]]

\* Fault: the record's checkpoint is not moved with its counters.
AggregateAgain(c) == /\ rec[c].pending
                     /\ counter' = [d \in Dim |-> IF d \in DimsOf[c]
                          THEN Plus(counter[d], Contribution(rec[c])) ELSE counter[d]]
                     /\ rec' = [rec EXCEPT ![c].added = Contribution(rec[c]), ![c].pending = FALSE]
                     /\ UNCHANGED <<handle, remote, local, receipt, recovery>>

\* aggregateCall: all counters of the call and the record's checkpoint at once.
Aggregate(c) == /\ rec[c].pending
                /\ counter' = [d \in Dim |-> IF d \in DimsOf[c]
                     THEN Plus(counter[d], Minus(Contribution(rec[c]), rec[c].added)) ELSE counter[d]]
                /\ rec' = [rec EXCEPT ![c].added = Contribution(rec[c]), ![c].pending = FALSE]
                /\ UNCHANGED <<handle, remote, local, receipt, recovery>>

-----------------------------------------------------------------------------

HandleStep(c) == Observe(c) \/ MarkDispatched(c) \/ Settle(c) \/ ReleaseUnsent(c)
EventStep(e) == \/ Append(e) \/ AppendFails(e)
                \/ Commit(e) \/ CommitUnacknowledged(e) \/ WriteFails(e) \/ Timeout(e)
                \/ Cleanup(e)
WorkerStep(e) == ReadJournal(e) \/ Replay(e) \/ Remove(e) \/ RecoveryFails(e)

LedgerNext == \/ \E c \in Call : HandleStep(c) \/ Aggregate(c)
              \/ \E e \in Event : EventStep(e) \/ WorkerStep(e)
              \/ ProcessDies

\* The worker goes on to every file and every pending record and the ledger
\* answers infinitely often; handles and producers' writes owe nothing.
Fairness == /\ WF_ledgerVars(\E e \in Event : ReadJournal(e))
            /\ SF_ledgerVars(\E e \in Event : Replay(e))
            /\ SF_ledgerVars(\E e \in Event : Remove(e))
            /\ WF_ledgerVars(\E c \in Call : Aggregate(c))

LedgerSafety == LedgerInit /\ [][LedgerNext]_ledgerVars
LedgerSpec == LedgerSafety /\ Fairness

-----------------------------------------------------------------------------

\* What an event says is in its call's record.
Says(r, e) ==
  CASE e[2] = "begin"    -> r.state # "absent"
    [] e[2] = "release"  -> r.state = "released" \/ Dispatched(r)
    [] e[2] = "dispatch" -> Dispatched(r)
    [] e[2] = "settle"   -> /\ r.known >= usage[e[1]].known
                            /\ r.state \in (IF usage[e[1]].full THEN {"settled"} ELSE {"uncertain", "settled"})
InLedger(e) == Says(rec[e[1]], e)

\* A receipt is kept whatever fails next: an event confirmed in Firestore is in
\* its record, and one confirmed on disk is in its record or still in its file, which goes only
\* when the record has it.
NothingConfirmedIsLost == \A e \in Event :
  /\ receipt[e] = "firestore" => InLedger(e)
  /\ receipt[e] = "local"     => InLedger(e) \/ local[e] = "file"
  /\ local[e] = "removed"     => InLedger(e)

\* The counters are exactly what the records say was added to them: replays,
\* lost acknowledgements and late settlements never count a call twice.
CountersMatchLedger == \A d \in Dim, k \in Counters :
  counter[d][k] = MapThenSumSet(LAMBDA c : rec[c].added[k], {c \in Call : d \in DimsOf[c]})

\* Events may land in any order, but spend is never refunded: a dispatched call
\* stays dispatched under the ceiling it was dispatched with, what is known of
\* its cost only grows, and a settlement is final.
SpendIsFinal == [][\A c \in Call :
  LET r == rec[c]  s == rec'[c] IN
  /\ Dispatched(r) => Dispatched(s) /\ s.ceiling = r.ceiling /\ s.known >= r.known
  /\ r.state = "settled" => s.state = "settled" /\ s.known = r.known
  ]_ledgerVars

\* The worker catches up: when the calls are over, no journal file stays behind
\* and the counters come to reflect every record, whatever was interrupted.
TotalsCatchUp == <>[](/\ \A e \in Event : local[e] # "file"
                      /\ \A c \in Call : rec[c].added = Contribution(rec[c]))
=============================================================================
