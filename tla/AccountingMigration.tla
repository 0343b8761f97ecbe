------------------------ MODULE AccountingMigration ------------------------
(***************************************************************************)
(* The migration that brings the pins an account had before the capture    *)
(* into the projections of PinAccounting: runs that page through the pins  *)
(* and then through the contributions, resumed from a checkpoint, while    *)
(* the triggers go on; and the verification that makes the content index   *)
(* authoritative.  A page is in the order of the pins' numbers.            *)
(***************************************************************************)
EXTENDS PinAccounting, Functions

CONSTANTS
  Runner,    \* processes that run the migration tool
  PageSize

ASSUME MigrationConstants == Pins \subseteq Nat \ {0} /\ PageSize \in Nat \ {0}

VARIABLES
  checkpoint,  \* the account's checkpoint document
  ready,       \* whether the account's index is authoritative
  runner       \* what each process is at

migration == <<checkpoint, ready, runner>>
allVars == <<vars, migration>>

Cursor == Pins \cup {0}
Phase  == {"pins", "contributions", "complete"}
Checkpoint == [phase : Phase \cup {"none"}, cursor : Cursor, pages : Nat, epoch : Nat]
NoCheckpoint == [phase |-> "none", cursor |-> 0, pages |-> 0, epoch |-> 0]
Resting == [pc |-> "idle", at |-> NoCheckpoint, page |-> {},
             next |-> NoCheckpoint]

\* An account as it comes to the migration: pins of before the capture, created
\* in some order, whose events found it off.
OldPins(order, c) ==
  /\ pin = [p \in Pins |-> IF \E i \in DOMAIN order : order[i] = p
                            THEN [gen |-> CHOOSE i \in DOMAIN order : order[i] = p, keys |-> Sources, city |-> c, visited |-> FALSE]
                            ELSE NoPin]
  /\ commits = [i \in DOMAIN order |-> [pin |-> order[i], kind |-> "created", adds |-> 0, city |-> c]]
  /\ cutover = Len(order) + 1 /\ capturing = TRUE

\* The bound on commits holds for those of before the capture too.
OldOrders == UNION {Injection(1..n, Pins) : n \in 1..MaxCommits - budget.commits}

MigrationInit == /\ \/ Init
                    \/ InitElse /\ budget.runs > 0 /\ \E order \in OldOrders, c \in Cities : OldPins(order, c)
                 /\ checkpoint = Resting.at /\ ready = FALSE
                 /\ runner = [r \in Runner |-> Resting]

\* Everything but the projections and the stats belongs to the triggers.
OnlyMigration == UNCHANGED <<world, tombstone, control, inbox, unacked, call, repair>>

\* run: a new checkpoint takes the index back, one that exists is resumed.
RunStarts(r) ==
  /\ runner[r].pc = "idle" /\ budget.runs > 0 /\ Enabled /\ Active
  /\ budget' = [budget EXCEPT !.runs = @ - 1]
  /\ \E restart \in BOOLEAN :
       LET first == checkpoint.phase = "none" \/ restart
           next  == IF first THEN [phase |-> "pins", cursor |-> 0, pages |-> 0, epoch |-> checkpoint.epoch + 1]
                    ELSE checkpoint
       IN /\ checkpoint' = next
          /\ ready' = (ready /\ ~first)
          /\ stats' = [stats EXCEPT !.ready = @ /\ ~first]
          /\ runner' = [runner EXCEPT ![r] = [Resting EXCEPT !.pc = IF next.phase = "complete" THEN "idle" ELSE "read",
                                                             !.at = next]]
  /\ OnlyMigration
  /\ UNCHANGED <<contribution, index, receipts, saveEvents, profile, head, metaPin, summary, bucket>>

\* The next page of the phase, read outside any transaction.
Listed(r) == {p \in Pins : /\ p > runner[r].at.cursor
                           /\ IF runner[r].at.phase = "pins" THEN Exists(p) ELSE contribution[p].known}
Page(r) == {p \in Listed(r) : Cardinality({q \in Listed(r) : q <= p}) <= PageSize}

\* What the checkpoint will be after the page: a short one ends the phase.
After(at, page) ==
  LET full == Cardinality(page) = PageSize
  IN [at EXCEPT !.pages = @ + 1,
                !.cursor = IF full THEN CHOOSE p \in page : \A q \in page : q <= p ELSE 0,
                !.phase  = IF full THEN @ ELSE IF @ = "pins" THEN "contributions" ELSE "complete"]

RunReads(r) ==
  /\ runner[r].pc = "read"
  /\ runner' = [runner EXCEPT ![r] = [@ EXCEPT !.pc = "work", !.page = Page(r), !.next = After(runner[r].at, Page(r))]]
  /\ UNCHANGED <<vars, checkpoint, ready>>

Ends(r) == runner' = [runner EXCEPT ![r] = Resting]

\* Each document of the page; one that cannot be reconciled ends the run.
RunReconciles(r) ==
  /\ runner[r].pc = "work"
  /\ \E p \in runner[r].page :
       /\ \A q \in runner[r].page : p <= q
       /\ IF Enabled /\ Active /\ (Exists(p) \/ contribution[p].known)
          THEN Reconcile(p, 0) /\ runner' = [runner EXCEPT ![r].page = @ \ {p}]
          ELSE UNCHANGED projections /\ Ends(r)
  /\ OnlyMigration
  /\ UNCHANGED <<checkpoint, ready, budget>>

\* Fault: the checkpoint moves on while the page is being worked off.
RunSavesEarly(r) ==
  /\ runner[r].pc = "work"
  /\ IF Enabled /\ Active /\ checkpoint = runner[r].at
     THEN /\ checkpoint' = runner[r].next
          /\ runner' = [runner EXCEPT ![r] = [Resting EXCEPT !.pc = "read", !.at = runner[r].next]]
     ELSE Ends(r) /\ UNCHANGED checkpoint
  /\ UNCHANGED <<vars, ready>>

\* The checkpoint moves past the page unless another run moved it meanwhile.
RunSaves(r) ==
  /\ runner[r].pc = "work" /\ runner[r].page = {}
  /\ IF Enabled /\ Active /\ checkpoint = runner[r].at
     THEN /\ checkpoint' = runner[r].next
          /\ runner' = [runner EXCEPT ![r] = [Resting EXCEPT !.pc = IF runner[r].next.phase = "complete" THEN "idle" ELSE "read",
                                                             !.at = runner[r].next]]
     ELSE Ends(r) /\ UNCHANGED checkpoint
  /\ UNCHANGED <<vars, ready>>

\* The page limit, an abort or the death of the process.
RunStops(r) == runner[r].pc # "idle" /\ Ends(r) /\ UNCHANGED <<vars, checkpoint, ready>>

\* verify: what one transaction finds wrong, in the pins as they are.
Valid == /\ Active /\ Enabled
         /\ stats.pins = Cardinality({p \in Pins : Exists(p)})
         /\ stats.visited = Cardinality({p \in Pins : Visited(p)})
         /\ \A p \in Pins : IF Exists(p) THEN contribution[p] = Contribution(p)
                            ELSE ~contribution[p].exists /\ ~contribution[p].visited
         /\ index = {r \in Pins \X Sources : Exists(r[1]) /\ r[2] \in pin[r[1]].keys}

Activate ==
  /\ Valid /\ checkpoint.phase = "complete" /\ ~ready
  /\ ready' = TRUE /\ stats' = [stats EXCEPT !.ready = TRUE]
  /\ OnlyMigration
  /\ UNCHANGED <<contribution, index, receipts, saveEvents, profile, head, metaPin, summary, bucket,
                 checkpoint, runner, budget>>

-----------------------------------------------------------------------------

RunStep(r) == RunStarts(r) \/ RunReads(r) \/ RunReconciles(r) \/ RunSaves(r) \/ RunStops(r)
MigrationNext == \/ Next /\ UNCHANGED migration
                 \/ \E r \in Runner : RunStep(r)
                 \/ Activate

MigrationSpec == MigrationInit /\ [][MigrationNext]_allVars

-----------------------------------------------------------------------------

MigrationTypeOK ==
  /\ TypeOK
  /\ checkpoint \in Checkpoint /\ ready \in BOOLEAN
  /\ runner \in [Runner -> [pc : {"idle", "read", "work"}, at : Checkpoint, page : SUBSET Pins, next : Checkpoint]]

\* A pin whose latest commit the triggers have yet to deal with, or missed
\* because the capture was switched off.
Outstanding(p) == LastCommit(p) >= cutover /\ ~Settled(p)

\* Behind the checkpoint every pin is projected or its latest event has yet to
\* be dealt with, or was missed while the capture was off: neither pages,
\* restarts, deaths nor two runs at once leave one out.
CheckpointCovers == \A p \in Pins :
  /\ checkpoint.phase # "none" /\ (checkpoint.phase = "pins" => p <= checkpoint.cursor)
  /\ Exists(p) /\ ~Outstanding(p)
  => contribution[p] = Contribution(p)

\* While the account says its index is complete, a pin that is in no row has
\* an event outstanding, or one missed while the capture was off: a lookup that
\* finds nothing is a hint, and no more than that where capture is paused.
ReadyIndexComplete == ready => \A p \in Pins :
  Exists(p) /\ ~Outstanding(p) => \A k \in pin[p].keys : <<p, k>> \in index
=============================================================================
