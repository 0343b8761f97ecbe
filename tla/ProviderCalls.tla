---------------------------- MODULE ProviderCalls ----------------------------
(***************************************************************************)
(* Calls of one external provider by several instances of the server       *)
(* (lib/providerRuntime.js, lib/providerCooldown.js, lib/cache.js, and the *)
(* work they are for: enrich/places.js, lib/ytdlp.js).  Before a call is   *)
(* made the provider's cooldown is asked for twice, a slot is leased, and  *)
(* an observation of the spend is opened, which is closed once.  A         *)
(* rejection is recorded as a cooldown in Redis, and in the memory of the  *)
(* instance when Redis fails; every Redis command may fail, also after it  *)
(* was carried out.                                                        *)
(*                                                                         *)
(* An action is one command or one synchronous stretch of code between two *)
(* awaits.  All clocks are one.                                            *)
(***************************************************************************)
EXTENDS Integers, FiniteSets

CONSTANTS
  Instance,   \* server processes
  Caller,     \* calls that may be under way at a time
  NoCaller,
  Slots,      \* leases of the provider
  LeaseTicks,
  RetryAfter, \* what a rejection may ask for, in ticks
  CacheTicks, EmptyTicks,  \* how long an answer, and an empty one, is reused
  MaxTime,    \* bound on the clock
  Budgets     \* bounds: how often, in one behaviour, what may happen

\* Kinds of calls; calls made, rejections, failing Redis commands and calls given
\* up, instances that die.
Budget == [kinds : SUBSET {"search", "details", "source"},
           calls : Nat, rejections : Nat, failures : Nat, crashes : Nat]

ASSUME ProviderConstants ==
  /\ NoCaller \notin Caller /\ RetryAfter \subseteq Nat \ {0} /\ Budgets \subseteq Budget
  /\ {LeaseTicks, CacheTicks, EmptyTicks, MaxTime} \subseteq Nat \ {0}

VARIABLES
  clock,
  cooldown,    \* engine:cooldown:<provider> in Redis
  unpersisted, \* cooldowns an instance could not write
  lease,       \* the provider's slots in Redis
  cached,      \* the cached answer in Redis
  memory,      \* and in the memory of an instance
  call,
  told,        \* history: cooldowns an instance was told and has recorded
  agreed,      \* history: the latest of those recorded in Redis
  budget

vars == <<clock, cooldown, unpersisted, lease, cached, memory, call, told, agreed, budget>>

Larger(m, n) == IF m > n THEN m ELSE n
NoLease  == [by |-> NoCaller, until |-> 0]
NoAnswer == [is |-> "none", until |-> 0]

\* retry: bypassCache of a user's retry; wait: a cooldown being recorded, 0 for
\* none; ok: whether the work gave an answer; spend: what became of the
\* observation; attempted: the request is out and unanswered; sent: there was
\* one; saw, passed: the cooldown known when the last check began, and the time
\* it was passed.
Resting == [pc |-> "idle", on |-> "none", kind |-> "source", retry |-> FALSE, slot |-> 0,
            wait |-> 0, covers |-> 0, ok |-> "none", spend |-> "none", attempted |-> FALSE, sent |-> FALSE, saw |-> 0, passed |-> 0]

Init ==
  /\ clock = 0 /\ cooldown = 0 /\ agreed = 0
  /\ unpersisted = [i \in Instance |-> 0] /\ told = [i \in Instance |-> 0]
  /\ lease = [s \in Slots |-> NoLease]
  /\ cached = NoAnswer /\ memory = [i \in Instance |-> NoAnswer]
  /\ call = [c \in Caller |-> Resting]
  /\ budget \in Budgets

At(c, pc) == call[c].pc = pc
On(c) == call[c].on
Set(c, r) == call' = [call EXCEPT ![c] = r]
Goto(c, pc) == Set(c, [call[c] EXCEPT !.pc = pc])
Costs == budget.failures > 0 /\ budget' = [budget EXCEPT !.failures = @ - 1]

-----------------------------------------------------------------------------
(* The caches *)

Live(e) == e.is # "none" /\ clock < e.until

\* getCached: Redis, or the memory of the instance when Redis has nothing or fails.
Remembered(c) == IF Live(memory[On(c)]) THEN memory[On(c)].is ELSE "none"
Cached(c)     == IF Live(cached) THEN cached.is ELSE Remembered(c)

\* A found answer is reused; an empty one not by a retry, and not as details.
Usable(c, answer) == \/ answer = "found"
                     \/ answer = "empty" /\ call[c].kind = "search" /\ ~call[c].retry

\* searchGooglePlaces, getPlaceDetails, runYtDlp: a call begins.
Begin(c) ==
  /\ At(c, "idle") /\ budget.calls > 0
  /\ budget' = [budget EXCEPT !.calls = @ - 1]
  /\ \E i \in Instance, k \in budget.kinds, r \in BOOLEAN :
       /\ r => k = "search"
       /\ Set(c, [Resting EXCEPT !.pc = IF k = "source" THEN "enter" ELSE "lookup", !.on = i, !.kind = k, !.retry = r])
  /\ UNCHANGED <<clock, cooldown, unpersisted, lease, cached, memory, told, agreed>>

Lookup(c) ==
  /\ At(c, "lookup")
  /\ \E answer \in {Cached(c), Remembered(c)} :
       /\ answer # Cached(c) => budget.failures > 0
       /\ budget' = [budget EXCEPT !.failures = IF answer = Cached(c) THEN @ ELSE @ - 1]
       /\ IF Usable(c, answer) THEN Set(c, Resting) ELSE Goto(c, "enter")
  /\ UNCHANGED <<clock, cooldown, unpersisted, lease, cached, memory, told, agreed>>

\* setCache: Redis may fail, the memory does not.
Kept(c) == [is |-> call[c].ok, until |-> clock + (IF call[c].ok = "empty" THEN EmptyTicks ELSE CacheTicks)]

-----------------------------------------------------------------------------
(* The cooldown *)

\* Whatever the call's instance, or Redis, was told of until now.
Known(c) == Larger(told[On(c)], agreed)

\* settle; a second one would be counted.
Settles(spend) == IF spend = "open" THEN "settled" ELSE "twice"

\* The call has failed: a slot that it holds is given back.
Over(c) == [call[c] EXCEPT !.pc = IF call[c].slot = 0 THEN "done" ELSE "closing", !.ok = "none", !.wait = 0, !.covers = 0]
Fail(c) == Set(c, Over(c))

\* cooldownRemaining, what it finds before it asks Redis: one that could not be
\* written is in force here.
CheckHere(c) ==
  /\ call[c].pc \in {"enter", "leased"}
  /\ IF unpersisted[On(c)] > clock
     THEN Fail(c) /\ UNCHANGED unpersisted
     ELSE /\ unpersisted' = [unpersisted EXCEPT ![On(c)] = 0]
          /\ Set(c, [call[c] EXCEPT !.pc = IF At(c, "enter") THEN "ask" ELSE "askAgain", !.saw = Known(c)])
  /\ UNCHANGED <<clock, cooldown, lease, cached, memory, told, agreed, budget>>

CheckRedis(c) ==
  /\ call[c].pc \in {"ask", "askAgain"}
  /\ \/ /\ cooldown <= clock
        /\ Set(c, [call[c] EXCEPT !.pc = IF At(c, "ask") THEN "waiting" ELSE "ready", !.passed = clock])
        /\ UNCHANGED budget
     \/ cooldown > clock /\ Fail(c) /\ UNCHANGED budget
     \/ Costs /\ Fail(c)
  /\ UNCHANGED <<clock, cooldown, unpersisted, lease, cached, memory, told, agreed>>

-----------------------------------------------------------------------------
(* The lease, the observation and the call itself *)

FreeSlots == {s \in Slots : lease[s].by = NoCaller \/ lease[s].until <= clock}
Leased(c, s) == [lease EXCEPT ![s] = [by |-> c, until |-> clock + LeaseTicks]]

\* SET NX EX; one that fails after it was carried out keeps the slot from
\* everyone until it expires.
TakeLease(c) ==
  /\ At(c, "waiting")
  /\ \/ \E s \in FreeSlots :
          lease' = Leased(c, s) /\ Set(c, [call[c] EXCEPT !.pc = "leased", !.slot = s]) /\ UNCHANGED budget
     \/ Costs /\ Fail(c) /\ lease' \in {lease} \cup {Leased(c, s) : s \in FreeSlots}
  /\ UNCHANGED <<clock, cooldown, unpersisted, cached, memory, told, agreed>>

\* beginProviderObservation, unless the job was stopped meanwhile.
Open(c) ==
  /\ At(c, "ready")
  /\ \/ Set(c, [call[c] EXCEPT !.pc = "opened", !.spend = "open"]) /\ UNCHANGED budget
     \/ Costs /\ Fail(c)
  /\ UNCHANGED <<clock, cooldown, unpersisted, lease, cached, memory, told, agreed>>

\* Fault: whatever was sent is settled.
CatchSent(c) == IF call[c].sent THEN Settles(call[c].spend) ELSE "released"

\* The catch of withProvider: an unanswered request is settled, an observation
\* without one released; one that was answered is settled already.
Catch(c) == IF call[c].attempted THEN Settles(call[c].spend)
            ELSE IF call[c].spend # "none" /\ ~call[c].sent THEN "released" ELSE call[c].spend
Caught(c) == Set(c, [Over(c) EXCEPT !.spend = Catch(c), !.attempted = FALSE])

\* The authorizations between the observation and the request: a refusal
\* releases what was not sent.
Dispatch(c) ==
  /\ At(c, "opened")
  /\ \/ Set(c, [call[c] EXCEPT !.pc = "sent", !.sent = TRUE, !.attempted = TRUE]) /\ UNCHANGED budget
     \/ Costs /\ Caught(c)
  /\ UNCHANGED <<clock, cooldown, unpersisted, lease, cached, memory, told, agreed>>

\* A Places search; details without a name or coordinates are rejected.
PlacesAnswers(c) == IF call[c].kind = "search" THEN {"found", "empty"} ELSE {"found"}

Responded(c) == [call[c] EXCEPT !.spend = Settles(@), !.attempted = FALSE]
Refuses == budget.rejections > 0 /\ budget' = [budget EXCEPT !.rejections = @ - 1]
OnlyCall == UNCHANGED <<clock, cooldown, unpersisted, lease, cached, memory, told, agreed>>

\* The work answers, or ends with an error, by its timeout or with its process.
Answered(c) ==
  /\ At(c, "sent") /\ OnlyCall
  /\ \/ \E v \in IF call[c].kind = "source" THEN {"found"} ELSE PlacesAnswers(c) :
          Set(c, [Responded(c) EXCEPT !.pc = "closing", !.ok = v]) /\ UNCHANGED budget
     \/ Costs /\ Caught(c)

\* A subtitle track was refused, the metadata is an answer all the same: settled
\* before the cooldown is recorded.
SubtitleRefused(c) ==
  /\ At(c, "sent") /\ call[c].kind = "source" /\ Refuses /\ OnlyCall
  /\ \E d \in RetryAfter : Set(c, [Responded(c) EXCEPT !.pc = "record", !.wait = d, !.ok = "found"])

\* The request is refused: the catch settles, then records.
Refused(c) ==
  /\ At(c, "sent") /\ Refuses /\ OnlyCall
  /\ \E d \in RetryAfter : Set(c, [call[c] EXCEPT !.spend = Catch(c), !.attempted = FALSE, !.pc = "record", !.wait = d])

\* The duration sent covers what could not be written before.
Covers(c) == clock + Larger(call[c].wait, unpersisted[On(c)] - clock)

\* recordCooldown, up to the command.
Record(c) ==
  /\ At(c, "record")
  /\ Set(c, [call[c] EXCEPT !.pc = "recording", !.covers = Covers(c), !.passed = clock])
  /\ UNCHANGED <<clock, cooldown, unpersisted, lease, cached, memory, told, agreed, budget>>

\* RECORD: a cooldown is never shortened; the time is that of Redis.
Extended(c) == Larger(cooldown, clock + call[c].covers - call[c].passed)
AskedFor(c) == call[c].passed + call[c].wait

\* Fault: a success clears what is remembered.
ClearedBy(c) == 0

\* A longer one that failed meanwhile stays.
Cleared(c) == IF unpersisted[On(c)] <= call[c].covers THEN 0 ELSE unpersisted[On(c)]

\* The answer of the command.  Recording the refusal of a request is the last
\* step of the catch, that of a subtitle one of the try, so that its failure is
\* caught.
Recorded(c) ==
  /\ At(c, "recording")
  /\ \/ /\ cooldown' = Extended(c)
        /\ unpersisted' = [unpersisted EXCEPT ![On(c)] = Cleared(c)]
        /\ agreed' = Larger(agreed, AskedFor(c)) /\ UNCHANGED <<told, budget>>
        /\ IF call[c].ok = "none" THEN Fail(c)
           ELSE Set(c, [call[c] EXCEPT !.pc = "closing", !.wait = 0, !.covers = 0])
     \/ /\ Costs
        /\ cooldown' \in {cooldown, Extended(c)}
        /\ unpersisted' = [unpersisted EXCEPT ![On(c)] = Larger(@, clock + call[c].wait)]
        /\ told' = [told EXCEPT ![On(c)] = Larger(@, AskedFor(c))] /\ UNCHANGED agreed
        /\ IF call[c].ok = "none" THEN Fail(c) ELSE Caught(c)
  /\ UNCHANGED <<clock, lease, cached, memory>>

\* The end of withLease: an answer counts only for who still holds the slot;
\* a slot is given back by its holder.  Redis may fail at either.
Holds(c) == lease[call[c].slot].by = c /\ clock < lease[call[c].slot].until

Given(c) == IF Holds(c) THEN [lease EXCEPT ![call[c].slot] = NoLease] ELSE lease
Ends(c) == IF call[c].ok # "none" /\ Holds(c) /\ call[c].kind # "source" THEN "keep" ELSE "done"

Close(c) ==
  /\ At(c, "closing")
  /\ \E pc \in {Ends(c), "done"} :
       /\ Set(c, [call[c] EXCEPT !.pc = pc, !.slot = 0])
       /\ \/ pc = Ends(c) /\ lease' = Given(c) /\ UNCHANGED budget
          \/ Costs /\ lease' \in {lease, Given(c)}
  /\ UNCHANGED <<clock, cooldown, unpersisted, cached, memory, told, agreed>>

Keep(c) ==
  /\ At(c, "keep")
  /\ \/ cached' = Kept(c) /\ UNCHANGED budget
     \/ Costs /\ UNCHANGED cached
  /\ memory' = [memory EXCEPT ![On(c)] = Kept(c)]
  /\ Goto(c, "done")
  /\ UNCHANGED <<clock, cooldown, unpersisted, lease, told, agreed>>

Return(c) ==
  /\ At(c, "done")
  /\ Set(c, Resting)
  /\ UNCHANGED <<clock, cooldown, unpersisted, lease, cached, memory, told, agreed, budget>>

-----------------------------------------------------------------------------

\* A process dies and forgets; its leases stay until they expire.
Crash(i) ==
  /\ budget.crashes > 0 /\ budget' = [budget EXCEPT !.crashes = @ - 1]
  /\ call' = [c \in Caller |-> IF On(c) = i THEN Resting ELSE call[c]]
  /\ unpersisted' = [unpersisted EXCEPT ![i] = 0] /\ told' = [told EXCEPT ![i] = 0]
  /\ memory' = [memory EXCEPT ![i] = NoAnswer]
  /\ UNCHANGED <<clock, cooldown, lease, cached, agreed>>

Tick ==
  /\ clock < MaxTime /\ clock' = clock + 1
  /\ UNCHANGED <<cooldown, unpersisted, lease, cached, memory, call, told, agreed, budget>>

CallStep(c) == \/ Begin(c) \/ Lookup(c) \/ CheckHere(c) \/ CheckRedis(c) \/ TakeLease(c) \/ Open(c) \/ Dispatch(c)
               \/ Answered(c) \/ SubtitleRefused(c) \/ Refused(c) \/ Record(c) \/ Recorded(c) \/ Close(c) \/ Keep(c) \/ Return(c)

Next == (\E c \in Caller : CallStep(c)) \/ (\E i \in Instance : Crash(i)) \/ Tick

Spec == Init /\ [][Next]_vars

-----------------------------------------------------------------------------

\* No call goes ahead against a cooldown that its instance, or Redis, had
\* recorded before the last check began, also when a command failed, a shorter
\* cooldown was recorded meanwhile, or another call's write succeeded.
CooldownRespected == \A c \in Caller :
  call[c].pc \in {"ready", "opened", "sent"} => call[c].saw <= call[c].passed

\* When a call is over, its observation was settled exactly once if the
\* provider was asked, and released otherwise, also when the cooldown of a
\* refused subtitle could not be recorded after the answer.
SpendClosedOnce == \A c \in Caller : call[c].pc = "done" =>
  call[c].spend = IF call[c].sent THEN "settled" ELSE IF call[c].spend = "none" THEN "none" ELSE "released"
=============================================================================
