-------------------------- MODULE PaidCalls_proofs --------------------------
(***************************************************************************)
(* Proofs about the two guards of calls that cost: the leases and the      *)
(* cooldown of ProviderCalls, which decide when a call is made, and the    *)
(* books of SpendLedger, which say what calls have cost.  For any          *)
(* instances, calls, slots, reports, times and crashes.                    *)
(***************************************************************************)
EXTENDS ProviderCalls, SpendLedger, FiniteSetTheorems, WellFoundedInduction, TLAPS

-----------------------------------------------------------------------------
(* Providers: the invariant *)

Early == {"idle", "lookup", "enter", "ask", "waiting", "leased", "askAgain", "ready"}
Late  == {"closing", "keep", "done"}

CallRecord ==
  [pc : Early \cup Late \cup {"opened", "sent", "record", "recording"}, on : Instance \cup {"none"},
   kind : {"search", "details", "source"}, retry : BOOLEAN, slot : Slots \cup {0}, wait : Nat, covers : Nat,
   ok : {"none", "found", "empty"}, spend : {"none", "open", "settled", "twice", "released"}, attempted : BOOLEAN,
   sent : BOOLEAN, saw : Nat, passed : Nat]

Placed(r) == r.pc # "idle" => r.on \in Instance

Typed ==
  /\ clock \in Nat /\ cooldown \in Nat /\ agreed \in Nat
  /\ unpersisted \in [Instance -> Nat] /\ told \in [Instance -> Nat]
  /\ call \in [Caller -> CallRecord] /\ budget \in Budget
  /\ \A c \in Caller : Placed(call[c])

\* What becomes of a spend, by where the call is.
Closes(r) ==
  /\ r.pc \in Early => r.spend = "none" /\ ~r.sent /\ ~r.attempted
  /\ r.pc = "opened" => r.spend = "open" /\ ~r.sent /\ ~r.attempted
  /\ r.pc = "sent" => r.spend = "open" /\ r.sent /\ r.attempted
  /\ r.pc \in {"record", "recording"} => r.spend = "settled" /\ r.sent /\ ~r.attempted
  /\ r.pc \in Late => r.spend = IF r.sent THEN "settled" ELSE IF r.spend = "none" THEN "none" ELSE "released"

\* What a call knows of the cooldown: with Redis' cooldown at d, at time t.
Heeds(r, d, t) ==
  /\ r.pc \in {"ask", "askAgain"} => r.saw <= d \/ r.saw <= t
  /\ r.pc \in {"ready", "opened", "sent"} => r.saw <= r.passed
  /\ r.pc = "recording" => r.passed <= t /\ r.passed + r.wait <= r.covers

\* A cooldown an instance was told of is in its memory, in Redis, or over.
Remembers(i) == told[i] <= unpersisted[i] \/ told[i] <= cooldown \/ told[i] <= clock

Heeded == agreed <= cooldown /\ (\A i \in Instance : Remembers(i)) /\ \A c \in Caller : Heeds(call[c], cooldown, clock)

Inv == Typed /\ (\A c \in Caller : Closes(call[c])) /\ Heeded

-----------------------------------------------------------------------------
(* Steps of one call *)

LEMMA CallTyped == ASSUME Inv, NEW c \in Caller PROVE call[c] \in CallRecord /\ Closes(call[c]) /\ Heeds(call[c], cooldown, clock) /\ Placed(call[c])
  BY DEF Inv, Typed, Heeded

LEMMA HeedsLonger ==
  ASSUME NEW r \in CallRecord, NEW d \in Nat, NEW e \in Nat, NEW t \in Nat, NEW u \in Nat, d <= e, t <= u, Heeds(r, d, t)
  PROVE  Heeds(r, e, u)
  BY DEF Heeds, CallRecord

\* A step of one call, which leaves the other calls as they are.
LEMMA InvSet ==
  ASSUME Inv, NEW c \in Caller, NEW r \in CallRecord, Set(c, r), Placed(r), Closes(r), Heeds(r, cooldown', clock),
         clock' = clock, budget' \in Budget, cooldown' \in Nat, agreed' \in Nat, cooldown <= cooldown', agreed' <= cooldown',
         unpersisted' \in [Instance -> Nat], told' \in [Instance -> Nat], \A i \in Instance : Remembers(i)'
  PROVE  Inv'
<1>1. call' = [call EXCEPT ![c] = r] /\ call \in [Caller -> CallRecord]
  BY DEF Set, Inv, Typed
<1>2. ASSUME NEW d \in Caller PROVE call'[d] \in CallRecord /\ Placed(call'[d]) /\ Closes(call'[d]) /\ Heeds(call'[d], cooldown', clock')
  <2>1. CASE d = c
    <3>1. call'[d] = r
      BY <1>1, <2>1
    <3> QED BY <3>1
  <2>2. CASE d # c
    <3>1. call'[d] = call[d] /\ call[d] \in CallRecord
      BY <1>1, <2>2
    <3>2. Heeds(call[d], cooldown', clock')
      BY <3>1, CallTyped, HeedsLonger DEF Inv, Typed
    <3> QED BY <3>1, <3>2, CallTyped
  <2> QED BY <2>1, <2>2
<1>3. call' \in [Caller -> CallRecord]
  BY <1>1
<1>4. Typed'
  BY <1>2, <1>3 DEF Inv, Typed
<1>5. Heeded'
  BY <1>2 DEF Heeded
<1> QED BY <1>2, <1>4, <1>5 DEF Inv

\* Of a step that leaves the cooldowns alone only the record matters.
LEMMA InvQuiet ==
  ASSUME Inv, NEW c \in Caller, NEW r \in CallRecord, Set(c, r), Placed(r), Closes(r), Heeds(r, cooldown, clock),
         UNCHANGED <<clock, cooldown, agreed, unpersisted, told>>, budget' \in Budget
  PROVE  Inv'
<1>1. \A i \in Instance : Remembers(i)'
  BY DEF Inv, Heeded, Remembers
<1>2. clock \in Nat /\ cooldown \in Nat /\ agreed \in Nat /\ agreed <= cooldown
      /\ unpersisted \in [Instance -> Nat] /\ told \in [Instance -> Nat]
  BY DEF Inv, Typed, Heeded
<1> QED BY <1>1, <1>2, InvSet

LEMMA Costing == ASSUME Inv, Costs \/ Refuses \/ UNCHANGED budget PROVE budget' \in Budget
  BY DEF Inv, Typed, Costs, Refuses, Budget

\* A failing call before its request, and the catch after it.
LEMMA OverFits ==
  ASSUME Inv, NEW c \in Caller, call[c].pc \in {"enter", "ask", "waiting", "leased", "askAgain", "ready", "recording"}
  PROVE  Over(c) \in CallRecord /\ Over(c).pc \in Late /\ Over(c).on = call[c].on /\ Closes(Over(c))
<1> DEFINE goal == IF call[c].slot = 0 THEN "done" ELSE "closing"
           r == [call[c] EXCEPT !.pc = goal, !.ok = "none", !.wait = 0, !.covers = 0]
<1>1. call[c] \in CallRecord /\ goal \in Late /\ Over(c) = r
  BY CallTyped DEF Over, Late
<1>2. r \in CallRecord /\ r.pc = goal /\ r.on = call[c].on /\ r.spend = call[c].spend /\ r.sent = call[c].sent
  <2> HIDE DEF goal
  <2> QED BY <1>1, ZenonT(60) DEF CallRecord
<1>3. Closes(r)
  <2> HIDE DEF goal, r
  <2> QED BY <1>1, <1>2, CallTyped DEF Closes, Early, Late
<1> QED
  <2> HIDE DEF goal, r
  <2> QED BY <1>1, <1>2, <1>3

LEMMA CaughtFits ==
  ASSUME Inv, NEW c \in Caller, call[c].pc \in {"opened", "sent", "recording"}, NEW r, r = [Over(c) EXCEPT !.spend = Catch(c), !.attempted = FALSE]
  PROVE  r \in CallRecord /\ r.pc \in Late /\ r.on = call[c].on /\ Closes(r)
<1> DEFINE goal == IF call[c].slot = 0 THEN "done" ELSE "closing"
           q == [call[c] EXCEPT !.pc = goal, !.ok = "none", !.wait = 0, !.covers = 0]
           spend == Catch(c)
<1>1. call[c] \in CallRecord /\ goal \in Late /\ Over(c) = q
  BY CallTyped DEF Over, Late
<1>2. spend = IF call[c].sent THEN "settled" ELSE "released"
  BY CallTyped DEF Closes, Catch, Settles, CallRecord
<1>3. r \in CallRecord /\ r.pc = goal /\ r.on = call[c].on /\ r.spend = spend /\ r.sent = call[c].sent
  <2>1. spend \in {"settled", "released"}
    BY <1>2
  <2>2. q \in CallRecord /\ q.pc = goal /\ q.on = call[c].on /\ q.sent = call[c].sent
    <3> HIDE DEF goal
    <3> QED BY <1>1 DEF CallRecord
  <2> HIDE DEF goal, spend, q
  <2>3. r = [q EXCEPT !.spend = spend, !.attempted = FALSE]
    BY <1>1 DEF spend
  <2> QED BY <2>1, <2>2, <2>3, ZenonT(60) DEF CallRecord
<1>4. Closes(r)
  <2> HIDE DEF goal, q, spend
  <2> QED BY <1>1, <1>2, <1>3 DEF Closes, Early, Late
<1> QED
  <2> HIDE DEF goal, q
  <2> QED BY <1>1, <1>3, <1>4

\* The call fails, or is caught, and nothing else changes but the bounds.
LEMMA FailFits ==
  ASSUME Inv, NEW c \in Caller, call[c].pc \in {"enter", "ask", "waiting", "leased", "askAgain", "ready"}, Fail(c),
         UNCHANGED <<clock, cooldown, agreed, unpersisted, told>>, budget' \in Budget
  PROVE  Inv'
<1>1. Over(c) \in CallRecord /\ Placed(Over(c)) /\ Closes(Over(c)) /\ Heeds(Over(c), cooldown, clock)
  BY OverFits, CallTyped DEF Placed, Heeds, Late
<1>2. Set(c, Over(c))
  BY DEF Fail
<1> QED BY <1>1, <1>2, InvQuiet

LEMMA CatchFits ==
  ASSUME Inv, NEW c \in Caller, call[c].pc \in {"opened", "sent"}, Caught(c),
         UNCHANGED <<clock, cooldown, agreed, unpersisted, told>>, budget' \in Budget
  PROVE  Inv'
<1> DEFINE r == [Over(c) EXCEPT !.spend = Catch(c), !.attempted = FALSE]
<1>1. r \in CallRecord /\ r.pc \in Late /\ r.on = call[c].on /\ Closes(r)
  BY CaughtFits
<1>2. Set(c, r)
  BY DEF Caught
<1> HIDE DEF r
<1>3. Placed(r) /\ Heeds(r, cooldown, clock)
  BY <1>1, CallTyped DEF Placed, Heeds, Late
<1> QED BY <1>1, <1>2, <1>3, InvQuiet

-----------------------------------------------------------------------------

LEMMA InvInit == Init => Inv
<1> SUFFICES ASSUME Init PROVE Inv
  OBVIOUS
<1>1. Resting \in CallRecord /\ Closes(Resting) /\ Placed(Resting) /\ Heeds(Resting, 0, 0)
  BY DEF Resting, CallRecord, Closes, Placed, Heeds, Early, Late
<1>2. call = [c \in Caller |-> Resting] /\ clock = 0 /\ cooldown = 0 /\ agreed = 0
      /\ unpersisted = [i \in Instance |-> 0] /\ told = [i \in Instance |-> 0] /\ budget \in Budget
  BY ProviderConstants DEF Init
<1> HIDE DEF Resting
<1> QED BY <1>1, <1>2 DEF Inv, Typed, Heeded, Remembers

LEMMA BeginInv == ASSUME Inv, NEW c \in Caller, Begin(c) PROVE Inv'
<1>1. PICK i \in Instance, k \in budget.kinds, b \in BOOLEAN :
        Set(c, [Resting EXCEPT !.pc = IF k = "source" THEN "enter" ELSE "lookup", !.on = i, !.kind = k, !.retry = b])
  BY DEF Begin
<1> DEFINE goal == IF k = "source" THEN "enter" ELSE "lookup"
           r == [Resting EXCEPT !.pc = goal, !.on = i, !.kind = k, !.retry = b]
<1>2. goal \in {"enter", "lookup"} /\ k \in {"search", "details", "source"}
  BY DEF Inv, Typed, Budget
<1>3. r \in CallRecord /\ r.pc = goal /\ r.on = i /\ r.spend = "none" /\ ~r.sent /\ ~r.attempted
  <2> HIDE DEF goal
  <2> QED BY <1>2 DEF Resting, CallRecord, Early
<1>4. Set(c, r)
  BY <1>1
<1> HIDE DEF r, goal
<1>5. Placed(r) /\ Closes(r) /\ Heeds(r, cooldown, clock)
  BY <1>2, <1>3 DEF Placed, Closes, Heeds, Early, Late
<1>6. budget' \in Budget /\ UNCHANGED <<clock, cooldown, agreed, unpersisted, told>>
  BY DEF Begin, Inv, Typed, Budget
<1> QED BY <1>3, <1>4, <1>5, <1>6, InvQuiet

\* A call that is over, or found an answer in the cache.
LEMMA RestingInv ==
  ASSUME Inv, NEW c \in Caller, Set(c, Resting), UNCHANGED <<clock, cooldown, agreed, unpersisted, told>>, budget' \in Budget
  PROVE  Inv'
<1>1. Resting \in CallRecord /\ Closes(Resting) /\ Placed(Resting) /\ Heeds(Resting, cooldown, clock)
  BY DEF Resting, CallRecord, Closes, Placed, Heeds, Early, Late
<1> QED BY <1>1, InvQuiet

\* A call that only goes on, before it has opened a spend or when it is over.
LEMMA GotoInv ==
  ASSUME Inv, NEW c \in Caller, NEW goal, Goto(c, goal), UNCHANGED <<clock, cooldown, agreed, unpersisted, told>>, budget' \in Budget,
         \/ call[c].pc = "lookup" /\ goal = "enter"
         \/ call[c].pc = "keep" /\ goal = "done"
  PROVE  Inv'
<1> DEFINE r == [call[c] EXCEPT !.pc = goal]
<1>1. r \in CallRecord /\ r.pc = goal /\ r.on = call[c].on /\ r.spend = call[c].spend /\ r.sent = call[c].sent /\ r.attempted = call[c].attempted
  BY CallTyped DEF CallRecord, Early, Late
<1>2. Set(c, r)
  BY DEF Goto
<1> HIDE DEF r
<1>3. Placed(r) /\ Closes(r) /\ Heeds(r, cooldown, clock)
  BY <1>1, CallTyped DEF Placed, Closes, Heeds, Early, Late
<1> QED BY <1>1, <1>2, <1>3, InvQuiet

LEMMA LookupInv == ASSUME Inv, NEW c \in Caller, Lookup(c) PROVE Inv'
<1>1. call[c].pc = "lookup" /\ UNCHANGED <<clock, cooldown, agreed, unpersisted, told>>
  BY DEF Lookup, At
<1>2. Set(c, Resting) \/ Goto(c, "enter")
  BY DEF Lookup
<1>3. budget' \in Budget
  <2>1. PICK answer \in {Cached(c), Remembered(c)} :
          /\ answer # Cached(c) => budget.failures > 0
          /\ budget' = [budget EXCEPT !.failures = IF answer = Cached(c) THEN @ ELSE @ - 1]
    BY DEF Lookup
  <2> DEFINE n == IF answer = Cached(c) THEN budget.failures ELSE budget.failures - 1
  <2>2. n \in Nat /\ budget' = [budget EXCEPT !.failures = n]
    BY <2>1 DEF Inv, Typed, Budget
  <2> HIDE DEF n
  <2> QED BY <2>2 DEF Inv, Typed, Budget
<1> QED BY <1>1, <1>2, <1>3, RestingInv, GotoInv

\* What the call knows of when it asks Redis is in Redis' cooldown, or over.
LEMMA CheckHereInv == ASSUME Inv, NEW c \in Caller, CheckHere(c) PROVE Inv'
<1> DEFINE i == call[c].on
<1>1. call[c].pc \in {"enter", "leased"} /\ UNCHANGED <<clock, cooldown, told, agreed, budget>> /\ i \in Instance
  BY CallTyped DEF CheckHere, Placed
<1>2. CASE unpersisted[i] > clock
  <2>1. Fail(c) /\ UNCHANGED unpersisted
    BY <1>2 DEF CheckHere, On
  <2> QED BY <1>1, <2>1, FailFits DEF Inv, Typed
<1>3. CASE ~(unpersisted[i] > clock)
  <2> DEFINE goal == IF At(c, "enter") THEN "ask" ELSE "askAgain"
             saw == Known(c)
             r == [call[c] EXCEPT !.pc = goal, !.saw = saw]
  <2>1. unpersisted' = [unpersisted EXCEPT ![i] = 0] /\ Set(c, r)
    BY <1>3 DEF CheckHere, On
  <2>2. told[i] \in Nat /\ agreed \in Nat /\ unpersisted[i] \in Nat /\ clock \in Nat /\ cooldown \in Nat /\ agreed <= cooldown
    BY <1>1 DEF Inv, Typed, Heeded
  <2>3. saw \in Nat /\ (saw <= cooldown \/ saw <= clock)
    <3>1. told[i] <= unpersisted[i] \/ told[i] <= cooldown \/ told[i] <= clock
      BY <1>1 DEF Inv, Heeded, Remembers
    <3>2. saw = told[i] \/ saw = agreed
      BY DEF Known, Larger, On
    <3> HIDE DEF saw
    <3> QED BY <1>3, <2>2, <3>1, <3>2
  <2>4. goal \in {"ask", "askAgain"}
    OBVIOUS
  <2>5. r \in CallRecord /\ r.pc = goal /\ r.saw = saw /\ r.on = i /\ r.spend = call[c].spend /\ r.sent = call[c].sent
        /\ r.attempted = call[c].attempted
    <3> HIDE DEF goal, saw
    <3> QED BY CallTyped, <2>3, <2>4, ZenonT(60) DEF CallRecord, Early
  <2> HIDE DEF r, goal, saw
  <2>6. Placed(r) /\ Closes(r) /\ Heeds(r, cooldown, clock)
    BY <1>1, <2>3, <2>4, <2>5, CallTyped DEF Placed, Closes, Heeds, Early, Late
  <2>7. unpersisted' \in [Instance -> Nat] /\ \A j \in Instance : Remembers(j)'
    <3>1. unpersisted' \in [Instance -> Nat]
      BY <2>1 DEF Inv, Typed
    <3>2. ASSUME NEW j \in Instance PROVE Remembers(j)'
      <4>1. Remembers(j) /\ told'[j] = told[j] /\ cooldown' = cooldown /\ clock' = clock
            /\ unpersisted'[j] = (IF j = i THEN 0 ELSE unpersisted[j]) /\ told[j] \in Nat /\ unpersisted[j] \in Nat
        BY <1>1, <2>1 DEF Inv, Typed, Heeded
      <4> QED BY <1>3, <2>2, <4>1 DEF Remembers
    <3> QED BY <3>1, <3>2
  <2> QED BY <1>1, <2>1, <2>2, <2>5, <2>6, <2>7, InvSet DEF Inv, Typed
<1> QED BY <1>2, <1>3

LEMMA CheckRedisInv == ASSUME Inv, NEW c \in Caller, CheckRedis(c) PROVE Inv'
<1>1. call[c].pc \in {"ask", "askAgain"} /\ UNCHANGED <<clock, cooldown, unpersisted, told, agreed>> /\ budget' \in Budget
  BY Costing DEF CheckRedis
<1>2. CASE Fail(c)
  BY <1>1, <1>2, FailFits
<1>3. CASE ~Fail(c)
  <2> DEFINE goal == IF At(c, "ask") THEN "waiting" ELSE "ready"
             r == [call[c] EXCEPT !.pc = goal, !.passed = clock]
  <2>1. cooldown <= clock /\ Set(c, r)
    BY <1>3 DEF CheckRedis
  <2>2. goal \in {"waiting", "ready"} /\ clock \in Nat /\ cooldown \in Nat
    BY DEF Inv, Typed
  <2>3. r \in CallRecord /\ r.pc = goal /\ r.saw = call[c].saw /\ r.passed = clock /\ r.on = call[c].on /\ r.spend = call[c].spend
        /\ r.sent = call[c].sent /\ r.attempted = call[c].attempted
    <3> HIDE DEF goal
    <3> QED BY CallTyped, <2>2, ZenonT(60) DEF CallRecord, Early
  <2> HIDE DEF r, goal
  <2>4. call[c].saw \in Nat /\ (call[c].saw <= cooldown \/ call[c].saw <= clock)
    BY <1>1, CallTyped DEF Heeds, CallRecord
  <2>5. Placed(r) /\ Closes(r) /\ Heeds(r, cooldown, clock)
    BY <1>1, <2>1, <2>2, <2>3, <2>4, CallTyped DEF Placed, Closes, Heeds, Early, Late
  <2> QED BY <1>1, <2>1, <2>3, <2>5, InvQuiet
<1> QED BY <1>2, <1>3

LEMMA TakeLeaseInv == ASSUME Inv, NEW c \in Caller, TakeLease(c) PROVE Inv'
<1>1. call[c].pc = "waiting" /\ UNCHANGED <<clock, cooldown, unpersisted, told, agreed>> /\ budget' \in Budget
  BY Costing DEF TakeLease, At
<1>2. CASE Fail(c)
  BY <1>1, <1>2, FailFits
<1>3. CASE ~Fail(c)
  <2>1. PICK s \in Slots : Set(c, [call[c] EXCEPT !.pc = "leased", !.slot = s])
    BY <1>3 DEF TakeLease, FreeSlots
  <2> DEFINE r == [call[c] EXCEPT !.pc = "leased", !.slot = s]
  <2>2. r \in CallRecord /\ r.pc = "leased" /\ r.on = call[c].on /\ r.spend = call[c].spend
        /\ r.sent = call[c].sent /\ r.attempted = call[c].attempted
    BY CallTyped, ZenonT(60) DEF CallRecord, Early
  <2>3. Set(c, r)
    BY <2>1
  <2> HIDE DEF r
  <2>4. Placed(r) /\ Closes(r) /\ Heeds(r, cooldown, clock)
    BY <1>1, <2>2, CallTyped DEF Placed, Closes, Heeds, Early, Late
  <2> QED BY <1>1, <2>2, <2>3, <2>4, InvQuiet
<1> QED BY <1>2, <1>3

LEMMA OpenInv == ASSUME Inv, NEW c \in Caller, Open(c) PROVE Inv'
<1>1. call[c].pc = "ready" /\ UNCHANGED <<clock, cooldown, unpersisted, told, agreed>> /\ budget' \in Budget
  BY Costing DEF Open, At
<1>2. CASE Fail(c)
  BY <1>1, <1>2, FailFits
<1>3. CASE ~Fail(c)
  <2> DEFINE r == [call[c] EXCEPT !.pc = "opened", !.spend = "open"]
  <2>1. Set(c, r)
    BY <1>3 DEF Open
  <2>2. r \in CallRecord /\ r.pc = "opened" /\ r.on = call[c].on /\ r.spend = "open" /\ r.saw = call[c].saw /\ r.passed = call[c].passed
        /\ r.sent = call[c].sent /\ r.attempted = call[c].attempted
    BY CallTyped, ZenonT(60) DEF CallRecord
  <2> HIDE DEF r
  <2>3. Placed(r) /\ Closes(r) /\ Heeds(r, cooldown, clock)
    BY <1>1, <2>2, CallTyped DEF Placed, Closes, Heeds, Early, Late
  <2> QED BY <1>1, <2>1, <2>2, <2>3, InvQuiet
<1> QED BY <1>2, <1>3

LEMMA DispatchInv == ASSUME Inv, NEW c \in Caller, Dispatch(c) PROVE Inv'
<1>1. call[c].pc = "opened" /\ UNCHANGED <<clock, cooldown, unpersisted, told, agreed>> /\ budget' \in Budget
  BY Costing DEF Dispatch, At
<1>2. CASE Caught(c)
  BY <1>1, <1>2, CatchFits
<1>3. CASE ~Caught(c)
  <2> DEFINE r == [call[c] EXCEPT !.pc = "sent", !.sent = TRUE, !.attempted = TRUE]
  <2>1. Set(c, r)
    BY <1>3 DEF Dispatch
  <2>2. r \in CallRecord /\ r.pc = "sent" /\ r.on = call[c].on /\ r.spend = call[c].spend /\ r.saw = call[c].saw /\ r.passed = call[c].passed
        /\ r.sent /\ r.attempted
    BY CallTyped, ZenonT(60) DEF CallRecord
  <2> HIDE DEF r
  <2>3. Placed(r) /\ Closes(r) /\ Heeds(r, cooldown, clock)
    BY <1>1, <2>2, CallTyped DEF Placed, Closes, Heeds, Early, Late
  <2> QED BY <1>1, <2>1, <2>2, <2>3, InvQuiet
<1> QED BY <1>2, <1>3

\* A response closes the spend of the request that was out.
LEMMA RespondedFits ==
  ASSUME Inv, NEW c \in Caller, call[c].pc = "sent", NEW goal \in {"closing", "record"}, NEW ok \in {"none", "found", "empty"}, NEW w \in Nat,
         NEW r, r = [call[c] EXCEPT !.spend = "settled", !.attempted = FALSE, !.pc = goal, !.ok = ok, !.wait = w]
  PROVE  r \in CallRecord /\ Placed(r) /\ Closes(r) /\ Heeds(r, cooldown, clock)
<1>1. r \in CallRecord /\ r.pc = goal /\ r.on = call[c].on /\ r.spend = "settled" /\ r.sent = call[c].sent /\ ~r.attempted
  BY CallTyped, ZenonT(60) DEF CallRecord, Late
<1> QED BY <1>1, CallTyped DEF Placed, Closes, Heeds, Early, Late

LEMMA SentInv == ASSUME Inv, NEW c \in Caller, Answered(c) \/ SubtitleRefused(c) \/ Refused(c) PROVE Inv'
<1>1. call[c].pc = "sent" /\ UNCHANGED <<clock, cooldown, unpersisted, told, agreed>> /\ budget' \in Budget /\ call[c] \in CallRecord
  BY Costing, CallTyped DEF Answered, SubtitleRefused, Refused, At, OnlyCall
<1>2. call[c].spend = "open" /\ Catch(c) = "settled" /\ Settles(call[c].spend) = "settled"
  BY <1>1, CallTyped DEF Closes, Catch, Settles
<1>3. Responded(c) = [call[c] EXCEPT !.spend = "settled", !.attempted = FALSE]
  BY <1>1, <1>2 DEF Responded
<1>4. CASE Caught(c)
  BY <1>1, <1>4, CatchFits
<1>5. ASSUME NEW v \in {"found", "empty"}, Set(c, [Responded(c) EXCEPT !.pc = "closing", !.ok = v]) PROVE Inv'
  <2> DEFINE w == call[c].wait
             r == [call[c] EXCEPT !.spend = "settled", !.attempted = FALSE, !.pc = "closing", !.ok = v, !.wait = w]
  <2>1. r = [Responded(c) EXCEPT !.pc = "closing", !.ok = v] /\ w \in Nat
    <3>1. w \in Nat
      BY <1>1 DEF CallRecord
    <3>2. r = [[call[c] EXCEPT !.spend = "settled", !.attempted = FALSE] EXCEPT !.pc = "closing", !.ok = v]
      BY <1>1 DEF CallRecord
    <3> QED BY <1>3, <3>1, <3>2
  <2>2. Set(c, r)
    BY <1>5, <2>1
  <2>3. r \in CallRecord /\ Placed(r) /\ Closes(r) /\ Heeds(r, cooldown, clock)
    BY <1>1, <2>1, RespondedFits
  <2> QED BY <1>1, <2>2, <2>3, InvQuiet
<1>6. ASSUME NEW d \in RetryAfter, Set(c, [Responded(c) EXCEPT !.pc = "record", !.wait = d, !.ok = "found"]) PROVE Inv'
  <2> DEFINE r == [call[c] EXCEPT !.spend = "settled", !.attempted = FALSE, !.pc = "record", !.ok = "found", !.wait = d]
  <2>1. r = [Responded(c) EXCEPT !.pc = "record", !.wait = d, !.ok = "found"] /\ d \in Nat
    BY <1>1, <1>3, ProviderConstants DEF CallRecord
  <2>2. Set(c, r)
    BY <1>6, <2>1
  <2>3. r \in CallRecord /\ Placed(r) /\ Closes(r) /\ Heeds(r, cooldown, clock)
    BY <1>1, <2>1, RespondedFits
  <2> QED BY <1>1, <2>2, <2>3, InvQuiet
<1>7. ASSUME NEW d \in RetryAfter, Set(c, [call[c] EXCEPT !.spend = Catch(c), !.attempted = FALSE, !.pc = "record", !.wait = d]) PROVE Inv'
  <2> DEFINE r == [call[c] EXCEPT !.spend = "settled", !.attempted = FALSE, !.pc = "record", !.ok = call[c].ok, !.wait = d]
  <2>1. r = [call[c] EXCEPT !.spend = Catch(c), !.attempted = FALSE, !.pc = "record", !.wait = d] /\ d \in Nat /\ call[c].ok \in {"none", "found", "empty"}
    BY <1>1, <1>2, ProviderConstants DEF CallRecord
  <2>2. Set(c, r)
    BY <1>7, <2>1
  <2>3. r \in CallRecord /\ Placed(r) /\ Closes(r) /\ Heeds(r, cooldown, clock)
    BY <1>1, <2>1, RespondedFits
  <2> QED BY <1>1, <2>2, <2>3, InvQuiet
<1>8. CASE Answered(c)
  <2>1. CASE \E v \in IF call[c].kind = "source" THEN {"found"} ELSE PlacesAnswers(c) : Set(c, [Responded(c) EXCEPT !.pc = "closing", !.ok = v])
    <3>1. PICK v \in IF call[c].kind = "source" THEN {"found"} ELSE PlacesAnswers(c) : Set(c, [Responded(c) EXCEPT !.pc = "closing", !.ok = v])
      BY <2>1
    <3>2. v \in {"found", "empty"}
      BY DEF PlacesAnswers
    <3> QED BY <1>5, <3>1, <3>2
  <2>2. CASE Caught(c)
    BY <1>4, <2>2
  <2> QED BY <1>8, <2>1, <2>2 DEF Answered
<1>9. CASE SubtitleRefused(c)
  BY <1>6, <1>9 DEF SubtitleRefused
<1>10. CASE Refused(c)
  BY <1>7, <1>10 DEF Refused
<1> QED BY <1>8, <1>9, <1>10

\* Recording begins with a duration that covers what was asked for.
LEMMA RecordInv == ASSUME Inv, NEW c \in Caller, Record(c) PROVE Inv'
<1> DEFINE covers == Covers(c)
           r == [call[c] EXCEPT !.pc = "recording", !.covers = covers, !.passed = clock]
<1>1. call[c].pc = "record" /\ UNCHANGED <<clock, cooldown, unpersisted, told, agreed, budget>> /\ Set(c, r)
  BY DEF Record, At
<1>2. call[c] \in CallRecord /\ call[c].on \in Instance /\ clock \in Nat
  BY <1>1, CallTyped DEF Placed, Inv, Typed
<1>3. covers \in Nat /\ clock + call[c].wait <= covers
  <2>1. call[c].wait \in Nat /\ unpersisted[call[c].on] \in Nat
    BY <1>2 DEF CallRecord, Inv, Typed
  <2> QED BY <1>2, <2>1 DEF Covers, Larger, On
<1>4. r \in CallRecord /\ r.pc = "recording" /\ r.on = call[c].on /\ r.spend = call[c].spend /\ r.wait = call[c].wait
      /\ r.covers = covers /\ r.passed = clock /\ r.sent = call[c].sent /\ r.attempted = call[c].attempted
  <2> HIDE DEF covers
  <2> QED BY <1>2, <1>3 DEF CallRecord
<1> HIDE DEF r, covers
<1>5. Placed(r) /\ Closes(r) /\ Heeds(r, cooldown, clock)
  BY <1>1, <1>2, <1>3, <1>4, CallTyped DEF Placed, Closes, Heeds, Early, Late
<1> QED BY <1>1, <1>4, <1>5, InvQuiet DEF Inv, Typed

LEMMA Recordings ==
  ASSUME Inv, NEW c \in Caller, call[c].pc = "recording"
  PROVE  /\ call[c].on \in Instance /\ call[c].wait \in Nat /\ call[c].covers \in Nat /\ call[c].passed \in Nat
         /\ call[c].passed <= clock /\ AskedFor(c) <= call[c].covers /\ AskedFor(c) \in Nat
         /\ Extended(c) \in Nat /\ cooldown <= Extended(c) /\ call[c].covers <= Extended(c)
<1>1. call[c].on \in Instance /\ call[c].wait \in Nat /\ call[c].covers \in Nat /\ call[c].passed \in Nat
      /\ call[c].passed <= clock /\ call[c].passed + call[c].wait <= call[c].covers /\ clock \in Nat /\ cooldown \in Nat
  BY CallTyped DEF CallRecord, Placed, Heeds, Inv, Typed
<1> QED BY <1>1 DEF AskedFor, Extended, Larger

LEMMA RecordedInv == ASSUME Inv, NEW c \in Caller, Recorded(c) PROVE Inv'
<1> DEFINE i == call[c].on
<1>1. call[c].pc = "recording" /\ clock' = clock /\ i \in Instance
  BY Recordings DEF Recorded, At
<1>2. \E r \in CallRecord : Set(c, r) /\ r.pc \in Late /\ r.on = i /\ Closes(r)
  <2>1. CASE Fail(c)
    BY <1>1, <2>1, OverFits DEF Fail
  <2>2. CASE Caught(c)
    BY <1>1, <2>2, CaughtFits DEF Caught
  <2>3. CASE Set(c, [call[c] EXCEPT !.pc = "closing", !.wait = 0, !.covers = 0])
    <3> DEFINE r == [call[c] EXCEPT !.pc = "closing", !.wait = 0, !.covers = 0]
    <3>1. r \in CallRecord /\ r.pc = "closing" /\ r.on = i /\ r.spend = call[c].spend /\ r.sent = call[c].sent
      BY CallTyped, ZenonT(60) DEF CallRecord, Late
    <3>2. Set(c, r)
      BY <2>3
    <3> HIDE DEF r
    <3>3. Closes(r)
      BY <1>1, <3>1, CallTyped DEF Closes, Early, Late
    <3> QED BY <3>1, <3>2, <3>3 DEF Late
  <2> QED BY <2>1, <2>2, <2>3 DEF Recorded
<1>3. PICK r \in CallRecord : Set(c, r) /\ r.pc \in Late /\ r.on = i /\ Closes(r)
  BY <1>2
<1>4. Placed(r) /\ \A d \in Nat : Heeds(r, d, clock)
  BY <1>1, <1>3 DEF Placed, Heeds, Late
<1>5. /\ clock \in Nat /\ cooldown \in Nat /\ agreed \in Nat /\ agreed <= cooldown
      /\ unpersisted \in [Instance -> Nat] /\ told \in [Instance -> Nat]
      /\ \A j \in Instance : Remembers(j) /\ told[j] \in Nat /\ unpersisted[j] \in Nat
  BY DEF Inv, Typed, Heeded
<1>6. CASE /\ cooldown' = Extended(c) /\ unpersisted' = [unpersisted EXCEPT ![On(c)] = Cleared(c)]
           /\ agreed' = Larger(agreed, AskedFor(c)) /\ UNCHANGED <<told, budget>>
  <2>1. agreed' \in Nat /\ agreed' <= cooldown' /\ cooldown <= cooldown' /\ cooldown' \in Nat
    BY <1>1, <1>5, <1>6, Recordings DEF Larger
  <2>2. unpersisted' \in [Instance -> Nat]
    BY <1>1, <1>5, <1>6 DEF Cleared, On
  <2>3. ASSUME NEW j \in Instance PROVE Remembers(j)'
    <3>1. CASE j = i
      <4>1. unpersisted'[j] = Cleared(c) /\ told'[j] = told[j]
        BY <1>1, <1>5, <1>6, <3>1 DEF On
      <4>2. unpersisted[j] <= call[c].covers => told[j] <= cooldown' \/ told[j] <= clock
        BY <1>1, <1>5, <1>6, <2>1, Recordings DEF Remembers
      <4>3. ~(unpersisted[j] <= call[c].covers) => Cleared(c) = unpersisted[j]
        BY <3>1 DEF Cleared, On
      <4> QED BY <1>1, <1>5, <2>1, <4>1, <4>2, <4>3 DEF Remembers
    <3>2. CASE j # i
      <4>1. unpersisted'[j] = unpersisted[j] /\ told'[j] = told[j]
        BY <1>5, <1>6, <3>2 DEF On
      <4> QED BY <1>1, <1>5, <2>1, <4>1 DEF Remembers
    <3> QED BY <3>1, <3>2
  <2>4. budget' \in Budget
    BY <1>6 DEF Inv, Typed
  <2> QED BY <1>1, <1>3, <1>4, <1>5, <1>6, <2>1, <2>2, <2>3, <2>4, InvSet
<1>7. CASE /\ Costs /\ cooldown' \in {cooldown, Extended(c)} /\ UNCHANGED agreed
           /\ unpersisted' = [unpersisted EXCEPT ![On(c)] = Larger(@, clock + call[c].wait)]
           /\ told' = [told EXCEPT ![On(c)] = Larger(@, AskedFor(c))]
  <2>1. cooldown <= cooldown' /\ cooldown' \in Nat /\ agreed' \in Nat /\ agreed' <= cooldown'
    BY <1>1, <1>5, <1>7, Recordings
  <2>2. Larger(unpersisted[i], clock + call[c].wait) \in Nat /\ Larger(told[i], AskedFor(c)) \in Nat
    BY <1>1, <1>5, Recordings DEF Larger
  <2>3. unpersisted' \in [Instance -> Nat] /\ told' \in [Instance -> Nat]
    BY <1>1, <1>5, <1>7, <2>2 DEF On
  <2>4. ASSUME NEW j \in Instance PROVE Remembers(j)'
    <3>1. CASE j = i
      <4>1. unpersisted'[j] = Larger(unpersisted[j], clock + call[c].wait) /\ told'[j] = Larger(told[j], AskedFor(c))
        BY <1>1, <1>5, <1>7, <3>1 DEF On
      <4>2. AskedFor(c) <= clock + call[c].wait
        BY <1>1, <1>5, Recordings DEF AskedFor
      <4>3. Remembers(j)
        BY <1>5
      <4> QED BY <1>1, <1>5, <2>1, <4>1, <4>2, <4>3, Recordings DEF Remembers, Larger
    <3>2. CASE j # i
      <4>1. unpersisted'[j] = unpersisted[j] /\ told'[j] = told[j]
        BY <1>5, <1>7, <3>2 DEF On
      <4> QED BY <1>1, <1>5, <2>1, <4>1 DEF Remembers
    <3> QED BY <3>1, <3>2
  <2>5. budget' \in Budget
    BY <1>7, Costing
  <2> QED BY <1>1, <1>3, <1>4, <1>5, <2>1, <2>3, <2>4, <2>5, InvSet
<1> QED BY <1>6, <1>7 DEF Recorded

LEMMA CloseInv == ASSUME Inv, NEW c \in Caller, Close(c) PROVE Inv'
<1>1. call[c].pc = "closing" /\ UNCHANGED <<clock, cooldown, unpersisted, told, agreed>> /\ budget' \in Budget
  BY Costing DEF Close, At
<1>2. PICK goal \in {Ends(c), "done"} : Set(c, [call[c] EXCEPT !.pc = goal, !.slot = 0])
  BY DEF Close
<1> DEFINE r == [call[c] EXCEPT !.pc = goal, !.slot = 0]
<1>3. goal \in {"keep", "done"}
  BY DEF Ends
<1>4. r \in CallRecord /\ r.pc = goal /\ r.on = call[c].on /\ r.spend = call[c].spend /\ r.sent = call[c].sent
  BY <1>3, CallTyped, ZenonT(60) DEF CallRecord, Late
<1>5. Set(c, r)
  BY <1>2
<1> HIDE DEF r
<1>6. Placed(r) /\ Closes(r) /\ Heeds(r, cooldown, clock)
  BY <1>1, <1>3, <1>4, CallTyped DEF Placed, Closes, Heeds, Early, Late
<1> QED BY <1>1, <1>4, <1>5, <1>6, InvQuiet

\* A process that dies forgets its calls and what it was told.
LEMMA CrashInv == ASSUME Inv, NEW i \in Instance, Crash(i) PROVE Inv'
<1>1. /\ clock' = clock /\ cooldown' = cooldown /\ agreed' = agreed
      /\ unpersisted' = [unpersisted EXCEPT ![i] = 0] /\ told' = [told EXCEPT ![i] = 0]
      /\ call' = [c \in Caller |-> IF On(c) = i THEN Resting ELSE call[c]]
  BY DEF Crash
<1>2. budget' \in Budget
  BY DEF Crash, Inv, Typed, Budget
<1>3. Resting \in CallRecord /\ Closes(Resting) /\ Placed(Resting) /\ Heeds(Resting, cooldown, clock)
  BY DEF Resting, CallRecord, Closes, Placed, Heeds, Early, Late
<1>4. ASSUME NEW c \in Caller PROVE call'[c] \in CallRecord /\ Closes(call'[c]) /\ Placed(call'[c]) /\ Heeds(call'[c], cooldown, clock)
  <2>1. call'[c] = Resting \/ call'[c] = call[c]
    BY <1>1
  <2> HIDE DEF Resting
  <2> QED BY <1>3, <2>1, CallTyped
<1>5. call' \in [Caller -> CallRecord]
  <2>1. call' = [c \in Caller |-> call'[c]]
    BY <1>1
  <2> QED BY <1>4, <2>1
<1>6. Typed'
  BY <1>1, <1>2, <1>4, <1>5 DEF Inv, Typed
<1>7. \A j \in Instance : Remembers(j)'
  BY <1>1 DEF Inv, Typed, Heeded, Remembers
<1> QED BY <1>1, <1>4, <1>6, <1>7 DEF Inv, Heeded

LEMMA TickInv == ASSUME Inv, Tick PROVE Inv'
<1>1. clock' = clock + 1 /\ clock \in Nat /\ cooldown \in Nat
      /\ UNCHANGED <<cooldown, unpersisted, call, told, agreed, budget>>
  BY DEF Tick, Inv, Typed
<1>2. \A c \in Caller : Heeds(call[c], cooldown, clock + 1)
  BY <1>1, CallTyped, HeedsLonger
<1>3. \A i \in Instance : Remembers(i)'
  BY <1>1 DEF Inv, Typed, Heeded, Remembers
<1> QED BY <1>1, <1>2, <1>3 DEF Inv, Typed, Heeded

LEMMA KeepInv == ASSUME Inv, NEW c \in Caller, Keep(c) PROVE Inv'
<1>1. call[c].pc = "keep" /\ UNCHANGED <<clock, cooldown, unpersisted, told, agreed>> /\ budget' \in Budget /\ Goto(c, "done")
  BY Costing DEF Keep, At
<1> QED BY <1>1, GotoInv

LEMMA ReturnInv == ASSUME Inv, NEW c \in Caller, Return(c) PROVE Inv'
<1>1. UNCHANGED <<clock, cooldown, unpersisted, told, agreed>> /\ budget' \in Budget /\ Set(c, Resting)
  BY Costing DEF Return
<1> QED BY <1>1, RestingInv

LEMMA InvStep == Inv /\ [Next]_vars => Inv'
<1> SUFFICES ASSUME Inv, [Next]_vars PROVE Inv'
  OBVIOUS
<1>1. ASSUME NEW c \in Caller, CallStep(c) PROVE Inv'
  BY <1>1, BeginInv, LookupInv, CheckHereInv, CheckRedisInv, TakeLeaseInv, OpenInv, DispatchInv, SentInv, RecordInv, RecordedInv,
     CloseInv, KeepInv, ReturnInv DEF CallStep
<1>2. CASE UNCHANGED vars
  BY <1>2 DEF vars, Inv, Typed, Heeded, Remembers
<1> QED BY <1>1, <1>2, CrashInv, TickInv DEF Next

LEMMA InvHolds == Spec => []Inv
  BY InvInit, InvStep, PTL DEF Spec

\* No call goes ahead against a cooldown that its instance, or Redis, had on
\* record before the call's last check.
THEOREM CooldownHolds == Spec => []CooldownRespected
<1>1. Inv => CooldownRespected
  BY DEF Inv, Heeded, Heeds, CooldownRespected
<1> QED BY <1>1, InvHolds, PTL

\* A call that is over has settled what it sent, and released what it did not.
THEOREM SpendHolds == Spec => []SpendClosedOnce
<1>1. Inv => SpendClosedOnce
  BY DEF Inv, Closes, Late, SpendClosedOnce
<1> QED BY <1>1, InvHolds, PTL

(***************************************************************************)
(* The ledger.                                                             *)
(***************************************************************************)

-----------------------------------------------------------------------------
(* Records *)

LEMMA ContributionType == ASSUME NEW r \in Observation PROVE Contribution(r) \in [Counters -> Nat]
<1>1. CASE ~Dispatched(r)
  BY <1>1 DEF Contribution, Blank
<1>2. CASE Dispatched(r)
  <2> DEFINE open == r.state # "settled"
             f == Contribution(r)
  <2>1. f = [physicalCalls |-> 1, knownActual |-> r.known,
             settled |-> IF open THEN 0 ELSE 1, unresolved |-> IF open THEN 1 ELSE 0,
             unknownLiability |-> IF open /\ (r.ceiling = NoCeiling \/ r.breached) THEN 1 ELSE 0,
             uncertainLiability |-> IF open /\ r.ceiling # NoCeiling THEN Remaining(r) ELSE 0]
    BY <1>2 DEF Contribution
  <2>2. r.known \in Nat /\ (open /\ r.ceiling # NoCeiling => Remaining(r) \in Nat)
    BY LedgerConstants DEF Observation, Remaining
  <2> QED BY <2>1, <2>2 DEF Counters
<1> QED BY <1>1, <1>2

LEMMA AppliedType ==
  ASSUME NEW r \in Observation, NEW e \in Event, ceiling \in [Call -> Nat \cup {NoCeiling}],
         usage \in [Call -> [known : Nat, full : BOOLEAN]]
  PROVE  Applied(r, e) \in Observation
<1> DEFINE s == IF r.state = "absent" THEN [r EXCEPT !.state = "prepared"] ELSE r
<1>1. s \in Observation
  BY DEF Observation
<1>2. e[1] \in Call /\ e[2] \in {"begin", "release", "dispatch", "settle"}
  BY DEF Event, Kind
<1>3. ASSUME NEW t \in Observation PROVE AsDispatched(t, e[1]) \in Observation
  BY <1>2 DEF AsDispatched, Observation
<1>4. ASSUME NEW t \in Observation PROVE Settled(t, usage[e[1]]) \in Observation
  BY <1>2 DEF Settled, Observation
<1>5. Released(s) \in Observation
  BY <1>1 DEF Released, Observation
<1>. HIDE DEF s
<1>6. Applied(r, e) \in {s, Released(s), AsDispatched(s, e[1]), Settled(AsDispatched(s, e[1]), usage[e[1]])}
  BY <1>2 DEF Applied, s
<1> QED BY <1>1, <1>3, <1>4, <1>5, <1>6

LEMMA EventPairs == \A e \in Event : e = <<e[1], e[2]>> /\ e[1] \in Call /\ e[2] \in {"begin", "dispatch", "settle", "release"}
  BY DEF Event, Kind

\* Whatever the event, a record keeps its dispatch, its ceiling and what is
\* known of its cost.
LEMMA AppliedFinal ==
  ASSUME NEW r \in Observation, NEW e \in Event, usage \in [Call -> [known : Nat, full : BOOLEAN]],
         ceiling \in [Call -> Nat \cup {NoCeiling}]
  PROVE  LET s == Applied(r, e) IN
         /\ Dispatched(r) => Dispatched(s) /\ s.ceiling = r.ceiling /\ s.known >= r.known
         /\ r.state = "settled" => s.state = "settled" /\ s.known = r.known
<1>0. CASE ~Dispatched(r)
  BY <1>0 DEF Dispatched
<1>1. CASE Dispatched(r)
  <2>1. r.state # "absent" /\ AsDispatched(r, e[1]) = r /\ Released(r) = r
    BY <1>1 DEF Dispatched, AsDispatched, Released
  <2>2. Applied(r, e) \in {r, Settled(r, usage[e[1]])}
    BY <2>1, EventPairs DEF Applied
  <2>3. LET s == Settled(r, usage[e[1]]) IN
        /\ Dispatched(s) /\ s.ceiling = r.ceiling /\ s.known >= r.known
        /\ r.state = "settled" => s = r
    BY <1>1, EventPairs DEF Settled, Dispatched, Observation
  <2> QED BY <1>1, <2>2, <2>3 DEF Observation
<1> QED BY <1>0, <1>1

\* What a record says it goes on saying, whatever event comes next.
LEMMA AppliedKeeps ==
  ASSUME NEW r \in Observation, NEW e \in Event, NEW f \in Event, e[1] = f[1], Says(r, f),
         usage \in [Call -> [known : Nat, full : BOOLEAN]], ceiling \in [Call -> Nat \cup {NoCeiling}]
  PROVE  Says(Applied(r, e), f)
<1> DEFINE s == Applied(r, e)
<1>0. s \in Observation
  BY AppliedType
<1>1. CASE Dispatched(r)
  <2>1. Dispatched(s) /\ s.known >= r.known /\ (r.state = "settled" => s.state = "settled")
    BY AppliedFinal, <1>1 DEF Observation
  <2>2. CASE f[2] # "settle"
    BY <2>1, <2>2, EventPairs DEF Says, Dispatched
  <2>3. CASE f[2] = "settle"
    <3>1. r.known >= usage[f[1]].known /\ r.state \in {"uncertain", "settled"}
          /\ (usage[f[1]].full => r.state = "settled")
      BY <2>3 DEF Says
    <3>2. s.state \in {"uncertain", "settled"}
      <4>1. AsDispatched(r, e[1]) = r /\ Released(r) = r /\ r.state # "absent"
        BY <1>1 DEF Dispatched, AsDispatched, Released
      <4>2. s \in {r, Settled(r, usage[e[1]])}
        BY <4>1, EventPairs DEF Applied
      <4>3. Settled(r, usage[e[1]]).state \in {"uncertain", "settled"}
        BY <3>1, EventPairs DEF Settled, Observation
      <4> QED BY <3>1, <4>2, <4>3
    <3>3. s.known >= usage[f[1]].known
      BY <1>0, <2>1, <3>1, EventPairs DEF Observation
    <3> QED BY <2>1, <2>3, <3>1, <3>2, <3>3 DEF Says
  <2> QED BY <2>2, <2>3
<1>2. CASE ~Dispatched(r)
  <2>1. /\ f[2] \in {"begin", "release"} /\ r.state # "absent"
        /\ f[2] = "release" => r.state = "released"
    BY <1>2, EventPairs DEF Says, Dispatched
  <2>2. s \in {r, Released(r), AsDispatched(r, e[1]), Settled(AsDispatched(r, e[1]), usage[e[1]])}
    BY <2>1, EventPairs DEF Applied
  <2>3. Released(r).state = "released" /\ AsDispatched(r, e[1]).state = "dispatched"
    BY <1>2 DEF Released, AsDispatched, Observation
  <2>4. AsDispatched(r, e[1]) \in Observation
    BY EventPairs DEF AsDispatched, Observation
  <2>5. Settled(AsDispatched(r, e[1]), usage[e[1]]).state \in {"uncertain", "settled"}
    BY <2>3, <2>4, EventPairs DEF Settled, Observation
  <2> QED BY <2>1, <2>2, <2>3, <2>5 DEF Says, Dispatched
<1> QED BY <1>1, <1>2

\* An event that is applied is then in the record.
LEMMA AppliedLands ==
  ASSUME NEW r \in Observation, NEW e \in Event,
         r.state \in {"uncertain", "settled"} => Says(r, <<e[1], "settle">>),
         usage \in [Call -> [known : Nat, full : BOOLEAN]], ceiling \in [Call -> Nat \cup {NoCeiling}]
  PROVE  Says(Applied(r, e), e)
<1> DEFINE t == IF r.state = "absent" THEN [r EXCEPT !.state = "prepared"] ELSE r
           d == AsDispatched(t, e[1])
<1>0. t \in Observation /\ t.state # "absent" /\ (r.state # "absent" => t = r)
  BY DEF Observation
<1>1. d \in Observation /\ Dispatched(d) /\ (Dispatched(t) => d = t)
      /\ (~Dispatched(t) => d.state = "dispatched")
  BY <1>0, EventPairs DEF AsDispatched, Observation, Dispatched
<1>2. Released(t).state = "released" \/ Dispatched(Released(t))
  BY <1>0 DEF Released, Observation
<1>3. CASE e[2] = "begin"
  <2>1. Applied(r, e) = t
    BY <1>3 DEF Applied
  <2> HIDE DEF t
  <2> QED BY <1>0, <1>3, <2>1 DEF Says
<1>4. CASE e[2] = "release"
  <2>1. Applied(r, e) = Released(t)
    BY <1>4 DEF Applied
  <2> HIDE DEF t
  <2> QED BY <1>2, <1>4, <2>1 DEF Says
<1>5. CASE e[2] = "dispatch"
  <2>1. Applied(r, e) = d
    BY <1>5 DEF Applied
  <2> HIDE DEF d
  <2> QED BY <1>1, <1>5, <2>1 DEF Says
<1>6. CASE e[2] = "settle"
  <2>1. Applied(r, e) = Settled(d, usage[e[1]])
    BY <1>6 DEF Applied
  <2>2. CASE d.state = "settled"
    <3>1. d = r
      BY <1>0, <1>1, <2>2 DEF Dispatched
    <3>2. Says(r, <<e[1], "settle">>)
      BY <2>2, <3>1
    <3>3. Settled(d, usage[e[1]]) = r
      BY <2>2, <3>1 DEF Settled
    <3> HIDE DEF d, t
    <3> QED BY <1>6, <2>1, <3>2, <3>3, EventPairs
  <2>3. CASE d.state # "settled"
    <3> HIDE DEF d, t
    <3>1. LET s == Settled(d, usage[e[1]]) IN
          /\ s.known >= usage[e[1]].known
          /\ s.state = IF usage[e[1]].full THEN "settled" ELSE "uncertain"
      BY <1>1, <2>3, EventPairs DEF Settled, Observation
    <3> QED BY <1>6, <2>1, <3>1 DEF Says
  <2> QED BY <2>2, <2>3
<1> QED BY <1>3, <1>4, <1>5, <1>6, EventPairs

\* Only a settlement makes a record uncertain or settled.
LEMMA AppliedSettles ==
  ASSUME NEW r \in Observation, NEW e \in Event, e[2] # "settle",
         Applied(r, e).state \in {"uncertain", "settled"}
  PROVE  r.state \in {"uncertain", "settled"}
  BY EventPairs DEF Applied, AsDispatched, Released, Dispatched, Observation

-----------------------------------------------------------------------------
(* The invariant: where an event got to says where it must be found *)

Unsettled(c) == pc[c] \in {"idle", "prepared", "dispatched"}

\* The event's handle cannot have issued it yet.
Unissued(e) == CASE e[2] = "begin"  -> pc[e[1]] = "idle"
                 [] e[2] = "settle" -> Unsettled(e[1])
                 [] OTHER           -> pc[e[1]] \in {"idle", "prepared"}

LedgerTyped ==
  /\ pc \in [Call -> {"idle", "prepared", "dispatched", "ended", "dead"}]
  /\ ceiling \in [Call -> Nat \cup {NoCeiling}]
  /\ usage \in [Call -> [known : Nat, full : BOOLEAN]]
  /\ remote \in [Event -> {"none", "open", "done", "lost"}]
  /\ local \in [Event -> {"none", "open", "file", "failed", "removed"}]
  /\ receipt \in [Event -> {"none", "firestore", "local", "unconfirmed"}]
  /\ replay \in Event \cup {Idle} /\ replayed \in BOOLEAN
  /\ replay = Idle => replayed = FALSE
  /\ rec \in [Call -> Observation]

\* A write that is over, a receipt, a file that is gone and a replay that is
\* through each vouch for the record; a local receipt vouches for the file.
Vouched == \A e \in Event :
  /\ remote[e] = "done" \/ receipt[e] = "firestore" \/ local[e] = "removed" => InLedger(e)
  /\ receipt[e] = "local" => local[e] \in {"file", "removed"}
  /\ replay = e /\ replayed => InLedger(e)

\* Nothing is known of an event before it is issued.
Fresh == \A e \in Event : Unissued(e) =>
  remote[e] = "none" /\ local[e] = "none" /\ receipt[e] = "none" /\ replay # e

\* A record is settled by its handle's report alone, once that is chosen.
ReportFixed == \A c \in Call :
  rec[c].state \in {"uncertain", "settled"} => ~Unsettled(c) /\ InLedger(<<c, "settle">>)

LedgerInv == LedgerTyped /\ Vouched /\ Fresh /\ ReportFixed

LEMMA LedgerInvInit == LedgerInit => LedgerInv
<1> SUFFICES ASSUME LedgerInit PROVE LedgerInv
  OBVIOUS
<1> USE DEF LedgerInit
<1>1. Absent \in Observation
  BY DEF Absent, Observation, Blank
<1>2. Idle \notin Event
  BY LedgerConstants DEF Event, Kind
<1>3. LedgerTyped
  BY <1>1 DEF LedgerTyped
<1>4. Vouched
  BY <1>2 DEF Vouched
<1>5. Fresh
  BY <1>2 DEF Fresh
<1>6. ReportFixed
  BY DEF ReportFixed, Absent
<1> QED BY <1>3, <1>4, <1>5, <1>6 DEF LedgerInv

\* A transition keeps what the records say and adds its event; only the event
\* of a settlement settles its call.
LEMMA PersistSays ==
  ASSUME LedgerInv, NEW e \in Event, Persist(e), UNCHANGED <<ceiling, usage>>
  PROVE  /\ rec' \in [Call -> Observation]
         /\ \A f \in Event : InLedger(f) => InLedger(f)'
         /\ InLedger(e)'
         /\ \A c \in Call : /\ rec'[c].state \in {"uncertain", "settled"} => InLedger(<<c, "settle">>)'
                            /\ \/ rec'[c].state \notin {"uncertain", "settled"}
                               \/ rec[c].state \in {"uncertain", "settled"}
                               \/ e = <<c, "settle">>
<1> DEFINE a == e[1]
           r == rec[a]
           n == Applied(r, e)
           s == [n EXCEPT !.pending = n.added # Contribution(n)]
<1> USE DEF LedgerInv
<1>1. a \in Call /\ r \in Observation /\ n \in Observation
  BY EventPairs, AppliedType DEF LedgerTyped
<1>2. s \in Observation /\ s.state = n.state /\ s.known = n.known
  BY <1>1 DEF Observation
<1>3. rec' = [rec EXCEPT ![a] = s]
  BY DEF Persist
<1>4. rec' \in [Call -> Observation] /\ rec'[a] = s /\ \A c \in Call \ {a} : rec'[c] = rec[c]
  BY <1>1, <1>2, <1>3 DEF LedgerTyped
<1>5. ASSUME NEW f \in Event, InLedger(f) PROVE InLedger(f)'
  <2>1. CASE f[1] = a
    <3>1. Says(n, f)
      BY <1>1, <1>5, <2>1, AppliedKeeps DEF InLedger, LedgerTyped
    <3> HIDE DEF s, n
    <3> QED BY <1>2, <1>4, <2>1, <3>1 DEF InLedger, Says, Dispatched
  <2>2. CASE f[1] # a
    BY <1>4, <1>5, <2>2, EventPairs DEF InLedger, Says, Dispatched
  <2> QED BY <2>1, <2>2
<1>6. InLedger(e)'
  <2>1. r.state \in {"uncertain", "settled"} => Says(r, <<a, "settle">>)
    BY <1>1 DEF ReportFixed, InLedger
  <2>2. Says(n, e)
    BY <1>1, <2>1, AppliedLands DEF LedgerTyped
  <2> HIDE DEF s, n
  <2> QED BY <1>2, <1>4, <2>2 DEF InLedger, Says, Dispatched
<1>7. ASSUME NEW c \in Call, rec'[c].state \in {"uncertain", "settled"}
      PROVE  InLedger(<<c, "settle">>)' /\ (rec[c].state \in {"uncertain", "settled"} \/ e = <<c, "settle">>)
  <2>1. <<c, "settle">> \in Event
    BY DEF Event, Kind
  <2>2. CASE rec[c].state \in {"uncertain", "settled"}
    BY <1>5, <2>1, <2>2 DEF ReportFixed
  <2>3. CASE rec[c].state \notin {"uncertain", "settled"}
    <3>1. c = a /\ n.state \in {"uncertain", "settled"}
      BY <1>2, <1>4, <1>7, <2>3
    <3>2. e[2] = "settle"
      BY <1>1, <2>3, <3>1, AppliedSettles
    <3> QED BY <1>6, <3>1, <3>2, EventPairs
  <2> QED BY <2>2, <2>3
<1> HIDE DEF s, n
<1> QED BY <1>4, <1>5, <1>6, <1>7

\* A step that leaves the records and reports alone has only the writes to say.
LEMMA QuietStep ==
  ASSUME LedgerInv, UNCHANGED <<rec, usage>>, LedgerTyped', Fresh',
         \A c \in Call : Unsettled(c)' => Unsettled(c),
         \A e \in Event :
           /\ remote'[e] = "done" => remote[e] = "done"
           /\ receipt'[e] = "firestore" => receipt[e] = "firestore"
           /\ local'[e] = "removed" =>
                local[e] = "removed" \/ remote[e] = "done" \/ (replay = e /\ replayed)
           /\ receipt'[e] = "local" => local'[e] \in {"file", "removed"}
           /\ replay' = e /\ replayed' => replay = e /\ replayed
  PROVE  LedgerInv'
<1>1. \A e \in Event : InLedger(e)' <=> InLedger(e)
  BY DEF InLedger, Says, Dispatched
<1>2. Vouched'
  BY <1>1 DEF LedgerInv, Vouched
<1>3. \A c \in Call : <<c, "settle">> \in Event
  BY DEF Event, Kind
<1>4. ReportFixed'
  BY <1>1, <1>3 DEF LedgerInv, ReportFixed
<1> QED BY <1>2, <1>4 DEF LedgerInv

\* A transition of one event: what else happens may vouch for that event only.
LEMMA PersistStep ==
  ASSUME LedgerInv, NEW e \in Event, ~Unissued(e), Persist(e), UNCHANGED <<handle, local>>,
         remote' \in [Event -> {"none", "open", "done", "lost"}],
         receipt' \in [Event -> {"none", "firestore", "local", "unconfirmed"}],
         replay' = replay, replayed' \in BOOLEAN,
         \A f \in Event \ {e} : remote'[f] = remote[f] /\ receipt'[f] = receipt[f],
         receipt'[e] \in {receipt[e], "firestore"},
         replayed' => replayed \/ replay = e
  PROVE  LedgerInv'
<1> USE DEF handle
<1>1. /\ rec' \in [Call -> Observation]
      /\ \A f \in Event : InLedger(f) => InLedger(f)'
      /\ InLedger(e)'
      /\ \A c \in Call : /\ rec'[c].state \in {"uncertain", "settled"} => InLedger(<<c, "settle">>)'
                         /\ \/ rec'[c].state \notin {"uncertain", "settled"}
                            \/ rec[c].state \in {"uncertain", "settled"}
                            \/ e = <<c, "settle">>
  BY PersistSays
<1>0. Idle \notin Event
  BY LedgerConstants DEF Event, Kind
<1>2. LedgerTyped'
  <2>1. replay' = Idle => replayed' = FALSE
    BY <1>0 DEF LedgerInv, LedgerTyped
  <2> QED BY <1>1, <2>1 DEF LedgerInv, LedgerTyped
<1>3. Vouched'
  BY <1>1 DEF LedgerInv, Vouched
<1>4. Fresh'
  BY DEF LedgerInv, Fresh, Unissued, Unsettled
<1>5. ReportFixed'
  <2> SUFFICES ASSUME NEW c \in Call, rec'[c].state \in {"uncertain", "settled"} PROVE ~Unsettled(c)'
    BY <1>1 DEF ReportFixed
  <2>1. CASE rec[c].state \in {"uncertain", "settled"}
    BY <2>1 DEF LedgerInv, ReportFixed, Unsettled
  <2>2. CASE e = <<c, "settle">>
    BY <2>2 DEF Unissued, Unsettled
  <2> QED BY <1>1, <2>1, <2>2
<1> QED BY <1>2, <1>3, <1>4, <1>5 DEF LedgerInv

LEMMA LedgerInvStep == LedgerInv /\ [LedgerNext]_ledgerVars => LedgerInv'
<1> SUFFICES ASSUME LedgerInv, [LedgerNext]_ledgerVars PROVE LedgerInv'
  OBVIOUS
<1> USE DEF LedgerInv, handle, recovery
<1>0. \A c \in Call : \A k \in Kind : <<c, k>> \in Event
  BY DEF Event
<1>1. ASSUME NEW c \in Call, Observe(c) \/ MarkDispatched(c) \/ ReleaseUnsent(c) PROVE LedgerInv'
  <2> DEFINE issues(k) == /\ Unissued(<<c, k>>) /\ ~Unissued(<<c, k>>)'
                          /\ remote' = [remote EXCEPT ![<<c, k>>] = "open"]
                          /\ local' = [local EXCEPT ![<<c, k>>] = IF Journal THEN "open" ELSE "none"]
  <2>1. \E k \in Kind : issues(k)
    BY <1>1 DEF Observe, MarkDispatched, ReleaseUnsent, Enqueue, Unissued, Unsettled, Kind, LedgerTyped
  <2>2. PICK k \in Kind : issues(k)
    BY <2>1
  <2>3. <<c, k>> \in Event
    BY <1>0
  <2>4. UNCHANGED <<rec, usage, receipt, replay, replayed>>
    BY <1>1 DEF Observe, MarkDispatched, ReleaseUnsent, Enqueue
  <2>5. LedgerTyped'
    <3>1. pc' \in [Call -> {"idle", "prepared", "dispatched", "ended", "dead"}]
          /\ ceiling' \in [Call -> Nat \cup {NoCeiling}]
      BY <1>1, LedgerConstants DEF Observe, MarkDispatched, ReleaseUnsent, LedgerTyped
    <3> QED BY <2>2, <2>4, <3>1 DEF LedgerTyped
  <2>6. (\A x \in Call : Unsettled(x)' => Unsettled(x)) /\ (\A e \in Event : Unissued(e)' => Unissued(e))
    BY <1>1, EventPairs DEF Observe, MarkDispatched, ReleaseUnsent, Unsettled, Unissued, LedgerTyped
  <2>7. Fresh'
    BY <2>2, <2>3, <2>4, <2>6 DEF Fresh, LedgerTyped
  <2> HIDE DEF LedgerInv
  <2>8. \A e \in Event :
          /\ remote'[e] = "done" => remote[e] = "done"
          /\ local'[e] = "removed" => local[e] = "removed"
          /\ receipt'[e] = "local" => local'[e] \in {"file", "removed"}
    BY <2>2, <2>3, <2>4 DEF LedgerInv, LedgerTyped, Vouched, Fresh
  <2> QED BY <2>4, <2>5, <2>6, <2>7, <2>8, QuietStep
<1>2. ASSUME NEW c \in Call, Settle(c) PROVE LedgerInv'
  <2> DEFINE e == <<c, "settle">>
  <2>1. e \in Event /\ Unissued(e) /\ pc' = [pc EXCEPT ![c] = "ended"]
    BY <1>0, <1>2 DEF Settle, Unissued, Unsettled, Kind
  <2>2. /\ remote' = [remote EXCEPT ![e] = "open"]
        /\ local' = [local EXCEPT ![e] = IF Journal THEN "open" ELSE "none"]
        /\ UNCHANGED <<receipt, replay, replayed, rec, ceiling>>
    BY <1>2 DEF Settle, Enqueue
  <2>3. /\ usage' \in [Call -> [known : Nat, full : BOOLEAN]]
        /\ \A x \in Call \ {c} : usage'[x] = usage[x]
    BY <1>2, LedgerConstants DEF Settle, LedgerTyped
  <2>4. LedgerTyped'
    BY <2>1, <2>2, <2>3 DEF LedgerTyped
  <2>5. \A f \in Event \ {e} : InLedger(f) => InLedger(f)'
    BY <2>2, <2>3, EventPairs DEF InLedger, Says, Dispatched
  <2>6. remote[e] = "none" /\ local[e] = "none" /\ receipt[e] = "none" /\ replay # e
    BY <2>1 DEF Fresh
  <2>7. Vouched'
    <3>1. /\ remote'[e] = "open" /\ local'[e] \in {"open", "none"} /\ receipt'[e] = "none" /\ replay' # e
          /\ \A f \in Event \ {e} : remote'[f] = remote[f] /\ local'[f] = local[f]
      BY <2>1, <2>2, <2>6 DEF LedgerTyped
    <3>2. ASSUME NEW f \in Event \ {e}
          PROVE  /\ remote'[f] = "done" \/ receipt'[f] = "firestore" \/ local'[f] = "removed" => InLedger(f)'
                 /\ receipt'[f] = "local" => local'[f] \in {"file", "removed"}
                 /\ replay' = f /\ replayed' => InLedger(f)'
      BY <2>2, <2>5, <3>1 DEF Vouched
    <3> QED BY <2>2, <2>6, <3>1, <3>2 DEF Vouched
  <2>8. Fresh'
    BY <2>1, <2>2, EventPairs DEF Fresh, Unissued, Unsettled, LedgerTyped
  <2>9. ReportFixed'
    <3> SUFFICES ASSUME NEW x \in Call, rec[x].state \in {"uncertain", "settled"}
                 PROVE  ~Unsettled(x)' /\ InLedger(<<x, "settle">>)'
      BY <2>2 DEF ReportFixed
    <3>1. ~Unsettled(x) /\ x # c /\ InLedger(<<x, "settle">>)
      BY <2>1 DEF ReportFixed, Unissued
    <3>2. <<x, "settle">> \in Event \ {e}
      BY <1>0, <3>1 DEF Kind
    <3> QED BY <2>1, <2>5, <3>1, <3>2 DEF Unsettled, LedgerTyped
  <2> QED BY <2>4, <2>7, <2>8, <2>9
<1>3. ASSUME NEW e \in Event, Append(e) \/ AppendFails(e) \/ WriteFails(e) \/ Timeout(e) PROVE LedgerInv'
  <2>1. LedgerTyped'
    BY <1>3 DEF Append, AppendFails, WriteFails, Timeout, Give, DurableLocally, LedgerTyped
  <2>2. ~Unissued(e)
    BY <1>3 DEF Append, AppendFails, WriteFails, Timeout, Started, Fresh
  <2>3. Fresh'
    BY <1>3, <2>2 DEF Append, AppendFails, WriteFails, Timeout, Give, Fresh, Unissued, Unsettled, LedgerTyped
  <2>4. UNCHANGED <<rec, usage, pc>>
    BY <1>3 DEF Append, AppendFails, WriteFails, Timeout
  <2>5. \A f \in Event :
          /\ remote'[f] = "done" => remote[f] = "done"
          /\ receipt'[f] = "firestore" => receipt[f] = "firestore"
          /\ local'[f] = "removed" => local[f] = "removed"
          /\ receipt'[f] = "local" => local'[f] \in {"file", "removed"}
          /\ replay' = f /\ replayed' => replay = f /\ replayed
    BY <1>3 DEF Append, AppendFails, WriteFails, Timeout, Give, DurableLocally, LedgerTyped, Vouched
  <2> HIDE DEF LedgerInv
  <2> QED BY <2>1, <2>3, <2>4, <2>5, QuietStep DEF Unsettled
<1>4. ASSUME NEW e \in Event, Cleanup(e) \/ ReadJournal(e) \/ Remove(e) \/ RecoveryFails(e) PROVE LedgerInv'
  <2>0. Idle \notin Event
    BY LedgerConstants DEF Event, Kind
  <2>1. LedgerTyped'
    BY <1>4 DEF Cleanup, ReadJournal, Remove, RecoveryFails, Unlink, LedgerTyped
  <2>2. ~Unissued(e)
    BY <1>4 DEF Cleanup, ReadJournal, Remove, RecoveryFails, Fresh
  <2>3. Fresh'
    BY <1>4, <2>0, <2>2 DEF Cleanup, ReadJournal, Remove, RecoveryFails, Unlink, Fresh, Unissued, Unsettled, LedgerTyped
  <2>4. UNCHANGED <<rec, usage, pc>>
    BY <1>4 DEF Cleanup, ReadJournal, Remove, RecoveryFails
  <2>5. \A f \in Event :
          /\ remote'[f] = "done" => remote[f] = "done"
          /\ receipt'[f] = "firestore" => receipt[f] = "firestore"
          /\ local'[f] = "removed" => local[f] = "removed" \/ remote[f] = "done" \/ (replay = f /\ replayed)
          /\ receipt'[f] = "local" => local'[f] \in {"file", "removed"}
    BY <1>4 DEF Cleanup, ReadJournal, Remove, RecoveryFails, Unlink, LedgerTyped, Vouched
  <2>6. \A f \in Event : replay' = f /\ replayed' => replay = f /\ replayed
    <3>1. CASE ReadJournal(e)
      BY <3>1, <2>0 DEF ReadJournal, LedgerTyped
    <3>2. CASE Cleanup(e)
      BY <3>2 DEF Cleanup
    <3>3. CASE Remove(e) \/ RecoveryFails(e)
      BY <3>3 DEF Remove, RecoveryFails
    <3> QED BY <1>4, <3>1, <3>2, <3>3
  <2> HIDE DEF LedgerInv
  <2> QED BY <2>1, <2>3, <2>4, <2>5, <2>6, QuietStep DEF Unsettled
<1>5. ASSUME NEW e \in Event, Commit(e) \/ CommitUnacknowledged(e) \/ Replay(e) PROVE LedgerInv'
  <2>1. ~Unissued(e)
    BY <1>5 DEF Commit, CommitUnacknowledged, Replay, Started, Fresh
  <2>2. /\ Persist(e) /\ UNCHANGED <<handle, local>> /\ replay' = replay /\ replayed' \in BOOLEAN
        /\ replayed' => replayed \/ replay = e
    <3>1. CASE Commit(e) \/ CommitUnacknowledged(e)
      BY <3>1 DEF Commit, CommitUnacknowledged, LedgerTyped
    <3>2. CASE Replay(e)
      BY <3>2 DEF Replay
    <3> QED BY <1>5, <3>1, <3>2
  <2>3. /\ remote' \in [Event -> {"none", "open", "done", "lost"}]
        /\ receipt' \in [Event -> {"none", "firestore", "local", "unconfirmed"}]
        /\ \A f \in Event \ {e} : remote'[f] = remote[f] /\ receipt'[f] = receipt[f]
        /\ receipt'[e] \in {receipt[e], "firestore"}
    BY <1>5 DEF Commit, CommitUnacknowledged, Replay, Give, LedgerTyped
  <2> HIDE DEF LedgerInv, handle
  <2> QED BY <2>1, <2>2, <2>3, PersistStep
<1>6. ASSUME NEW c \in Call, Aggregate(c) PROVE LedgerInv'
  <2>1. Contribution(rec[c]) \in [Counters -> Nat]
    BY ContributionType DEF LedgerTyped
  <2>2. /\ rec' = [rec EXCEPT ![c] = [[rec[c] EXCEPT !.added = Contribution(rec[c])] EXCEPT !.pending = FALSE]]
        /\ UNCHANGED <<pc, ceiling, usage, remote, local, receipt, replay, replayed>>
    BY <1>6 DEF Aggregate, LedgerTyped
  <2>3. rec' \in [Call -> Observation]
        /\ \A x \in Call : rec'[x].state = rec[x].state /\ rec'[x].known = rec[x].known
    <3> DEFINE s == [[rec[c] EXCEPT !.added = Contribution(rec[c])] EXCEPT !.pending = FALSE]
    <3>1. s \in Observation /\ s.state = rec[c].state /\ s.known = rec[c].known
      BY <2>1, ZenonT(60) DEF LedgerTyped, Observation
    <3>2. rec' = [rec EXCEPT ![c] = s]
      BY <2>2
    <3> HIDE DEF s
    <3> QED BY <3>1, <3>2 DEF LedgerTyped
  <2>4. \A f \in Event : InLedger(f) => InLedger(f)'
    BY <2>2, <2>3, EventPairs DEF InLedger, Says, Dispatched
  <2>5. LedgerTyped' /\ Fresh'
    BY <2>2, <2>3 DEF LedgerTyped, Fresh, Unissued, Unsettled
  <2>6. Vouched'
    BY <2>2, <2>4 DEF Vouched
  <2>7. ReportFixed'
    BY <1>0, <2>2, <2>3, <2>4 DEF ReportFixed, Unsettled, Kind
  <2> QED BY <2>5, <2>6, <2>7
<1>7. CASE ProcessDies
  <2>1. LedgerTyped'
    BY <1>7 DEF ProcessDies, LedgerTyped
  <2>2. \A x \in Call : (Unsettled(x)' => Unsettled(x)) /\ (pc'[x] = "idle" <=> pc[x] = "idle")
        /\ pc'[x] \notin {"prepared", "dispatched"}
    BY <1>7 DEF ProcessDies, Unsettled, LedgerTyped
  <2>3. Idle \notin Event
    BY LedgerConstants DEF Event, Kind
  <2>4. Fresh'
    BY <1>7, <2>2, <2>3, EventPairs DEF ProcessDies, Fresh, Unissued, Unsettled, LedgerTyped
  <2>5. UNCHANGED <<rec, usage, receipt>> /\ replayed' = FALSE
    BY <1>7 DEF ProcessDies
  <2>6. \A f \in Event :
          /\ remote'[f] = "done" => remote[f] = "done"
          /\ local'[f] = "removed" => local[f] = "removed"
          /\ receipt'[f] = "local" => local'[f] \in {"file", "removed"}
    BY <1>7, <2>5 DEF ProcessDies, LedgerTyped, Vouched
  <2> HIDE DEF LedgerInv
  <2> QED BY <2>1, <2>2, <2>4, <2>5, <2>6, QuietStep
<1>8. CASE UNCHANGED ledgerVars
  <2>1. UNCHANGED <<pc, ceiling, usage, remote, local, receipt, replay, replayed, rec>>
    BY <1>8 DEF ledgerVars
  <2> QED BY <2>1, ZenonT(60) DEF LedgerTyped, Vouched, Fresh, ReportFixed, InLedger, Says, Unissued, Unsettled, Dispatched
<1> QED BY <1>1, <1>2, <1>3, <1>4, <1>5, <1>6, <1>7, <1>8 DEF LedgerNext, HandleStep, EventStep, WorkerStep

\* What a receipt confirms, in Firestore or on the disk, is kept.
THEOREM ConfirmedIsKept == LedgerSafety => []NothingConfirmedIsLost
<1>1. LedgerInv => NothingConfirmedIsLost
  BY DEF LedgerInv, Vouched, NothingConfirmedIsLost
<1> QED BY <1>1, LedgerInvInit, LedgerInvStep, PTL DEF LedgerSafety

\* What a step may do to one record.
Final(r, s) == /\ Dispatched(r) => Dispatched(s) /\ s.ceiling = r.ceiling /\ s.known >= r.known
               /\ r.state = "settled" => s.state = "settled" /\ s.known = r.known

LEMMA FinalStep == ASSUME LedgerInv, [LedgerNext]_ledgerVars, NEW c \in Call PROVE Final(rec[c], rec'[c])
<1>0. rec \in [Call -> Observation]
  BY DEF LedgerInv, LedgerTyped
<1>1. CASE rec'[c] = rec[c]
  BY <1>0, <1>1 DEF Final, Observation
<1>2. ASSUME NEW e \in Event, Persist(e) PROVE Final(rec[c], rec'[c])
  <2> DEFINE n == Applied(rec[e[1]], e)
             s == [n EXCEPT !.pending = n.added # Contribution(n)]
  <2>1. e[1] \in Call /\ n \in Observation
    BY <1>0, EventPairs, AppliedType DEF LedgerInv, LedgerTyped
  <2>2. s.state = n.state /\ s.known = n.known /\ s.ceiling = n.ceiling
    BY <2>1 DEF Observation
  <2>3. rec' = [rec EXCEPT ![e[1]] = s]
    BY <1>2 DEF Persist
  <2>4. CASE c = e[1]
    <3>1. Final(rec[c], n)
      BY <1>0, <2>4, AppliedFinal DEF Final, LedgerInv, LedgerTyped
    <3>2. rec'[c] = s
      BY <1>0, <2>3, <2>4
    <3> HIDE DEF s, n
    <3> QED BY <2>2, <3>1, <3>2 DEF Final, Dispatched
  <2>5. CASE c # e[1]
    BY <1>0, <1>1, <2>3, <2>5
  <2> QED BY <2>4, <2>5
<1>3. ASSUME NEW x \in Call, Aggregate(x) PROVE Final(rec[c], rec'[c])
  <2>1. rec'[c].state = rec[c].state /\ rec'[c].known = rec[c].known /\ rec'[c].ceiling = rec[c].ceiling
    BY <1>0, <1>3 DEF Aggregate, Observation
  <2> QED BY <1>0, <2>1 DEF Final, Dispatched, Observation
<1>4. \/ UNCHANGED rec
      \/ \E e \in Event : Persist(e)
      \/ \E x \in Call : Aggregate(x)
  BY DEF LedgerNext, HandleStep, EventStep, WorkerStep, Observe, MarkDispatched, Settle, ReleaseUnsent, Enqueue,
         Append, AppendFails, Commit, CommitUnacknowledged, WriteFails, Timeout, Cleanup,
         ReadJournal, Replay, Remove, RecoveryFails, ProcessDies, ledgerVars
<1> QED BY <1>1, <1>2, <1>3, <1>4

\* Whatever the order in which events land, spend is never refunded.
THEOREM SpendStays == LedgerSafety => SpendIsFinal
<1>1. LedgerInv /\ [LedgerNext]_ledgerVars => [\A c \in Call : Final(rec[c], rec'[c])]_ledgerVars
  BY FinalStep
<1> QED BY <1>1, LedgerInvInit, LedgerInvStep, PTL DEF LedgerSafety, SpendIsFinal, Final

-----------------------------------------------------------------------------
(* The sum of what the calls of a counter added to it *)

\* A property of subsets of a finite set has a smallest one.
LEMMA SmallestSet ==
  ASSUME NEW S, IsFiniteSet(S), NEW P \in SUBSET SUBSET S, P # {}
  PROVE  \E T \in P : \A U \in P : U \subseteq T => U = T
<1>1. IsWellFoundedOn(StrictSubsetOrdering(S), FiniteSubsetsOf(S)) /\ FiniteSubsetsOf(S) = SUBSET S
  BY FS_StrictSubsetOrderingWellFounded, FS_FiniteSubsetsOfFinite
<1>2. P \subseteq FiniteSubsetsOf(S)
  BY <1>1
<1>3. \E T \in P : \A U \in P : ~ (<<U, T>> \in StrictSubsetOrdering(S))
  BY <1>1, <1>2, WFMin
<1>4. PICK T \in P : \A U \in P : ~ (<<U, T>> \in StrictSubsetOrdering(S))
  BY <1>3
<1>5. ASSUME NEW U \in P, U \subseteq T PROVE U = T
  BY <1>4, <1>5 DEF StrictSubsetOrdering
<1> QED BY <1>5

\* The element a fold takes next.
Some(s) == CHOOSE x \in s : TRUE

\* What the calls of S added to counter k.
Booked(r, k, S) == MapThenSumSet(LAMBDA c : r[c].added[k], S)

\* The recursion the sum over S is defined by.
Sums(r, k, S, g) == g = [s \in SUBSET S |-> IF s = {} THEN 0 ELSE r[Some(s)].added[k] + g[s \ {Some(s)}]]

LEMMA SumsAt ==
  ASSUME NEW r, NEW k, NEW S, NEW g, Sums(r, k, S, g), NEW T \in SUBSET S
  PROVE  /\ T = {} => g[T] = 0
         /\ T # {} => Some(T) \in T /\ g[T] = r[Some(T)].added[k] + g[T \ {Some(T)}]
<1>1. g[T] = IF T = {} THEN 0 ELSE r[Some(T)].added[k] + g[T \ {Some(T)}]
  BY DEF Sums
<1>2. T # {} => Some(T) \in T
  BY DEF Some
<1> QED BY <1>1, <1>2

\* Two such recursions agree where both are defined, and there is one for every
\* finite set: a smallest set without one would have one.
LEMMA SumsAgree ==
  ASSUME NEW r, NEW k, NEW S, NEW T \in SUBSET S, IsFiniteSet(T), NEW g, NEW h, Sums(r, k, S, g), Sums(r, k, T, h)
  PROVE  g[T] = h[T]
<1> DEFINE P == {U \in SUBSET T : g[U] # h[U]}
<1> SUFFICES ASSUME P # {} PROVE FALSE
  OBVIOUS
<1>0. P \in SUBSET SUBSET T
  OBVIOUS
<1>1. PICK U \in P : \A V \in P : V \subseteq U => V = U
  <2> HIDE DEF P
  <2> QED BY <1>0, SmallestSet
<1>2. U \in SUBSET S /\ U \in SUBSET T /\ g[U] # h[U]
  OBVIOUS
<1>3. U # {} /\ Some(U) \in U
  BY <1>2, SumsAt
<1>4. g[U \ {Some(U)}] = h[U \ {Some(U)}]
  BY <1>1, <1>2, <1>3
<1> HIDE DEF P
<1> QED BY <1>2, <1>3, <1>4, SumsAt

\* Over a finite set the recursion has a solution.
LEMMA SumsExist == ASSUME NEW r, NEW k, NEW S, IsFiniteSet(S) PROVE \E g : Sums(r, k, S, g)
<1> DEFINE P == {T \in SUBSET S : ~ \E g : Sums(r, k, T, g)}
<1> SUFFICES ASSUME P # {} PROVE FALSE
  OBVIOUS
<1>0. P \in SUBSET SUBSET S
  OBVIOUS
<1>1. PICK T \in P : \A V \in P : V \subseteq T => V = T
  <2> HIDE DEF P
  <2> QED BY <1>0, SmallestSet
<1> DEFINE G(U) == CHOOSE g : Sums(r, k, U, g)
           Rest(s) == s \ {Some(s)}
           g == [s \in SUBSET T |-> IF s = {} THEN 0 ELSE r[Some(s)].added[k] + G(Rest(s))[Rest(s)]]
<1>2. \A s \in SUBSET T : s # {} => Some(s) \in s
  BY DEF Some
<1>3. ASSUME NEW U \in SUBSET T, U # T PROVE Sums(r, k, U, G(U)) /\ IsFiniteSet(U)
  <2>1. U \in SUBSET S /\ \E h : Sums(r, k, U, h)
    BY <1>1, <1>3
  <2> QED BY <2>1, FS_Subset
<1> HIDE DEF P, G
<1>4. ASSUME NEW u \in SUBSET T, u # T PROVE g[u] = G(u)[u]
  <2>1. CASE u = {}
    BY <1>3, <1>4, <2>1, SumsAt
  <2>2. CASE u # {}
    <3>1. Rest(u) \in SUBSET u /\ Rest(u) \in SUBSET T /\ Rest(u) # T
      BY <1>4, <1>2, <2>2
    <3>2. Sums(r, k, u, G(u)) /\ Sums(r, k, Rest(u), G(Rest(u))) /\ IsFiniteSet(Rest(u))
      BY <1>3, <1>4, <3>1
    <3>3. G(u)[Rest(u)] = G(Rest(u))[Rest(u)]
      <4> HIDE DEF Rest
      <4> QED BY <3>1, <3>2, SumsAgree
    <3>4. G(u)[u] = r[Some(u)].added[k] + G(u)[Rest(u)]
      BY <2>2, <3>2, SumsAt
    <3>5. g[u] = r[Some(u)].added[k] + G(Rest(u))[Rest(u)]
      BY <2>2
    <3> HIDE DEF g, Rest
    <3> QED BY <3>3, <3>4, <3>5
  <2> QED BY <2>1, <2>2
<1>5. ASSUME NEW s \in SUBSET T, s # {} PROVE g[Rest(s)] = G(Rest(s))[Rest(s)]
  <2>1. Rest(s) \in SUBSET T /\ Rest(s) # T
    BY <1>2, <1>5
  <2> HIDE DEF g, Rest
  <2> QED BY <1>4, <2>1
<1>6. g = [s \in SUBSET T |-> IF s = {} THEN 0 ELSE r[Some(s)].added[k] + g[Rest(s)]]
  <2> DEFINE h == [s \in SUBSET T |-> IF s = {} THEN 0 ELSE r[Some(s)].added[k] + g[Rest(s)]]
  <2>1. \A s \in SUBSET T : g[s] = h[s]
    <3> SUFFICES ASSUME NEW s \in SUBSET T PROVE g[s] = h[s]
      OBVIOUS
    <3>1. CASE s = {}
      BY <3>1
    <3>2. CASE s # {}
      <4>1. g[s] = r[Some(s)].added[k] + G(Rest(s))[Rest(s)]
        BY <3>2
      <4>2. h[s] = r[Some(s)].added[k] + g[Rest(s)]
        <5> HIDE DEF g
        <5> QED BY <3>2
      <4> HIDE DEF g, h, Rest
      <4> QED BY <1>5, <3>2, <4>1, <4>2
    <3> QED BY <3>1, <3>2
  <2>2. g = [s \in SUBSET T |-> g[s]]
    OBVIOUS
  <2>3. h = [s \in SUBSET T |-> h[s]]
    <3> HIDE DEF g
    <3> QED OBVIOUS
  <2> HIDE DEF g, h
  <2>4. g = h
    BY <2>1, <2>2, <2>3
  <2> QED BY <2>4 DEF h
<1>7. Sums(r, k, T, g)
  <2> HIDE DEF g
  <2> QED BY <1>6 DEF Sums
<1> HIDE DEF g
<1> QED BY <1>1, <1>7 DEF P

\* The sum takes its elements one by one.
LEMMA BookedOneByOne ==
  ASSUME NEW r, NEW k, NEW S, IsFiniteSet(S)
  PROVE  /\ S = {} => Booked(r, k, S) = 0
         /\ S # {} => Some(S) \in S /\ Booked(r, k, S) = r[Some(S)].added[k] + Booked(r, k, S \ {Some(S)})
<1> DEFINE G(T) == CHOOSE g : Sums(r, k, T, g)
<1>1. \A T : Booked(r, k, T) = G(T)[T]
  BY DEF Booked, MapThenSumSet, MapThenFoldSet, Sums, Some
<1>2. \A T \in SUBSET S : Sums(r, k, T, G(T)) /\ IsFiniteSet(T)
  <2> SUFFICES ASSUME NEW T \in SUBSET S PROVE Sums(r, k, T, G(T)) /\ IsFiniteSet(T)
    OBVIOUS
  <2>1. IsFiniteSet(T)
    BY FS_Subset
  <2> QED BY <2>1, SumsExist
<1> HIDE DEF G
<1>3. CASE S = {}
  <2>1. S \in SUBSET S /\ Sums(r, k, S, G(S))
    BY <1>2
  <2>2. G(S)[S] = 0
    BY <1>3, <2>1, SumsAt
  <2> QED BY <1>1, <1>3, <2>2
<1>4. CASE S # {}
  <2> DEFINE T == S \ {Some(S)}
  <2>1. Some(S) \in S /\ G(S)[S] = r[Some(S)].added[k] + G(S)[T]
    <3>1. S \in SUBSET S /\ Sums(r, k, S, G(S))
      BY <1>2
    <3> QED BY <1>4, <3>1, SumsAt
  <2>2. G(S)[T] = G(T)[T]
    <3>1. T \in SUBSET S
      OBVIOUS
    <3> HIDE DEF T
    <3> QED BY <1>2, <3>1, SumsAgree
  <2> QED BY <1>1, <1>4, <2>1, <2>2
<1> QED BY <1>3, <1>4

\* Another amount of one call changes the sum by the difference, if the call is
\* one of the counter's, and not at all otherwise.
LEMMA BookedChange ==
  ASSUME NEW r, NEW s, NEW k, NEW S, IsFiniteSet(S), NEW c,
         \A x \in S : r[x].added[k] \in Int /\ s[x].added[k] \in Int,
         \A x \in S \ {c} : s[x].added[k] = r[x].added[k]
  PROVE  /\ Booked(r, k, S) \in Int
         /\ Booked(s, k, S) = IF c \in S THEN Booked(r, k, S) + (s[c].added[k] - r[c].added[k]) ELSE Booked(r, k, S)
<1> DEFINE Good(T) == /\ Booked(r, k, T) \in Int
                      /\ Booked(s, k, T) = IF c \in T THEN Booked(r, k, T) + (s[c].added[k] - r[c].added[k])
                                           ELSE Booked(r, k, T)
           P == {T \in SUBSET S : ~Good(T)}
<1> SUFFICES ASSUME P # {} PROVE FALSE
  OBVIOUS
<1> HIDE DEF Good
<1>0. P \in SUBSET SUBSET S
  OBVIOUS
<1>1. PICK T \in P : \A V \in P : V \subseteq T => V = T
  <2> HIDE DEF P
  <2> QED BY <1>0, SmallestSet
<1>2. T \in SUBSET S /\ ~Good(T) /\ IsFiniteSet(T)
  BY FS_Subset
<1>3. T # {}
  <2> SUFFICES ASSUME T = {} PROVE FALSE
    OBVIOUS
  <2>1. Booked(r, k, T) = 0 /\ Booked(s, k, T) = 0
    BY <1>2, BookedOneByOne
  <2> QED BY <1>2, <2>1 DEF Good
<1> DEFINE x == Some(T)
           U == T \ {x}
<1>4. /\ x \in T /\ U \in SUBSET S /\ U # T /\ (c \in T <=> c \in U \/ c = x) /\ (c = x => c \notin U)
      /\ Booked(r, k, T) = r[x].added[k] + Booked(r, k, U)
      /\ Booked(s, k, T) = s[x].added[k] + Booked(s, k, U)
  BY <1>2, <1>3, BookedOneByOne
<1>5. Good(U)
  BY <1>1, <1>4
<1>6. /\ r[x].added[k] \in Int /\ s[x].added[k] \in Int /\ (c # x => s[x].added[k] = r[x].added[k])
      /\ c \in T => r[c].added[k] \in Int /\ s[c].added[k] \in Int
  BY <1>2, <1>4
<1> HIDE DEF x, U
<1>7. Good(T)
  BY <1>4, <1>5, <1>6 DEF Good
<1> QED BY <1>2, <1>7

\* Natural amounts have a natural sum, and nothing adds up to nothing.
LEMMA BookedNat ==
  ASSUME NEW r, NEW k, NEW S, IsFiniteSet(S), \A x \in S : r[x].added[k] \in Nat
  PROVE  Booked(r, k, S) \in Nat /\ ((\A x \in S : r[x].added[k] = 0) => Booked(r, k, S) = 0)
<1> DEFINE Good(T) == Booked(r, k, T) \in Nat /\ ((\A x \in S : r[x].added[k] = 0) => Booked(r, k, T) = 0)
           P == {T \in SUBSET S : ~Good(T)}
<1> SUFFICES ASSUME P # {} PROVE FALSE
  OBVIOUS
<1>0. P \in SUBSET SUBSET S
  OBVIOUS
<1> HIDE DEF Good
<1>1. PICK T \in P : \A V \in P : V \subseteq T => V = T
  <2> HIDE DEF P
  <2> QED BY <1>0, SmallestSet
<1>2. T \in SUBSET S /\ ~Good(T) /\ IsFiniteSet(T)
  BY FS_Subset
<1>3. T # {}
  <2> SUFFICES ASSUME T = {} PROVE FALSE
    OBVIOUS
  <2>1. Booked(r, k, T) = 0
    BY <1>2, BookedOneByOne
  <2> QED BY <1>2, <2>1 DEF Good
<1> DEFINE x == Some(T)
           U == T \ {x}
<1>4. x \in T /\ U \in SUBSET S /\ U # T /\ Booked(r, k, T) = r[x].added[k] + Booked(r, k, U)
  BY <1>2, <1>3, BookedOneByOne
<1>5. Good(U)
  BY <1>1, <1>4
<1>6. r[x].added[k] \in Nat /\ x \in S
  BY <1>2, <1>4
<1> HIDE DEF x, U
<1>7. Good(T)
  BY <1>4, <1>5, <1>6 DEF Good
<1> QED BY <1>2, <1>7

\* The calls a counter is of.
CallsOf(d) == {c \in Call : d \in DimsOf[c]}

\* The counters hold the sums.
Balanced == \A d \in Dim, k \in Counters : counter[d][k] = Booked(rec, k, CallsOf(d))
Books == counter \in [Dim -> [Counters -> Int]] /\ Balanced

\* Where every call keeps what it added, the books stay as they are.
LEMMA BooksQuiet ==
  ASSUME LedgerInv, LedgerInv', Books, UNCHANGED counter, \A c \in Call : rec'[c].added = rec[c].added
  PROVE  Books'
<1> SUFFICES ASSUME NEW d \in Dim, NEW k \in Counters PROVE Booked(rec', k, CallsOf(d)) = Booked(rec, k, CallsOf(d))
  BY DEF Books, Balanced
<1>1. CallsOf(d) \subseteq Call /\ IsFiniteSet(CallsOf(d))
  BY FS_Subset, LedgerConstants DEF CallsOf
<1>2. \A x \in CallsOf(d) : rec[x].added[k] \in Int /\ rec'[x].added[k] = rec[x].added[k]
  BY <1>1 DEF LedgerInv, LedgerTyped, Observation
<1>3. CASE CallsOf(d) = {}
  BY <1>1, <1>3, BookedOneByOne
<1>4. ASSUME NEW x \in CallsOf(d) PROVE Booked(rec', k, CallsOf(d)) = Booked(rec, k, CallsOf(d))
  BY <1>1, <1>2, BookedChange
<1> QED BY <1>3, <1>4

\* aggregateCall moves the counters by exactly what it adds to the record.
LEMMA BooksAggregate == ASSUME LedgerInv, LedgerInv', Books, NEW c \in Call, Aggregate(c) PROVE Books'
<1> DEFINE new == Contribution(rec[c])
<1>1. rec \in [Call -> Observation] /\ rec[c] \in Observation /\ new \in [Counters -> Nat] /\ rec[c].added \in [Counters -> Nat]
  BY ContributionType DEF LedgerInv, LedgerTyped, Observation
<1>2. /\ rec'[c].added = new
      /\ \A x \in Call \ {c} : rec'[x] = rec[x]
  BY <1>1 DEF Aggregate, Observation
<1>3. \A d \in Dim : counter'[d] = IF d \in DimsOf[c] THEN Plus(counter[d], Minus(new, rec[c].added)) ELSE counter[d]
  BY DEF Aggregate
<1>4. \A d \in Dim : counter[d] \in [Counters -> Int]
  BY DEF Books
<1> HIDE DEF new
<1>5. ASSUME NEW d \in Dim, NEW k \in Counters
      PROVE  counter'[d][k] = IF d \in DimsOf[c] THEN counter[d][k] + (new[k] - rec[c].added[k]) ELSE counter[d][k]
  BY <1>3 DEF Plus, Minus
<1>6. counter' \in [Dim -> [Counters -> Int]]
  <2>1. ASSUME NEW d \in Dim PROVE Plus(counter[d], Minus(new, rec[c].added)) \in [Counters -> Int]
    BY <1>1, <1>4 DEF Plus, Minus
  <2>2. counter' = [d \in Dim |-> IF d \in DimsOf[c] THEN Plus(counter[d], Minus(new, rec[c].added)) ELSE counter[d]]
    BY DEF Aggregate, new
  <2> QED BY <1>4, <2>1, <2>2
<1>7. ASSUME NEW d \in Dim, NEW k \in Counters PROVE counter'[d][k] = Booked(rec', k, CallsOf(d))
  <2>1. CallsOf(d) \subseteq Call /\ IsFiniteSet(CallsOf(d)) /\ (c \in CallsOf(d) <=> d \in DimsOf[c])
    BY FS_Subset, LedgerConstants DEF CallsOf
  <2>2. ASSUME NEW x \in CallsOf(d) PROVE rec[x].added[k] \in Int /\ rec'[x].added[k] \in Int
    BY <2>1 DEF LedgerInv, LedgerTyped, Observation
  <2>3. \A x \in CallsOf(d) \ {c} : rec'[x].added[k] = rec[x].added[k]
    BY <1>2, <2>1
  <2>4. Booked(rec', k, CallsOf(d)) =
          IF c \in CallsOf(d) THEN Booked(rec, k, CallsOf(d)) + (rec'[c].added[k] - rec[c].added[k])
          ELSE Booked(rec, k, CallsOf(d))
    BY <2>1, <2>2, <2>3, BookedChange
  <2>5. counter[d][k] = Booked(rec, k, CallsOf(d))
    BY DEF Books, Balanced
  <2> QED BY <1>2, <1>5, <2>1, <2>4, <2>5
<1> QED BY <1>6, <1>7 DEF Books, Balanced

LEMMA BooksInit == LedgerInit => Books
<1> SUFFICES ASSUME LedgerInit PROVE Books
  OBVIOUS
<1>1. counter = [d \in Dim |-> Blank] /\ \A k \in Counters : Blank[k] = 0
  BY DEF LedgerInit, Blank
<1>2. \A c \in Call : rec[c].added = Blank
  BY DEF LedgerInit, Absent
<1>3. counter \in [Dim -> [Counters -> Int]]
  BY <1>1 DEF Blank
<1>4. ASSUME NEW d \in Dim, NEW k \in Counters PROVE Booked(rec, k, CallsOf(d)) = 0
  <2>1. CallsOf(d) \subseteq Call /\ IsFiniteSet(CallsOf(d))
    BY FS_Subset, LedgerConstants DEF CallsOf
  <2>2. \A x \in CallsOf(d) : rec[x].added[k] = 0
    BY <1>1, <1>2, <2>1
  <2> QED BY <2>1, <2>2, BookedNat
<1> QED BY <1>1, <1>3, <1>4 DEF Books, Balanced

LEMMA BooksStep == LedgerInv /\ Books /\ [LedgerNext]_ledgerVars /\ LedgerInv' => Books'
<1> SUFFICES ASSUME LedgerInv, Books, [LedgerNext]_ledgerVars, LedgerInv' PROVE Books'
  OBVIOUS
<1>1. ASSUME NEW e \in Event, Persist(e), UNCHANGED counter PROVE Books'
  <2> DEFINE r == rec[e[1]]
             n == Applied(r, e)
             s == [n EXCEPT !.pending = n.added # Contribution(n)]
  <2>1. e[1] \in Call /\ rec \in [Call -> Observation] /\ r \in Observation
    BY EventPairs DEF LedgerInv, LedgerTyped
  <2>2. rec' = [rec EXCEPT ![e[1]] = s]
    BY <1>1 DEF Persist
  <2>3. n \in Observation /\ n.added = r.added
    <3>1. n \in Observation
      BY <2>1, AppliedType DEF LedgerInv, LedgerTyped
    <3>2. n.added = r.added
      BY <2>1, EventPairs DEF Applied, Released, AsDispatched, Settled, Observation
    <3> QED BY <3>1, <3>2
  <2>4. s.added = r.added
    <3> HIDE DEF n
    <3> QED BY <2>3 DEF Observation
  <2>5. \A c \in Call : rec'[c].added = rec[c].added
    <3> HIDE DEF s
    <3> QED BY <2>1, <2>2, <2>4
  <2> QED BY <1>1, <2>5, BooksQuiet
<1>2. CASE UNCHANGED <<rec, counter>>
  BY <1>2, BooksQuiet
<1>3. \/ UNCHANGED <<rec, counter>>
      \/ UNCHANGED counter /\ \E e \in Event : Persist(e)
      \/ \E c \in Call : Aggregate(c)
  BY DEF LedgerNext, HandleStep, EventStep, WorkerStep, Observe, MarkDispatched, Settle, ReleaseUnsent, Enqueue,
         Append, AppendFails, Commit, CommitUnacknowledged, WriteFails, Timeout, Cleanup,
         ReadJournal, Replay, Remove, RecoveryFails, ProcessDies, ledgerVars
<1> QED BY <1>1, <1>2, <1>3, BooksAggregate

\* CountersMatchLedger: each of engineSpendCounters is the sum of what the records
\* of its calls say was added to it, for any calls, counters and amounts, whatever
\* replays, lost acknowledgements and crashes there were.
THEOREM LedgerBalances == LedgerSafety => []CountersMatchLedger
<1>1. Books => CountersMatchLedger
  BY DEF Books, Balanced, CountersMatchLedger, Booked, CallsOf
<1> QED BY <1>1, LedgerInvInit, LedgerInvStep, BooksInit, BooksStep, PTL DEF LedgerSafety

\* Every variable stays in its domain: in particular no counter, from which
\* aggregateCall also subtracts, ever falls below zero.
THEOREM LedgerTypes == LedgerSafety => []TypeOK
<1>1. LedgerInv /\ Books => TypeOK
  <2> SUFFICES ASSUME LedgerInv, Books PROVE counter \in [Dim -> [Counters -> Nat]]
    BY DEF TypeOK, LedgerInv, LedgerTyped
  <2>1. ASSUME NEW d \in Dim, NEW k \in Counters PROVE counter[d][k] \in Nat
    <3>1. CallsOf(d) \subseteq Call /\ IsFiniteSet(CallsOf(d))
      BY FS_Subset, LedgerConstants DEF CallsOf
    <3>2. \A x \in CallsOf(d) : rec[x].added[k] \in Nat
      BY <3>1 DEF LedgerInv, LedgerTyped, Observation
    <3> QED BY <3>1, <3>2, BookedNat DEF Books, Balanced
  <2> QED BY <2>1 DEF Books
<1> QED BY <1>1, LedgerInvInit, LedgerInvStep, BooksInit, BooksStep, PTL DEF LedgerSafety
=============================================================================
