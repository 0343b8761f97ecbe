------------------------------ MODULE SharedAi ------------------------------
(***************************************************************************)
(* One shared paid operation (one key of engineSharedAiOperations) and the *)
(* processes that want its result.  The head document names the newest     *)
(* generation; a generation has one leader, which proves that somebody     *)
(* still wants the result, marks the dispatch, sends the provider request  *)
(* and publishes; every other process follows the generation's document.   *)
(*                                                                         *)
(* An action is one Firestore transaction or one local step between two    *)
(* awaits.  Only the head generation can be running, so its lease, its     *)
(* subscribers and its dispatch challenge are single variables.  Deadlines *)
(* have no clock: a lease, a membership or a result may lapse at any step. *)
(***************************************************************************)
EXTENDS Naturals

CONSTANTS
  Proc,      \* entries: (process, call mode) pairs with a subscription id
  NoProc,
  MaxGen,    \* bound: generations of the key
  Media,     \* the operation is a media operation, subject to the media stop
  Calls,     \* bound: kinds of calls, of normal, refresh and retry
  Departures \* bound: whose callers may withdraw, whose memberships may lapse

ASSUME SharedConstants == /\ MaxGen \in Nat \ {0} /\ NoProc \notin Proc
                          /\ Media \in BOOLEAN /\ Departures \subseteq Proc
                          /\ Calls \subseteq {"normal", "refresh", "retry"}

Gen == 1..MaxGen
GenOrNone == 0..MaxGen

VARIABLES
  head,         \* generation of the head document, 0 when there is none
  state, owner, \* of each generation document
  refreshed,    \* record.refresh: created by a refresh or an explicit retry
  marked,       \* record.dispatch: the provider request may have been sent
  refreshSucc, retrySucc,  \* refreshSuccessor and retrySuccessor, 0 when unset
  leaseOver,    \* the head's leaseUntil has passed (its deadline, once marked)
  subs, valid,  \* the head's live subscribers and subscriberValidations
  phase,        \* of the head's membership: open, challenged (it has a
                \* dispatchCheck), or closed when no step reads it any more
  pc, mode, at, after,  \* a process: its step, request, generation and anchor
  want,         \* it has a waiter (yes), one whose job was stopped elsewhere
                \* without the process knowing yet (lost), or none (no)
  sync,         \* its heartbeat: idle, or in flight and answering the current
                \* challenge or an earlier document (old)
  sent,         \* generations whose provider request was really sent
  gone          \* processes without a valid waiter when the challenge was issued

members  == <<subs, valid, phase, gone, sync>>
headVars == <<members, leaseOver>>
genVars  == <<head, state, owner, refreshed, marked, refreshSucc, retrySucc>>
procVars == <<pc, mode, at, after, want>>
vars == <<headVars, genVars, procVars, sent>>

-----------------------------------------------------------------------------
(* State *)

State    == {"none", "running", "complete", "failed", "uncertain"}
Terminal == {"complete", "failed", "uncertain"}
PC == {"idle", "claim", "wait", "again", "lead", "check", "marked", "go", "sent"}
Leading == {"lead", "check", "marked", "go", "sent"}

\* Every variable stays in its domain; only members hold a validation.
TypeOK ==
  /\ head \in GenOrNone
  /\ state \in [Gen -> State] /\ owner \in [Gen -> Proc \cup {NoProc}]
  /\ refreshed \in [Gen -> BOOLEAN] /\ marked \in [Gen -> BOOLEAN]
  /\ refreshSucc \in [Gen -> GenOrNone] /\ retrySucc \in [Gen -> GenOrNone]
  /\ leaseOver \in BOOLEAN
  /\ subs \subseteq Proc /\ valid \subseteq subs
  /\ phase \in {"open", "challenged", "closed"}
  /\ pc \in [Proc -> PC] /\ mode \in [Proc -> {"normal", "refresh", "retry"}]
  /\ at \in [Proc -> GenOrNone] /\ after \in [Proc -> GenOrNone]
  /\ want \in [Proc -> {"no", "yes", "lost"}]
  /\ sync \in [Proc -> {"idle", "current", "old"}]
  /\ sent \subseteq Gen /\ gone \subseteq Proc

Init ==
  /\ head = 0
  /\ state = [g \in Gen |-> "none"] /\ owner = [g \in Gen |-> NoProc]
  /\ refreshed = [g \in Gen |-> FALSE] /\ marked = [g \in Gen |-> FALSE]
  /\ refreshSucc = [g \in Gen |-> 0] /\ retrySucc = [g \in Gen |-> 0]
  /\ leaseOver = FALSE
  /\ subs = {} /\ valid = {} /\ phase = "closed"
  /\ pc = [p \in Proc |-> "idle"] /\ mode = [p \in Proc |-> "normal"]
  /\ at = [p \in Proc |-> 0] /\ after = [p \in Proc |-> 0]
  /\ want = [p \in Proc |-> "no"] /\ sync = [p \in Proc |-> "idle"]
  /\ sent = {} /\ gone = {}

Goto(p, label) == pc' = [pc EXCEPT ![p] = label]

\* subscribers(): the document's live members with p's own membership as it is
\* when the transaction runs.
Members(p) == IF want[p] = "no" THEN subs \ {p} ELSE subs \cup {p}
Subscribe(p) == IF phase = "closed" THEN UNCHANGED <<subs, valid>>
                ELSE subs' = Members(p) /\ valid' = valid \cap Members(p)

\* No step reads the membership any more; a heartbeat under way writes nothing.
Closed == /\ subs' = {} /\ valid' = {} /\ gone' = {} /\ phase' = "closed"
          /\ sync' = [p \in Proc |-> "idle"]

\* The head generation ends.
EndHead(s) ==
  /\ state' = [state EXCEPT ![head] = s]
  /\ Closed
  /\ UNCHANGED <<head, owner, refreshed, marked, refreshSucc, retrySucc, leaseOver>>

\* What an expired lease makes of a running generation: a marked dispatch may
\* have been sent, an unmarked one was not.
Expired(g) == IF marked[g] THEN "uncertain" ELSE "failed"

-----------------------------------------------------------------------------
(* A call and its claim *)

\* runSharedAiOperation creates an entry with a fresh subscription id.
Begin(p, m, token) ==
  /\ pc[p] = "idle" /\ p \notin subs
  /\ m = "retry" => token \in 1..head
  /\ m # "retry" => token = 0
  /\ Goto(p, "claim")
  /\ mode' = [mode EXCEPT ![p] = m]
  /\ after' = [after EXCEPT ![p] = token]
  /\ want' = [want EXCEPT ![p] = "yes"]
  /\ gone' = gone \ {p}
  /\ UNCHANGED <<leaseOver, subs, valid, phase, genVars, at, sync, sent>>

Leave(p) ==
  /\ pc' = [pc EXCEPT ![p] = "idle"]
  /\ mode' = [mode EXCEPT ![p] = "normal"]
  /\ at' = [at EXCEPT ![p] = 0]
  /\ after' = [after EXCEPT ![p] = 0]
  /\ want' = [want EXCEPT ![p] = "no"]

\* The successor the anchor generation already has for this kind of request.
Successor(p) == IF after[p] = 0 THEN 0
                ELSE IF mode[p] = "retry" THEN retrySucc[after[p]] ELSE refreshSucc[after[p]]

\* Fault: whatever the head is may be retried
RefusedUnlessHead(p) == mode[p] = "retry" /\ Successor(p) = 0 /\ head # after[p]

\* A retry needs a failed generation, and its successor or the head.
Refused(p) == /\ mode[p] = "retry"
              /\ \/ state[after[p]] \notin {"failed", "uncertain"}
                 \/ Successor(p) = 0 /\ head # after[p]

ClaimRefused(p) ==
  /\ pc[p] = "claim"
  /\ Refused(p)
  /\ Leave(p)
  /\ UNCHANGED <<headVars, genVars, sent>>

Follow(p, g) == Goto(p, "wait") /\ at' = [at EXCEPT ![p] = g]

\* The anchor has a successor: join that one, whatever the head is now.
JoinSuccessor(p) == LET g == Successor(p) IN
  /\ pc[p] = "claim" /\ ~Refused(p)
  /\ g # 0
  /\ Follow(p, g)
  /\ IF state[g] = "running" THEN Subscribe(p) ELSE UNCHANGED <<subs, valid>>
  /\ UNCHANGED <<genVars, leaseOver, phase, gone, mode, after, want, sync, sent>>

Running == head # 0 /\ state[head] = "running"

\* A live generation: a refresh waits for a normal one to end without asking
\* for its result, everybody else subscribes to it.
JoinRunning(p) ==
  /\ pc[p] = "claim" /\ ~Refused(p) /\ Successor(p) = 0
  /\ Running /\ ~leaseOver
  /\ IF mode[p] # "normal" /\ ~refreshed[head]
     THEN /\ Goto(p, "again")
          /\ at' = [at EXCEPT ![p] = head]
          /\ after' = [after EXCEPT ![p] = IF after[p] = 0 THEN head ELSE after[p]]
          /\ UNCHANGED <<subs, valid, refreshSucc>>
     ELSE /\ Follow(p, head)
          /\ Subscribe(p)
          /\ refreshSucc' = IF after[p] # 0 /\ refreshed[head]
                            THEN [refreshSucc EXCEPT ![after[p]] = head] ELSE refreshSucc
          /\ UNCHANGED after
  /\ UNCHANGED <<head, state, owner, refreshed, marked, retrySucc,
                 leaseOver, phase, gone, mode, want, sync, sent>>

\* Fault: a failure may be renewed whether or not it was dispatched
RenewableAnyFailure ==
  \/ head = 0
  \/ Running /\ leaseOver /\ ~marked[head]
  \/ head # 0 /\ state[head] \in {"complete", "failed"}

\* Whether a normal call may start a new generation after the head: there is
\* none, its lease ran out unsent, or it ended and is out of date by now: its
\* resultUntil passed, or the failureUntil of a failure without a dispatch.
Renewable ==
  \/ head = 0
  \/ Running /\ leaseOver /\ ~marked[head]
  \/ head # 0 /\ state[head] = "complete"
  \/ head # 0 /\ state[head] = "failed" /\ ~marked[head]

\* A terminal generation that is not out of date answers an ordinary call; an
\* expired dispatch becomes uncertain here if nobody noticed before.
JoinTerminal(p) ==
  /\ pc[p] = "claim" /\ mode[p] = "normal"
  /\ head # 0 /\ (Running => leaseOver /\ marked[head])
  /\ Follow(p, head)
  /\ IF Running THEN EndHead("uncertain") ELSE UNCHANGED <<headVars, genVars>>
  /\ UNCHANGED <<mode, after, want, sent>>

\* Fault: a refresh that did not wait leaves its predecessor without a link
LinksOfAnchor(p, g) == IF mode[p] = "refresh" /\ after[p] # 0
                       THEN [refreshSucc EXCEPT ![after[p]] = g] ELSE refreshSucc

\* A refresh links its anchor to its generation g, and the normal generation
\* it follows, so that slower waiters find it.
Links(p, g) == [k \in Gen |->
  IF mode[p] = "refresh" /\ (k = after[p] \/ (k = head /\ ~refreshed[k])) THEN g
  ELSE refreshSucc[k]]

\* The claim creates the next generation, with p as its leader.
Lead(p) == LET g == head + 1 IN
  /\ pc[p] = "claim" /\ ~Refused(p) /\ Successor(p) = 0
  /\ Running => leaseOver
  /\ mode[p] = "normal" => Renewable
  /\ head < MaxGen
  /\ head' = g
  /\ state' = [k \in Gen |-> IF k = g THEN "running"
                             ELSE IF k = head /\ Running THEN Expired(k) ELSE state[k]]
  /\ owner' = [owner EXCEPT ![g] = p]
  /\ refreshed' = [refreshed EXCEPT ![g] = mode[p] # "normal"]
  /\ retrySucc' = IF mode[p] = "retry" THEN [retrySucc EXCEPT ![after[p]] = g] ELSE retrySucc
  /\ refreshSucc' = Links(p, g)
  /\ leaseOver' = FALSE
  /\ subs' = (IF want[p] = "no" THEN {} ELSE {p}) /\ valid' = {}
  /\ phase' = "open" /\ gone' = {} /\ sync' = [q \in Proc |-> "idle"]
  /\ Goto(p, "lead") /\ at' = [at EXCEPT ![p] = g]
  /\ UNCHANGED <<marked, mode, after, want, sent>>

\* The head fence of every transaction of a leader.
Owned(p) == at[p] = head /\ owner[head] = p /\ Running

-----------------------------------------------------------------------------
(* Followers *)

FollowerDone(p) ==
  /\ pc[p] = "wait" /\ state[at[p]] \in Terminal
  /\ Leave(p)
  /\ UNCHANGED <<headVars, genVars, sent>>

\* Fault: only a dispatched generation expires
WatchExpireDispatched(p) ==
  /\ pc[p] \in {"wait", "again"} /\ at[p] = head
  /\ Running /\ leaseOver /\ marked[head]
  /\ EndHead(Expired(head))
  /\ UNCHANGED <<procVars, sent>>

\* The watcher's timer finds the lease over and ends the generation itself.
WatchExpire(p) ==
  /\ pc[p] \in {"wait", "again"} /\ at[p] = head
  /\ Running /\ leaseOver
  /\ EndHead(Expired(head))
  /\ UNCHANGED <<procVars, sent>>

\* A refresh that waited claims again, with the generation it waited for first
\* as its anchor.
ClaimAgain(p) ==
  /\ pc[p] = "again" /\ state[at[p]] \in Terminal
  /\ want[p] # "no"
  /\ Goto(p, "claim")
  /\ at' = [at EXCEPT ![p] = 0]
  /\ UNCHANGED <<headVars, genVars, mode, after, want, sent>>

\* The call times out, a transaction fails, or the process dies.  Whatever it
\* wrote stays: its membership until it lapses, its generation until the lease
\* does.  Without its leader nobody will dispatch the generation.
Vanish(p) ==
  /\ pc[p] # "idle"
  /\ Leave(p)
  /\ IF pc[p] \in Leading /\ Owned(p) THEN Closed
     ELSE sync' = [sync EXCEPT ![p] = "idle"] /\ UNCHANGED <<subs, valid, phase, gone>>
  /\ UNCHANGED <<leaseOver, genVars, sent>>

-----------------------------------------------------------------------------
(* Membership: heartbeats, cancellations, lost authority *)

\* syncSubscription reads the document, and with it the challenge to answer,
\* then validates its waiters (callerActive); a waiter found invalid only later
\* is a Withdraw...
Validated(p) == [want EXCEPT ![p] = IF want[p] = "yes" THEN "yes" ELSE "no"]

SyncRead(p) ==
  /\ pc[p] \in Leading \cup {"wait"} /\ at[p] = head /\ phase # "closed"
  /\ sync[p] = "idle" /\ (p \in Departures \/ (phase = "challenged" /\ p \notin valid))
  /\ sync' = [sync EXCEPT ![p] = IF phase = "challenged" THEN "current" ELSE "old"]
  /\ want' = Validated(p)
  /\ UNCHANGED <<subs, valid, phase, gone, leaseOver, genVars, pc, mode, at, after, sent>>

\* Fault: any heartbeat under way answers the challenge
SyncWriteAny(p) ==
  /\ sync[p] # "idle"
  /\ sync' = [sync EXCEPT ![p] = "idle"]
  /\ subs' = Members(p)
  /\ valid' = IF want[p] # "no" /\ phase = "challenged" THEN valid \cup {p} ELSE valid \ {p}
  /\ UNCHANGED <<leaseOver, phase, gone, genVars, pc, mode, at, after, want, sent>>

\* ...and writes its membership as it is by then.  Only an answer to the
\* current challenge validates it.
SyncWrite(p) ==
  /\ sync[p] # "idle"
  /\ sync' = [sync EXCEPT ![p] = "idle"]
  /\ subs' = Members(p)
  /\ valid' = IF want[p] # "no" /\ sync[p] = "current" THEN valid \cup {p} ELSE valid \ {p}
  /\ UNCHANGED <<leaseOver, phase, gone, genVars, pc, mode, at, after, want, sent>>

\* A membership that nobody renews in time lapses, or only its validation.
Lapse(p) ==
  /\ p \in Departures \cap subs
  /\ subs' \in {subs, subs \ {p}}
  /\ valid' = valid \ {p}
  /\ <<subs, valid>>' # <<subs, valid>>
  /\ UNCHANGED <<leaseOver, phase, gone, sync, genVars, procVars, sent>>

\* Some step still depends on whether p has a waiter.
Asked(p) == p \in Departures /\ (pc[p] \in {"claim", "again"} \/ (at[p] = head /\ phase # "closed"))

\* Every waiter is aborted or past its own deadline: known at once.
Withdraw(p) ==
  /\ want[p] # "no" /\ Asked(p)
  /\ want' = [want EXCEPT ![p] = "no"]
  /\ UNCHANGED <<headVars, genVars, pc, mode, at, after, sent>>

\* The waiter's job is stopped elsewhere: known at the next callerActive.
Revoke(p) ==
  /\ want[p] = "yes" /\ Asked(p)
  /\ want' = [want EXCEPT ![p] = "lost"]
  /\ UNCHANGED <<headVars, genVars, pc, mode, at, after, sent>>

\* A new caller joins the entry.  A heartbeat under way has not validated it.
Rejoin(p) ==
  /\ want[p] # "yes" /\ Asked(p)
  /\ want' = [want EXCEPT ![p] = "yes"]
  /\ sync' = [sync EXCEPT ![p] = IF sync[p] = "idle" THEN "idle" ELSE "old"]
  /\ gone' = gone \ {p}
  /\ UNCHANGED <<leaseOver, subs, valid, phase, genVars, pc, mode, at, after, sent>>

-----------------------------------------------------------------------------
(* The leader: challenge, dispatch marker, send, publication *)

\* A new challenge: heartbeats under way answer an earlier document.
BeginDispatchCheck(p) ==
  /\ pc[p] = "lead"
  /\ Owned(p) /\ ~marked[head] /\ ~leaseOver
  /\ phase' = "challenged" /\ valid' = {}
  /\ gone' = {q \in Proc : want[q] # "yes"}
  /\ UNCHANGED sync
  /\ Goto(p, "check")
  /\ UNCHANGED <<leaseOver, subs, genVars, mode, at, after, want, sent>>

\* The marker commits once some member answered the challenge; until then the
\* leader polls.  The lease now lasts to the deadline.  The operator's media
\* stop may come and go between any two reads: it is a reason to fail here.
AuthorizeDispatch(p) ==
  /\ pc[p] = "check"
  /\ Owned(p) /\ ~marked[head] /\ ~leaseOver
  /\ valid \cap Members(p) # {}
  /\ subs' = Members(p) /\ valid' = valid \cap Members(p)
  /\ marked' = [marked EXCEPT ![head] = TRUE]
  /\ Goto(p, "marked")
  /\ UNCHANGED <<leaseOver, phase, gone, head, state, owner, refreshed,
                 refreshSucc, retrySucc, mode, at, after, want, sync, sent>>

\* Before sending, its own clock still before the deadline, the leader validates
\* its waiters again; without any (and always for a media operation) it reads
\* the demand of the others, fenced.
ConfirmDemand(p) ==
  /\ pc[p] = "marked" /\ at[p] = head /\ ~leaseOver
  /\ want' = Validated(p)
  /\ want[p] # "yes" \/ Media => Owned(p) /\ (want[p] = "yes" \/ valid \ {p} # {})
  /\ Closed
  /\ Goto(p, "go")
  /\ UNCHANGED <<leaseOver, genVars, mode, at, after, sent>>

\* The provider request leaves the process, its own clock still before the
\* deadline.  The last media stop read is best effort: it may fail.
Send(p) ==
  /\ pc[p] = "go"
  /\ at[p] = head /\ Running /\ ~leaseOver
  /\ sent' = sent \cup {head}
  /\ Goto(p, "sent")
  /\ UNCHANGED <<headVars, genVars, mode, at, after, want>>

\* Fault: a publication looks at its owner alone
PublishResultByOwner(p) ==
  /\ pc[p] = "sent"
  /\ at[p] = head /\ owner[head] = p
  /\ EndHead("complete")
  /\ Leave(p)
  /\ UNCHANGED sent

\* publish: past the lease it records the expiry instead of the result.
PublishResult(p) ==
  /\ pc[p] = "sent"
  /\ Owned(p)
  /\ EndHead(IF leaseOver THEN Expired(head) ELSE "complete")
  /\ Leave(p)
  /\ UNCHANGED sent

\* Any failure of the work, the fences included.
PublishFailure(p) ==
  /\ pc[p] \in Leading
  /\ Owned(p)
  /\ EndHead(IF leaseOver THEN Expired(head) ELSE "failed")
  /\ Leave(p)
  /\ UNCHANGED sent

-----------------------------------------------------------------------------
(* Time *)

LeaseLapses ==
  /\ Running /\ ~leaseOver
  /\ leaseOver' = TRUE
  /\ UNCHANGED <<members, genVars, procVars, sent>>

ProcStep(p) ==
  \/ \E m \in Calls, token \in GenOrNone : Begin(p, m, token)
  \/ ClaimRefused(p) \/ JoinSuccessor(p) \/ JoinRunning(p) \/ JoinTerminal(p) \/ Lead(p)
  \/ FollowerDone(p) \/ WatchExpire(p) \/ ClaimAgain(p) \/ Vanish(p)
  \/ SyncRead(p) \/ SyncWrite(p)
  \/ Lapse(p) \/ Withdraw(p) \/ Revoke(p) \/ Rejoin(p)
  \/ BeginDispatchCheck(p) \/ AuthorizeDispatch(p) \/ ConfirmDemand(p) \/ Send(p)
  \/ PublishResult(p) \/ PublishFailure(p)

Next == (\E p \in Proc : ProcStep(p)) \/ LeaseLapses

Safety == Init /\ [][Next]_vars

\* Clocks advance and a process that waits runs its watcher; leaders may stop.
Fairness == /\ WF_vars(LeaseLapses)
            /\ \A p \in Proc : WF_vars(WatchExpire(p)) /\ WF_vars(FollowerDone(p))

Spec == Safety /\ Fairness

-----------------------------------------------------------------------------
(* Properties *)

\* A request that was really sent and did not complete is never sent again by
\* an ordinary call: its successor was asked for, by a refresh or a retry.
NoSilentRespend ==
  \A g \in Gen : g < head /\ g \in sent /\ state[g] # "complete" => refreshed[g + 1]

\* All refreshes that waited behind one generation, and all holders of one
\* retry token, share one successor; a normal generation is linked to the
\* refresh or the retry that follows it, so that slow waiters find it.
OneSuccessor ==
  /\ \A p \in Proc : pc[p] \in Leading \cup {"wait"} /\ after[p] # 0
       => at[p] = (IF mode[p] = "retry" THEN retrySucc ELSE refreshSucc)[after[p]]
  /\ \A g \in Gen : g < head /\ ~refreshed[g] /\ refreshed[g + 1]
                    => g + 1 \in {refreshSucc[g], retrySucc[g]}

\* A retry token grants one new generation, directly after the failed one it
\* names: a stale token spends nothing.
StaleTokenSpendsNothing ==
  \A g \in Gen : retrySucc[g] # 0 => retrySucc[g] = g + 1 /\ state[g] \in {"failed", "uncertain"}

\* No caller that had lost its job before the challenge counts as demand, not
\* even through a heartbeat that was under way.
NoStaleAuthority == valid \cap gone = {}

\* What a follower can have read of a generation never changes: not its end,
\* not its links, not whether it was dispatched.
OutcomeFinal ==
  [][\A g \in Gen : /\ state[g] \in Terminal => state'[g] = state[g] /\ marked'[g] = marked[g]
                    /\ refreshSucc[g] # 0 => refreshSucc'[g] = refreshSucc[g]
                    /\ retrySucc[g] # 0 => retrySucc'[g] = retrySucc[g]]_vars

\* A follower is answered although its leader dies.
FollowersAnswered == \A p \in Proc : pc[p] = "wait" ~> pc[p] # "wait"
=============================================================================
