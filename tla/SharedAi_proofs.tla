-------------------------- MODULE SharedAi_proofs --------------------------
(***************************************************************************)
(* Proofs about SharedAi, for any number of processes and generations.     *)
(***************************************************************************)
EXTENDS SharedAi, TLAPS

-----------------------------------------------------------------------------
(* Types *)

LEMMA Gens == /\ Gen = GenOrNone \ {0} /\ 0 \in GenOrNone
              /\ GenOrNone \subseteq Nat
              /\ \A g \in GenOrNone : g < MaxGen => g + 1 \in Gen
  BY SharedConstants DEF Gen, GenOrNone

LEMMA TypedInit == Init => TypeOK
<1> SUFFICES ASSUME Init PROVE TypeOK
  OBVIOUS
<1> USE Gens DEF Init
<1>1. head \in GenOrNone /\ leaseOver \in BOOLEAN
  OBVIOUS
<1>2. /\ state \in [Gen -> State] /\ owner \in [Gen -> Proc \cup {NoProc}]
      /\ refreshed \in [Gen -> BOOLEAN] /\ marked \in [Gen -> BOOLEAN]
      /\ refreshSucc \in [Gen -> GenOrNone] /\ retrySucc \in [Gen -> GenOrNone]
  BY DEF State
<1>3. /\ pc \in [Proc -> PC] /\ mode \in [Proc -> {"normal", "refresh", "retry"}]
      /\ at \in [Proc -> GenOrNone] /\ after \in [Proc -> GenOrNone]
      /\ want \in [Proc -> {"no", "yes", "lost"}]
      /\ sync \in [Proc -> {"idle", "current", "old"}]
  BY DEF PC
<1>4. /\ subs \subseteq Proc /\ valid \subseteq subs /\ sent \subseteq Gen
      /\ gone \subseteq Proc /\ phase \in {"open", "challenged", "closed"}
  OBVIOUS
<1> QED BY <1>1, <1>2, <1>3, <1>4 DEF TypeOK

\* Every step keeps the types; above all, only a subscriber is ever validated.
LEMMA TypedStep == TypeOK /\ [Next]_vars => TypeOK'
<1> SUFFICES ASSUME TypeOK, [Next]_vars PROVE TypeOK'
  OBVIOUS
<1> USE Gens, SharedConstants DEF TypeOK, State, PC, Terminal
<1>1. ASSUME NEW p \in Proc, ProcStep(p) PROVE TypeOK'
  <2>1. CASE \E m \in Calls, token \in GenOrNone : Begin(p, m, token)
    BY <1>1, <2>1 DEF Begin, Goto, members, headVars, genVars, procVars
  <2>2. CASE ClaimRefused(p)
    BY <1>1, <2>2 DEF ClaimRefused, Leave, members, headVars, genVars, procVars
  <2>3. CASE JoinSuccessor(p)
    <3>1. Successor(p) \in GenOrNone
      BY <1>1 DEF Successor
    <3> QED BY <1>1, <2>3, <3>1 DEF JoinSuccessor, Follow, Goto, Subscribe, Members, members, headVars, genVars, procVars
  <2>4. CASE JoinRunning(p)
    BY <1>1, <2>4 DEF JoinRunning, Refused, Successor, Running, Follow, Goto, Subscribe, Members, members, headVars, genVars, procVars
  <2>5. CASE JoinTerminal(p)
    BY <1>1, <2>5 DEF JoinTerminal, Running, Follow, Goto, EndHead, Closed, members, headVars, genVars, procVars
  <2>6. CASE Lead(p)
    BY <1>1, <2>6 DEF Lead, Refused, Successor, Renewable, Running, Expired, Links, Goto, members, headVars, genVars, procVars
  <2>7. CASE FollowerDone(p)
    BY <1>1, <2>7 DEF FollowerDone, Leave, members, headVars, genVars, procVars
  <2>8. CASE WatchExpire(p)
    BY <1>1, <2>8 DEF WatchExpire, Running, EndHead, Expired, Closed, members, headVars, genVars, procVars
  <2>9. CASE ClaimAgain(p)
    BY <1>1, <2>9 DEF ClaimAgain, Goto, members, headVars, genVars, procVars
  <2>10. CASE Vanish(p)
    BY <1>1, <2>10 DEF Vanish, Leave, Closed, Owned, Running, members, headVars, genVars, procVars
  <2>11. CASE SyncRead(p)
    BY <1>1, <2>11 DEF SyncRead, Validated, members, headVars, genVars, procVars
  <2>12. CASE SyncWrite(p)
    BY <1>1, <2>12 DEF SyncWrite, Members, members, headVars, genVars, procVars
  <2>13. CASE Lapse(p)
    BY <1>1, <2>13 DEF Lapse, members, headVars, genVars, procVars
  <2>14. CASE Withdraw(p)
    BY <1>1, <2>14 DEF Withdraw, Asked, members, headVars, genVars, procVars
  <2>15. CASE Revoke(p)
    BY <1>1, <2>15 DEF Revoke, Asked, members, headVars, genVars, procVars
  <2>16. CASE Rejoin(p)
    BY <1>1, <2>16 DEF Rejoin, Asked, members, headVars, genVars, procVars
  <2>17. CASE BeginDispatchCheck(p)
    BY <1>1, <2>17 DEF BeginDispatchCheck, Owned, Running, Goto, members, headVars, genVars, procVars
  <2>18. CASE AuthorizeDispatch(p)
    BY <1>1, <2>18 DEF AuthorizeDispatch, Owned, Running, Members, Goto, members, headVars, genVars, procVars
  <2>19. CASE ConfirmDemand(p)
    BY <1>1, <2>19 DEF ConfirmDemand, Validated, Owned, Running, Closed, Goto, members, headVars, genVars, procVars
  <2>20. CASE Send(p)
    BY <1>1, <2>20 DEF Send, Running, Goto, members, headVars, genVars, procVars
  <2>21. CASE PublishResult(p)
    BY <1>1, <2>21 DEF PublishResult, Owned, Running, EndHead, Expired, Closed, Leave, members, headVars, genVars, procVars
  <2>22. CASE PublishFailure(p)
    BY <1>1, <2>22 DEF PublishFailure, Owned, Running, EndHead, Expired, Closed, Leave, members, headVars, genVars, procVars
  <2> QED BY <1>1, <2>1, <2>2, <2>3, <2>4, <2>5, <2>6, <2>7, <2>8, <2>9, <2>10, <2>11, <2>12, <2>13, <2>14, <2>15, <2>16, <2>17, <2>18, <2>19, <2>20, <2>21, <2>22 DEF ProcStep
<1>2. CASE LeaseLapses
  BY <1>2 DEF LeaseLapses, members, headVars, genVars, procVars
<1>3. CASE UNCHANGED vars
  BY <1>3 DEF vars, members, headVars, genVars, procVars
<1> QED BY <1>1, <1>2, <1>3 DEF Next

\* TypeOK is an invariant.
THEOREM SharedTypeCorrect == Safety => []TypeOK
  BY TypedInit, TypedStep, PTL DEF Safety
-----------------------------------------------------------------------------
(* Generations: what no step ever changes *)

\* Every generation below the head has ended, none above it exists, and no
\* process is ahead of the head.
Placed == /\ \A g \in Gen : state[g] = "none" <=> g > head
          /\ \A g \in Gen : g < head => state[g] \in Terminal
          /\ \A p \in Proc : after[p] <= head /\ at[p] <= head

\* Only a refresh or a retry has an anchor, and a refresh waits for a normal
\* generation.
Anchored == \A p \in Proc :
  /\ mode[p] = "normal" => after[p] = 0
  /\ mode[p] = "retry" => after[p] # 0
  /\ mode[p] = "refresh" /\ after[p] # 0 => ~refreshed[after[p]]

\* Links point forward to generations that exist.
Linked == /\ \A g \in Gen : refreshSucc[g] # 0 => g < refreshSucc[g] /\ refreshSucc[g] <= head
          /\ \A g \in Gen : retrySucc[g] <= head

\* A process at a generation knows which; who sent its request, or is about to,
\* marked it before.
Marking == /\ \A p \in Proc : pc[p] \in Leading \cup {"wait"} => at[p] # 0
           /\ \A p \in Proc : pc[p] \in {"marked", "go", "sent"} => marked[at[p]]
           /\ \A g \in sent : marked[g] /\ g <= head

Chain == TypeOK /\ Placed /\ Anchored /\ Linked /\ Marking /\ StaleTokenSpendsNothing

LEMMA ChainInit == Init => Chain
  BY TypedInit, Gens DEF Init, Chain, Placed, Anchored, Linked, Marking, StaleTokenSpendsNothing, Leading

\* Only the head ends, and only its end makes room for the next generation.
LEMMA PlacedStep == Chain /\ [Next]_vars => Placed'
<1> SUFFICES ASSUME Chain, [Next]_vars PROVE Placed'
  OBVIOUS
<1> USE Gens, SharedConstants DEF Chain, TypeOK, Placed, Anchored, Linked, State, Terminal
<1>1. ASSUME NEW p \in Proc, ProcStep(p) PROVE Placed'
  <2>1. CASE \E m \in Calls, token \in GenOrNone : Begin(p, m, token)
    BY <1>1, <2>1 DEF Begin, Goto, members, headVars, genVars, procVars
  <2>2. CASE ClaimRefused(p)
    BY <1>1, <2>2 DEF ClaimRefused, Leave, members, headVars, genVars, procVars
  <2>3. CASE JoinSuccessor(p)
    <3>1. Successor(p) \in GenOrNone /\ Successor(p) <= head
      BY <2>3 DEF JoinSuccessor, Successor
    <3> QED BY <2>3, <3>1 DEF JoinSuccessor, Refused, Successor, Follow, Goto, Subscribe, Members, members, headVars, genVars, procVars
  <2>4. CASE JoinRunning(p)
    BY <1>1, <2>4 DEF JoinRunning, Refused, Successor, Running, Follow, Goto, Subscribe, Members, members, headVars, genVars, procVars
  <2>5. CASE JoinTerminal(p)
    BY <1>1, <2>5 DEF JoinTerminal, Running, Follow, Goto, EndHead, Closed, members, headVars, genVars, procVars
  <2>6. CASE Lead(p)
    <3>1. head + 1 \in Gen /\ head' = head + 1 /\ head \in Nat
      BY <2>6 DEF Lead
    <3>2. \A k \in Gen : state'[k] = IF k = head + 1 THEN "running"
                         ELSE IF k = head /\ Running THEN Expired(k) ELSE state[k]
      BY <2>6 DEF Lead
    <3>3. \A k \in Gen : k <= head => state'[k] \in Terminal
      BY <3>1, <3>2 DEF Running, Expired
    <3>4. \A k \in Gen : k <= head \/ k = head + 1 \/ k > head + 1
      BY <3>1
    <3>5. \A k \in Gen : k > head + 1 => state'[k] = "none"
      BY <3>1, <3>2
    <3>6. after' = after /\ at' = [at EXCEPT ![p] = head + 1]
      BY <2>6 DEF Lead
    <3>7. \A q \in Proc : /\ after[q] \in Nat /\ after[q] <= head
                         /\ at[q] \in Nat /\ at[q] <= head
      OBVIOUS
    <3>8. \A q \in Proc : after'[q] <= head' /\ at'[q] <= head'
      BY <3>1, <3>6, <3>7
    <3>9. \A k \in Gen : k \in Nat /\ (k < head' => state'[k] \in Terminal)
      BY <3>1, <3>3
    <3>10. \A k \in Gen : state'[k] = "none" <=> k > head'
      BY <3>1, <3>2, <3>3, <3>4, <3>5
    <3> QED BY <3>8, <3>9, <3>10
  <2>7. CASE FollowerDone(p)
    BY <1>1, <2>7 DEF FollowerDone, Leave, members, headVars, genVars, procVars
  <2>8. CASE WatchExpire(p)
    BY <1>1, <2>8 DEF WatchExpire, Running, EndHead, Expired, Closed, members, headVars, genVars, procVars
  <2>9. CASE ClaimAgain(p)
    BY <1>1, <2>9 DEF ClaimAgain, Goto, members, headVars, genVars, procVars
  <2>10. CASE Vanish(p)
    BY <1>1, <2>10 DEF Vanish, Leave, Closed, Owned, Running, members, headVars, genVars, procVars
  <2>11. CASE SyncRead(p)
    BY <1>1, <2>11 DEF SyncRead, Validated, members, headVars, genVars, procVars
  <2>12. CASE SyncWrite(p)
    BY <1>1, <2>12 DEF SyncWrite, Members, members, headVars, genVars, procVars
  <2>13. CASE Lapse(p)
    BY <1>1, <2>13 DEF Lapse, members, headVars, genVars, procVars
  <2>14. CASE Withdraw(p)
    BY <1>1, <2>14 DEF Withdraw, Asked, members, headVars, genVars, procVars
  <2>15. CASE Revoke(p)
    BY <1>1, <2>15 DEF Revoke, Asked, members, headVars, genVars, procVars
  <2>16. CASE Rejoin(p)
    BY <1>1, <2>16 DEF Rejoin, Asked, members, headVars, genVars, procVars
  <2>17. CASE BeginDispatchCheck(p)
    BY <1>1, <2>17 DEF BeginDispatchCheck, Owned, Running, Goto, members, headVars, genVars, procVars
  <2>18. CASE AuthorizeDispatch(p)
    BY <1>1, <2>18 DEF AuthorizeDispatch, Owned, Running, Members, Goto, members, headVars, genVars, procVars
  <2>19. CASE ConfirmDemand(p)
    BY <1>1, <2>19 DEF ConfirmDemand, Validated, Owned, Running, Closed, Goto, members, headVars, genVars, procVars
  <2>20. CASE Send(p)
    BY <1>1, <2>20 DEF Send, Running, Goto, members, headVars, genVars, procVars
  <2>21. CASE PublishResult(p)
    BY <1>1, <2>21 DEF PublishResult, Owned, Running, EndHead, Expired, Closed, Leave, members, headVars, genVars, procVars
  <2>22. CASE PublishFailure(p)
    BY <1>1, <2>22 DEF PublishFailure, Owned, Running, EndHead, Expired, Closed, Leave, members, headVars, genVars, procVars
  <2> QED BY <1>1, <2>1, <2>2, <2>3, <2>4, <2>5, <2>6, <2>7, <2>8, <2>9, <2>10, <2>11, <2>12, <2>13, <2>14, <2>15, <2>16, <2>17, <2>18, <2>19, <2>20, <2>21, <2>22 DEF ProcStep
<1>2. CASE LeaseLapses
  BY <1>2 DEF LeaseLapses, members, headVars, genVars, procVars
<1>3. CASE UNCHANGED vars
  BY <1>3 DEF vars, members, headVars, genVars, procVars
<1> QED BY <1>1, <1>2, <1>3 DEF Next

\* An anchor is a normal generation, as it was when the refresh met it.
LEMMA AnchoredStep == Chain /\ [Next]_vars => Anchored'
<1> SUFFICES ASSUME Chain, [Next]_vars PROVE Anchored'
  OBVIOUS
<1> USE Gens, SharedConstants DEF Chain, TypeOK, Placed, Anchored
<1>1. ASSUME NEW p \in Proc, ProcStep(p) PROVE Anchored'
  <2>1. CASE \E m \in Calls, token \in GenOrNone : Begin(p, m, token)
    BY <1>1, <2>1 DEF Begin, Goto, members, headVars, genVars, procVars
  <2>2. CASE ClaimRefused(p)
    BY <1>1, <2>2 DEF ClaimRefused, Leave, members, headVars, genVars, procVars
  <2>3. CASE JoinSuccessor(p)
    BY <1>1, <2>3 DEF JoinSuccessor, Refused, Successor, Follow, Goto, Subscribe, Members, members, headVars, genVars, procVars
  <2>4. CASE JoinRunning(p)
    BY <1>1, <2>4 DEF JoinRunning, Refused, Successor, Running, Follow, Goto, Subscribe, Members, members, headVars, genVars, procVars
  <2>5. CASE JoinTerminal(p)
    BY <1>1, <2>5 DEF JoinTerminal, Running, Follow, Goto, EndHead, Closed, members, headVars, genVars, procVars
  <2>6. CASE Lead(p)
    BY <1>1, <2>6 DEF Lead, Refused, Successor, Renewable, Running, Expired, Links, Goto, members, headVars, genVars, procVars
  <2>7. CASE FollowerDone(p)
    BY <1>1, <2>7 DEF FollowerDone, Leave, members, headVars, genVars, procVars
  <2>8. CASE WatchExpire(p)
    BY <1>1, <2>8 DEF WatchExpire, Running, EndHead, Expired, Closed, members, headVars, genVars, procVars
  <2>9. CASE ClaimAgain(p)
    BY <1>1, <2>9 DEF ClaimAgain, Goto, members, headVars, genVars, procVars
  <2>10. CASE Vanish(p)
    BY <1>1, <2>10 DEF Vanish, Leave, Closed, Owned, Running, members, headVars, genVars, procVars
  <2>11. CASE SyncRead(p)
    BY <1>1, <2>11 DEF SyncRead, Validated, members, headVars, genVars, procVars
  <2>12. CASE SyncWrite(p)
    BY <1>1, <2>12 DEF SyncWrite, Members, members, headVars, genVars, procVars
  <2>13. CASE Lapse(p)
    BY <1>1, <2>13 DEF Lapse, members, headVars, genVars, procVars
  <2>14. CASE Withdraw(p)
    BY <1>1, <2>14 DEF Withdraw, Asked, members, headVars, genVars, procVars
  <2>15. CASE Revoke(p)
    BY <1>1, <2>15 DEF Revoke, Asked, members, headVars, genVars, procVars
  <2>16. CASE Rejoin(p)
    BY <1>1, <2>16 DEF Rejoin, Asked, members, headVars, genVars, procVars
  <2>17. CASE BeginDispatchCheck(p)
    BY <1>1, <2>17 DEF BeginDispatchCheck, Owned, Running, Goto, members, headVars, genVars, procVars
  <2>18. CASE AuthorizeDispatch(p)
    BY <1>1, <2>18 DEF AuthorizeDispatch, Owned, Running, Members, Goto, members, headVars, genVars, procVars
  <2>19. CASE ConfirmDemand(p)
    BY <1>1, <2>19 DEF ConfirmDemand, Validated, Owned, Running, Closed, Goto, members, headVars, genVars, procVars
  <2>20. CASE Send(p)
    BY <1>1, <2>20 DEF Send, Running, Goto, members, headVars, genVars, procVars
  <2>21. CASE PublishResult(p)
    BY <1>1, <2>21 DEF PublishResult, Owned, Running, EndHead, Expired, Closed, Leave, members, headVars, genVars, procVars
  <2>22. CASE PublishFailure(p)
    BY <1>1, <2>22 DEF PublishFailure, Owned, Running, EndHead, Expired, Closed, Leave, members, headVars, genVars, procVars
  <2> QED BY <1>1, <2>1, <2>2, <2>3, <2>4, <2>5, <2>6, <2>7, <2>8, <2>9, <2>10, <2>11, <2>12, <2>13, <2>14, <2>15, <2>16, <2>17, <2>18, <2>19, <2>20, <2>21, <2>22 DEF ProcStep
<1>2. CASE LeaseLapses
  BY <1>2 DEF LeaseLapses, members, headVars, genVars, procVars
<1>3. CASE UNCHANGED vars
  BY <1>3 DEF vars, members, headVars, genVars, procVars
<1> QED BY <1>1, <1>2, <1>3 DEF Next

\* A link is set by the process whose generation it names, or that joins it.
LEMMA LinkedStep == Chain /\ [Next]_vars => Linked'
<1> SUFFICES ASSUME Chain, [Next]_vars PROVE Linked'
  OBVIOUS
<1> USE Gens, SharedConstants DEF Chain, TypeOK, Placed, Anchored, Linked
<1>1. ASSUME NEW p \in Proc, ProcStep(p) PROVE Linked'
  <2>1. CASE \E m \in Calls, token \in GenOrNone : Begin(p, m, token)
    BY <1>1, <2>1 DEF Begin, Goto, members, headVars, genVars, procVars
  <2>2. CASE ClaimRefused(p)
    BY <1>1, <2>2 DEF ClaimRefused, Leave, members, headVars, genVars, procVars
  <2>3. CASE JoinSuccessor(p)
    BY <1>1, <2>3 DEF JoinSuccessor, Refused, Successor, Follow, Goto, Subscribe, Members, members, headVars, genVars, procVars
  <2>4. CASE JoinRunning(p)
    BY <1>1, <2>4 DEF JoinRunning, Refused, Successor, Running, Follow, Goto, Subscribe, Members, members, headVars, genVars, procVars
  <2>5. CASE JoinTerminal(p)
    BY <1>1, <2>5 DEF JoinTerminal, Running, Follow, Goto, EndHead, Closed, members, headVars, genVars, procVars
  <2>6. CASE Lead(p)
    <3>1. head + 1 \in Gen /\ head' = head + 1 /\ head \in Nat
      BY <2>6 DEF Lead
    <3>2. \A k \in Gen : refreshSucc'[k] = refreshSucc[k] \/ (k <= head /\ refreshSucc'[k] = head + 1)
      BY <2>6 DEF Lead, Links
    <3>3. \A k \in Gen : retrySucc'[k] = retrySucc[k] \/ retrySucc'[k] = head + 1
      BY <2>6 DEF Lead
    <3>4. \A k \in Gen : /\ k \in Nat /\ refreshSucc[k] \in Nat /\ retrySucc[k] \in Nat
                         /\ refreshSucc[k] # 0 => k < refreshSucc[k] /\ refreshSucc[k] <= head
                         /\ retrySucc[k] <= head
      OBVIOUS
    <3>5. ASSUME NEW k \in Gen
          PROVE /\ retrySucc'[k] <= head'
                /\ refreshSucc'[k] # 0 => k < refreshSucc'[k] /\ refreshSucc'[k] <= head'
      <4> HIDE Gens, SharedConstants DEF Chain, TypeOK, Placed, Anchored, Linked
      <4>1. retrySucc'[k] <= head'
        <5>1. CASE retrySucc'[k] = retrySucc[k]
          BY <3>1, <3>4, <5>1
        <5>2. CASE retrySucc'[k] = head + 1
          BY <3>1, <5>2
        <5> QED BY <3>3, <5>1, <5>2
      <4>2. CASE refreshSucc'[k] = refreshSucc[k]
        BY <3>1, <3>4, <4>1, <4>2
      <4>3. CASE k <= head /\ refreshSucc'[k] = head + 1
        BY <3>1, <3>4, <4>1, <4>3
      <4> QED BY <3>2, <4>2, <4>3
    <3> QED BY <3>5
  <2>7. CASE FollowerDone(p)
    BY <1>1, <2>7 DEF FollowerDone, Leave, members, headVars, genVars, procVars
  <2>8. CASE WatchExpire(p)
    BY <1>1, <2>8 DEF WatchExpire, Running, EndHead, Expired, Closed, members, headVars, genVars, procVars
  <2>9. CASE ClaimAgain(p)
    BY <1>1, <2>9 DEF ClaimAgain, Goto, members, headVars, genVars, procVars
  <2>10. CASE Vanish(p)
    BY <1>1, <2>10 DEF Vanish, Leave, Closed, Owned, Running, members, headVars, genVars, procVars
  <2>11. CASE SyncRead(p)
    BY <1>1, <2>11 DEF SyncRead, Validated, members, headVars, genVars, procVars
  <2>12. CASE SyncWrite(p)
    BY <1>1, <2>12 DEF SyncWrite, Members, members, headVars, genVars, procVars
  <2>13. CASE Lapse(p)
    BY <1>1, <2>13 DEF Lapse, members, headVars, genVars, procVars
  <2>14. CASE Withdraw(p)
    BY <1>1, <2>14 DEF Withdraw, Asked, members, headVars, genVars, procVars
  <2>15. CASE Revoke(p)
    BY <1>1, <2>15 DEF Revoke, Asked, members, headVars, genVars, procVars
  <2>16. CASE Rejoin(p)
    BY <1>1, <2>16 DEF Rejoin, Asked, members, headVars, genVars, procVars
  <2>17. CASE BeginDispatchCheck(p)
    BY <1>1, <2>17 DEF BeginDispatchCheck, Owned, Running, Goto, members, headVars, genVars, procVars
  <2>18. CASE AuthorizeDispatch(p)
    BY <1>1, <2>18 DEF AuthorizeDispatch, Owned, Running, Members, Goto, members, headVars, genVars, procVars
  <2>19. CASE ConfirmDemand(p)
    BY <1>1, <2>19 DEF ConfirmDemand, Validated, Owned, Running, Closed, Goto, members, headVars, genVars, procVars
  <2>20. CASE Send(p)
    BY <1>1, <2>20 DEF Send, Running, Goto, members, headVars, genVars, procVars
  <2>21. CASE PublishResult(p)
    BY <1>1, <2>21 DEF PublishResult, Owned, Running, EndHead, Expired, Closed, Leave, members, headVars, genVars, procVars
  <2>22. CASE PublishFailure(p)
    BY <1>1, <2>22 DEF PublishFailure, Owned, Running, EndHead, Expired, Closed, Leave, members, headVars, genVars, procVars
  <2> QED BY <1>1, <2>1, <2>2, <2>3, <2>4, <2>5, <2>6, <2>7, <2>8, <2>9, <2>10, <2>11, <2>12, <2>13, <2>14, <2>15, <2>16, <2>17, <2>18, <2>19, <2>20, <2>21, <2>22 DEF ProcStep
<1>2. CASE LeaseLapses
  BY <1>2 DEF LeaseLapses, members, headVars, genVars, procVars
<1>3. CASE UNCHANGED vars
  BY <1>3 DEF vars, members, headVars, genVars, procVars
<1> QED BY <1>1, <1>2, <1>3 DEF Next

\* A mark is never cleared.
LEMMA MarkingStep == Chain /\ [Next]_vars => Marking'
<1> SUFFICES ASSUME Chain, [Next]_vars PROVE Marking'
  OBVIOUS
<1> USE Gens, SharedConstants DEF Chain, TypeOK, Placed, Marking, Leading, PC, Terminal
<1>1. ASSUME NEW p \in Proc, ProcStep(p) PROVE Marking'
  <2>1. CASE \E m \in Calls, token \in GenOrNone : Begin(p, m, token)
    BY <1>1, <2>1 DEF Begin, Goto, members, headVars, genVars, procVars
  <2>2. CASE ClaimRefused(p)
    BY <1>1, <2>2 DEF ClaimRefused, Leave, members, headVars, genVars, procVars
  <2>3. CASE JoinSuccessor(p)
    BY <1>1, <2>3 DEF JoinSuccessor, Refused, Successor, Follow, Goto, Subscribe, Members, members, headVars, genVars, procVars
  <2>4. CASE JoinRunning(p)
    BY <1>1, <2>4 DEF JoinRunning, Refused, Successor, Running, Follow, Goto, Subscribe, Members, members, headVars, genVars, procVars
  <2>5. CASE JoinTerminal(p)
    BY <1>1, <2>5 DEF JoinTerminal, Running, Follow, Goto, EndHead, Closed, members, headVars, genVars, procVars
  <2>6. CASE Lead(p)
    BY <1>1, <2>6 DEF Lead, Refused, Successor, Renewable, Running, Expired, Links, Goto, members, headVars, genVars, procVars
  <2>7. CASE FollowerDone(p)
    BY <1>1, <2>7 DEF FollowerDone, Leave, members, headVars, genVars, procVars
  <2>8. CASE WatchExpire(p)
    BY <1>1, <2>8 DEF WatchExpire, Running, EndHead, Expired, Closed, members, headVars, genVars, procVars
  <2>9. CASE ClaimAgain(p)
    BY <1>1, <2>9 DEF ClaimAgain, Goto, members, headVars, genVars, procVars
  <2>10. CASE Vanish(p)
    BY <1>1, <2>10 DEF Vanish, Leave, Closed, Owned, Running, members, headVars, genVars, procVars
  <2>11. CASE SyncRead(p)
    BY <1>1, <2>11 DEF SyncRead, Validated, members, headVars, genVars, procVars
  <2>12. CASE SyncWrite(p)
    BY <1>1, <2>12 DEF SyncWrite, Members, members, headVars, genVars, procVars
  <2>13. CASE Lapse(p)
    BY <1>1, <2>13 DEF Lapse, members, headVars, genVars, procVars
  <2>14. CASE Withdraw(p)
    BY <1>1, <2>14 DEF Withdraw, Asked, members, headVars, genVars, procVars
  <2>15. CASE Revoke(p)
    BY <1>1, <2>15 DEF Revoke, Asked, members, headVars, genVars, procVars
  <2>16. CASE Rejoin(p)
    BY <1>1, <2>16 DEF Rejoin, Asked, members, headVars, genVars, procVars
  <2>17. CASE BeginDispatchCheck(p)
    BY <1>1, <2>17 DEF BeginDispatchCheck, Owned, Running, Goto, members, headVars, genVars, procVars
  <2>18. CASE AuthorizeDispatch(p)
    BY <1>1, <2>18 DEF AuthorizeDispatch, Owned, Running, Members, Goto, members, headVars, genVars, procVars
  <2>19. CASE ConfirmDemand(p)
    BY <1>1, <2>19 DEF ConfirmDemand, Validated, Owned, Running, Closed, Goto, members, headVars, genVars, procVars
  <2>20. CASE Send(p)
    BY <1>1, <2>20 DEF Send, Running, Goto, members, headVars, genVars, procVars
  <2>21. CASE PublishResult(p)
    BY <1>1, <2>21 DEF PublishResult, Owned, Running, EndHead, Expired, Closed, Leave, members, headVars, genVars, procVars
  <2>22. CASE PublishFailure(p)
    BY <1>1, <2>22 DEF PublishFailure, Owned, Running, EndHead, Expired, Closed, Leave, members, headVars, genVars, procVars
  <2> QED BY <1>1, <2>1, <2>2, <2>3, <2>4, <2>5, <2>6, <2>7, <2>8, <2>9, <2>10, <2>11, <2>12, <2>13, <2>14, <2>15, <2>16, <2>17, <2>18, <2>19, <2>20, <2>21, <2>22 DEF ProcStep
<1>2. CASE LeaseLapses
  BY <1>2 DEF LeaseLapses, members, headVars, genVars, procVars
<1>3. CASE UNCHANGED vars
  BY <1>3 DEF vars, members, headVars, genVars, procVars
<1> QED BY <1>1, <1>2, <1>3 DEF Next

\* Only the failed head gets a successor by retry.
LEMMA TokenStep == Chain /\ [Next]_vars => StaleTokenSpendsNothing'
<1> SUFFICES ASSUME Chain, [Next]_vars PROVE StaleTokenSpendsNothing'
  OBVIOUS
<1> USE Gens, SharedConstants DEF Chain, TypeOK, Placed, Anchored, Linked, StaleTokenSpendsNothing, Terminal
<1>1. ASSUME NEW p \in Proc, ProcStep(p) PROVE StaleTokenSpendsNothing'
  <2>1. CASE \E m \in Calls, token \in GenOrNone : Begin(p, m, token)
    BY <1>1, <2>1 DEF Begin, Goto, members, headVars, genVars, procVars
  <2>2. CASE ClaimRefused(p)
    BY <1>1, <2>2 DEF ClaimRefused, Leave, members, headVars, genVars, procVars
  <2>3. CASE JoinSuccessor(p)
    BY <1>1, <2>3 DEF JoinSuccessor, Refused, Successor, Follow, Goto, Subscribe, Members, members, headVars, genVars, procVars
  <2>4. CASE JoinRunning(p)
    BY <1>1, <2>4 DEF JoinRunning, Refused, Successor, Running, Follow, Goto, Subscribe, Members, members, headVars, genVars, procVars
  <2>5. CASE JoinTerminal(p)
    BY <1>1, <2>5 DEF JoinTerminal, Running, Follow, Goto, EndHead, Closed, members, headVars, genVars, procVars
  <2>6. CASE Lead(p)
    BY <1>1, <2>6 DEF Lead, Refused, Successor, Renewable, Running, Expired, Links, Goto, members, headVars, genVars, procVars
  <2>7. CASE FollowerDone(p)
    BY <1>1, <2>7 DEF FollowerDone, Leave, members, headVars, genVars, procVars
  <2>8. CASE WatchExpire(p)
    BY <1>1, <2>8 DEF WatchExpire, Running, EndHead, Expired, Closed, members, headVars, genVars, procVars
  <2>9. CASE ClaimAgain(p)
    BY <1>1, <2>9 DEF ClaimAgain, Goto, members, headVars, genVars, procVars
  <2>10. CASE Vanish(p)
    BY <1>1, <2>10 DEF Vanish, Leave, Closed, Owned, Running, members, headVars, genVars, procVars
  <2>11. CASE SyncRead(p)
    BY <1>1, <2>11 DEF SyncRead, Validated, members, headVars, genVars, procVars
  <2>12. CASE SyncWrite(p)
    BY <1>1, <2>12 DEF SyncWrite, Members, members, headVars, genVars, procVars
  <2>13. CASE Lapse(p)
    BY <1>1, <2>13 DEF Lapse, members, headVars, genVars, procVars
  <2>14. CASE Withdraw(p)
    BY <1>1, <2>14 DEF Withdraw, Asked, members, headVars, genVars, procVars
  <2>15. CASE Revoke(p)
    BY <1>1, <2>15 DEF Revoke, Asked, members, headVars, genVars, procVars
  <2>16. CASE Rejoin(p)
    BY <1>1, <2>16 DEF Rejoin, Asked, members, headVars, genVars, procVars
  <2>17. CASE BeginDispatchCheck(p)
    BY <1>1, <2>17 DEF BeginDispatchCheck, Owned, Running, Goto, members, headVars, genVars, procVars
  <2>18. CASE AuthorizeDispatch(p)
    BY <1>1, <2>18 DEF AuthorizeDispatch, Owned, Running, Members, Goto, members, headVars, genVars, procVars
  <2>19. CASE ConfirmDemand(p)
    BY <1>1, <2>19 DEF ConfirmDemand, Validated, Owned, Running, Closed, Goto, members, headVars, genVars, procVars
  <2>20. CASE Send(p)
    BY <1>1, <2>20 DEF Send, Running, Goto, members, headVars, genVars, procVars
  <2>21. CASE PublishResult(p)
    BY <1>1, <2>21 DEF PublishResult, Owned, Running, EndHead, Expired, Closed, Leave, members, headVars, genVars, procVars
  <2>22. CASE PublishFailure(p)
    BY <1>1, <2>22 DEF PublishFailure, Owned, Running, EndHead, Expired, Closed, Leave, members, headVars, genVars, procVars
  <2> QED BY <1>1, <2>1, <2>2, <2>3, <2>4, <2>5, <2>6, <2>7, <2>8, <2>9, <2>10, <2>11, <2>12, <2>13, <2>14, <2>15, <2>16, <2>17, <2>18, <2>19, <2>20, <2>21, <2>22 DEF ProcStep
<1>2. CASE LeaseLapses
  BY <1>2 DEF LeaseLapses, members, headVars, genVars, procVars
<1>3. CASE UNCHANGED vars
  BY <1>3 DEF vars, members, headVars, genVars, procVars
<1> QED BY <1>1, <1>2, <1>3 DEF Next

LEMMA ChainStep == Chain /\ [Next]_vars => Chain'
  BY TypedStep, PlacedStep, AnchoredStep, LinkedStep, MarkingStep, TokenStep DEF Chain

\* A retry token grants one generation, right after the failed one it names.
THEOREM StaleTokenHolds == Safety => []StaleTokenSpendsNothing
<1>1. Safety => []Chain
  BY ChainInit, ChainStep, PTL DEF Safety
<1>2. Chain => StaleTokenSpendsNothing
  BY DEF Chain
<1> QED BY <1>1, <1>2, PTL

\* What OutcomeFinal says of one step.
Final == \A g \in Gen : /\ state[g] \in Terminal => state'[g] = state[g] /\ marked'[g] = marked[g]
                        /\ refreshSucc[g] # 0 => refreshSucc'[g] = refreshSucc[g]
                        /\ retrySucc[g] # 0 => retrySucc'[g] = retrySucc[g]

\* Only the head, while it runs, is ended or marked, and a link is written once.
LEMMA FinalStep == Chain /\ [Next]_vars => Final
<1> SUFFICES ASSUME Chain, [Next]_vars PROVE Final
  OBVIOUS
<1> USE Gens, SharedConstants DEF Chain, TypeOK, Placed, Anchored, Linked, StaleTokenSpendsNothing, Terminal, Final
<1>1. ASSUME NEW p \in Proc, ProcStep(p) PROVE Final
  <2>1. CASE \E m \in Calls, token \in GenOrNone : Begin(p, m, token)
    BY <1>1, <2>1 DEF Begin, Goto, members, headVars, genVars, procVars
  <2>2. CASE ClaimRefused(p)
    BY <1>1, <2>2 DEF ClaimRefused, Leave, members, headVars, genVars, procVars
  <2>3. CASE JoinSuccessor(p)
    BY <1>1, <2>3 DEF JoinSuccessor, Refused, Successor, Follow, Goto, Subscribe, Members, members, headVars, genVars, procVars
  <2>4. CASE JoinRunning(p)
    BY <1>1, <2>4 DEF JoinRunning, Refused, Successor, Running, Follow, Goto, Subscribe, Members, members, headVars, genVars, procVars
  <2>5. CASE JoinTerminal(p)
    BY <1>1, <2>5 DEF JoinTerminal, Running, Follow, Goto, EndHead, Closed, members, headVars, genVars, procVars
  <2>6. CASE Lead(p)
    <3>1. head + 1 \in Gen /\ head \in Nat
      BY <2>6 DEF Lead
    <3>2. ASSUME NEW k \in Gen, state[k] \in Terminal
          PROVE state'[k] = state[k] /\ marked'[k] = marked[k]
      <4>1. k # head + 1
        BY <3>1, <3>2
      <4> QED BY <2>6, <3>2, <4>1 DEF Lead, Running, members, headVars, genVars, procVars
    <3>3. ASSUME NEW k \in Gen, refreshSucc[k] # 0 PROVE refreshSucc'[k] = refreshSucc[k]
      <4>1. k # head
        <5>1. k \in Nat /\ refreshSucc[k] \in Nat /\ k < refreshSucc[k] /\ refreshSucc[k] <= head
          BY <3>3
        <5> HIDE DEF Chain, TypeOK, Placed, Anchored, Linked
        <5> QED BY <3>1, <5>1
      <4>2. mode[p] = "refresh" => k # after[p]
        BY <2>6, <3>3 DEF Lead, Successor
      <4> QED BY <2>6, <4>1, <4>2 DEF Lead, Links
    <3>4. ASSUME NEW k \in Gen, retrySucc[k] # 0 PROVE retrySucc'[k] = retrySucc[k]
      BY <2>6, <3>4 DEF Lead, Successor
    <3> QED BY <3>2, <3>3, <3>4
  <2>7. CASE FollowerDone(p)
    BY <1>1, <2>7 DEF FollowerDone, Leave, members, headVars, genVars, procVars
  <2>8. CASE WatchExpire(p)
    BY <1>1, <2>8 DEF WatchExpire, Running, EndHead, Expired, Closed, members, headVars, genVars, procVars
  <2>9. CASE ClaimAgain(p)
    BY <1>1, <2>9 DEF ClaimAgain, Goto, members, headVars, genVars, procVars
  <2>10. CASE Vanish(p)
    BY <1>1, <2>10 DEF Vanish, Leave, Closed, Owned, Running, members, headVars, genVars, procVars
  <2>11. CASE SyncRead(p)
    BY <1>1, <2>11 DEF SyncRead, Validated, members, headVars, genVars, procVars
  <2>12. CASE SyncWrite(p)
    BY <1>1, <2>12 DEF SyncWrite, Members, members, headVars, genVars, procVars
  <2>13. CASE Lapse(p)
    BY <1>1, <2>13 DEF Lapse, members, headVars, genVars, procVars
  <2>14. CASE Withdraw(p)
    BY <1>1, <2>14 DEF Withdraw, Asked, members, headVars, genVars, procVars
  <2>15. CASE Revoke(p)
    BY <1>1, <2>15 DEF Revoke, Asked, members, headVars, genVars, procVars
  <2>16. CASE Rejoin(p)
    BY <1>1, <2>16 DEF Rejoin, Asked, members, headVars, genVars, procVars
  <2>17. CASE BeginDispatchCheck(p)
    BY <1>1, <2>17 DEF BeginDispatchCheck, Owned, Running, Goto, members, headVars, genVars, procVars
  <2>18. CASE AuthorizeDispatch(p)
    BY <1>1, <2>18 DEF AuthorizeDispatch, Owned, Running, Members, Goto, members, headVars, genVars, procVars
  <2>19. CASE ConfirmDemand(p)
    BY <1>1, <2>19 DEF ConfirmDemand, Validated, Owned, Running, Closed, Goto, members, headVars, genVars, procVars
  <2>20. CASE Send(p)
    BY <1>1, <2>20 DEF Send, Running, Goto, members, headVars, genVars, procVars
  <2>21. CASE PublishResult(p)
    BY <1>1, <2>21 DEF PublishResult, Owned, Running, EndHead, Expired, Closed, Leave, members, headVars, genVars, procVars
  <2>22. CASE PublishFailure(p)
    BY <1>1, <2>22 DEF PublishFailure, Owned, Running, EndHead, Expired, Closed, Leave, members, headVars, genVars, procVars
  <2> QED BY <1>1, <2>1, <2>2, <2>3, <2>4, <2>5, <2>6, <2>7, <2>8, <2>9, <2>10, <2>11, <2>12, <2>13, <2>14, <2>15, <2>16, <2>17, <2>18, <2>19, <2>20, <2>21, <2>22 DEF ProcStep
<1>2. CASE LeaseLapses
  BY <1>2 DEF LeaseLapses, members, headVars, genVars, procVars
<1>3. CASE UNCHANGED vars
  BY <1>3 DEF vars, members, headVars, genVars, procVars
<1> QED BY <1>1, <1>2, <1>3 DEF Next

\* A follower may rely on what it read: the end of a generation, its mark and
\* its links are final.
THEOREM OutcomeHolds == Safety => OutcomeFinal
<1>1. Chain /\ [Next]_vars => [Final]_vars
  BY FinalStep
<1>2. Final <=> \A g \in Gen :
        /\ state[g] \in Terminal => state'[g] = state[g] /\ marked'[g] = marked[g]
        /\ refreshSucc[g] # 0 => refreshSucc'[g] = refreshSucc[g]
        /\ retrySucc[g] # 0 => retrySucc'[g] = retrySucc[g]
  BY DEF Final
<1>3. QED BY <1>1, <1>2, ChainInit, ChainStep, PTL DEF Safety, OutcomeFinal

-----------------------------------------------------------------------------
(* Spending *)

\* An ordinary call starts a generation only over one that completed or was not sent.
LEMMA RespendStep == Chain /\ NoSilentRespend /\ [Next]_vars => NoSilentRespend'
<1> SUFFICES ASSUME Chain /\ NoSilentRespend, [Next]_vars PROVE NoSilentRespend'
  OBVIOUS
<1> USE Gens, SharedConstants DEF Chain, TypeOK, Placed, Marking, NoSilentRespend, Terminal
<1>1. ASSUME NEW p \in Proc, ProcStep(p) PROVE NoSilentRespend'
  <2>1. CASE \E m \in Calls, token \in GenOrNone : Begin(p, m, token)
    BY <1>1, <2>1 DEF Begin, Goto, members, headVars, genVars, procVars
  <2>2. CASE ClaimRefused(p)
    BY <1>1, <2>2 DEF ClaimRefused, Leave, members, headVars, genVars, procVars
  <2>3. CASE JoinSuccessor(p)
    BY <1>1, <2>3 DEF JoinSuccessor, Refused, Successor, Follow, Goto, Subscribe, Members, members, headVars, genVars, procVars
  <2>4. CASE JoinRunning(p)
    BY <1>1, <2>4 DEF JoinRunning, Refused, Successor, Running, Follow, Goto, Subscribe, Members, members, headVars, genVars, procVars
  <2>5. CASE JoinTerminal(p)
    BY <1>1, <2>5 DEF JoinTerminal, Running, Follow, Goto, EndHead, Closed, members, headVars, genVars, procVars
  <2>6. CASE Lead(p)
    BY <1>1, <2>6 DEF Lead, Refused, Successor, Renewable, Running, Expired, Links, Goto, members, headVars, genVars, procVars
  <2>7. CASE FollowerDone(p)
    BY <1>1, <2>7 DEF FollowerDone, Leave, members, headVars, genVars, procVars
  <2>8. CASE WatchExpire(p)
    BY <1>1, <2>8 DEF WatchExpire, Running, EndHead, Expired, Closed, members, headVars, genVars, procVars
  <2>9. CASE ClaimAgain(p)
    BY <1>1, <2>9 DEF ClaimAgain, Goto, members, headVars, genVars, procVars
  <2>10. CASE Vanish(p)
    BY <1>1, <2>10 DEF Vanish, Leave, Closed, Owned, Running, members, headVars, genVars, procVars
  <2>11. CASE SyncRead(p)
    BY <1>1, <2>11 DEF SyncRead, Validated, members, headVars, genVars, procVars
  <2>12. CASE SyncWrite(p)
    BY <1>1, <2>12 DEF SyncWrite, Members, members, headVars, genVars, procVars
  <2>13. CASE Lapse(p)
    BY <1>1, <2>13 DEF Lapse, members, headVars, genVars, procVars
  <2>14. CASE Withdraw(p)
    BY <1>1, <2>14 DEF Withdraw, Asked, members, headVars, genVars, procVars
  <2>15. CASE Revoke(p)
    BY <1>1, <2>15 DEF Revoke, Asked, members, headVars, genVars, procVars
  <2>16. CASE Rejoin(p)
    BY <1>1, <2>16 DEF Rejoin, Asked, members, headVars, genVars, procVars
  <2>17. CASE BeginDispatchCheck(p)
    BY <1>1, <2>17 DEF BeginDispatchCheck, Owned, Running, Goto, members, headVars, genVars, procVars
  <2>18. CASE AuthorizeDispatch(p)
    BY <1>1, <2>18 DEF AuthorizeDispatch, Owned, Running, Members, Goto, members, headVars, genVars, procVars
  <2>19. CASE ConfirmDemand(p)
    BY <1>1, <2>19 DEF ConfirmDemand, Validated, Owned, Running, Closed, Goto, members, headVars, genVars, procVars
  <2>20. CASE Send(p)
    BY <1>1, <2>20 DEF Send, Running, Goto, members, headVars, genVars, procVars
  <2>21. CASE PublishResult(p)
    BY <1>1, <2>21 DEF PublishResult, Owned, Running, EndHead, Expired, Closed, Leave, members, headVars, genVars, procVars
  <2>22. CASE PublishFailure(p)
    BY <1>1, <2>22 DEF PublishFailure, Owned, Running, EndHead, Expired, Closed, Leave, members, headVars, genVars, procVars
  <2> QED BY <1>1, <2>1, <2>2, <2>3, <2>4, <2>5, <2>6, <2>7, <2>8, <2>9, <2>10, <2>11, <2>12, <2>13, <2>14, <2>15, <2>16, <2>17, <2>18, <2>19, <2>20, <2>21, <2>22 DEF ProcStep
<1>2. CASE LeaseLapses
  BY <1>2 DEF LeaseLapses, members, headVars, genVars, procVars
<1>3. CASE UNCHANGED vars
  BY <1>3 DEF vars, members, headVars, genVars, procVars
<1> QED BY <1>1, <1>2, <1>3 DEF Next

\* What was sent and did not complete is not sent again unasked.
THEOREM RespendHolds == Safety => []NoSilentRespend
<1>1. Init => NoSilentRespend
  BY DEF Init, NoSilentRespend
<1> QED BY <1>1, ChainInit, ChainStep, RespendStep, PTL DEF Safety

\* A process that joins or creates a successor finds or writes the link of its anchor.
LEMMA SuccessorStep == Chain /\ OneSuccessor /\ [Next]_vars => OneSuccessor'
<1> SUFFICES ASSUME Chain /\ OneSuccessor, [Next]_vars PROVE OneSuccessor'
  OBVIOUS
<1> USE Gens, SharedConstants DEF Chain, TypeOK, Placed, Anchored, Linked, Marking, StaleTokenSpendsNothing, OneSuccessor, Leading, PC
<1>1. ASSUME NEW p \in Proc, ProcStep(p) PROVE OneSuccessor'
  <2>1. CASE \E m \in Calls, token \in GenOrNone : Begin(p, m, token)
    BY <1>1, <2>1 DEF Begin, Goto, members, headVars, genVars, procVars
  <2>2. CASE ClaimRefused(p)
    BY <1>1, <2>2 DEF ClaimRefused, Leave, members, headVars, genVars, procVars
  <2>3. CASE JoinSuccessor(p)
    BY <1>1, <2>3 DEF JoinSuccessor, Refused, Successor, Follow, Goto, Subscribe, Members, members, headVars, genVars, procVars
  <2>4. CASE JoinRunning(p)
    <3> HIDE DEF OneSuccessor
    <3> USE <2>4 DEF JoinRunning, Follow, Goto, members, headVars, genVars, procVars
    <3>1. Final
      BY FinalStep
    <3>2. CASE mode[p] # "normal" /\ ~refreshed[head]
      BY <3>1, <3>2 DEF OneSuccessor, Final
    <3>3. CASE ~(mode[p] # "normal" /\ ~refreshed[head])
      <4>1. after[p] # 0 => mode[p] = "refresh" /\ refreshSucc'[after[p]] = head
        BY <3>3 DEF Refused, Running
      <4>2. ASSUME NEW q \in Proc, pc'[q] \in Leading \cup {"wait"}, after'[q] # 0
            PROVE at'[q] = (IF mode'[q] = "retry" THEN retrySucc' ELSE refreshSucc')[after'[q]]
        <5>1. CASE q = p
          BY <3>3, <4>1, <4>2, <5>1
        <5>2. CASE q # p
          <6>1. /\ pc'[q] = pc[q] /\ after'[q] = after[q] /\ at'[q] = at[q] /\ mode' = mode
                /\ after[q] \in Gen /\ at[q] # 0
            BY <3>3, <4>2, <5>2
          <6>2. at[q] = (IF mode[q] = "retry" THEN retrySucc ELSE refreshSucc)[after[q]]
            BY <3>3, <4>2, <5>2, <6>1 DEF OneSuccessor
          <6> HIDE Gens DEF Chain, TypeOK, Placed, Anchored, Linked, Marking,
                        StaleTokenSpendsNothing, JoinRunning
          <6>3. CASE mode[q] = "retry"
            BY <3>1, <6>1, <6>2, <6>3 DEF Final
          <6>4. CASE mode[q] # "retry"
            BY <3>1, <6>1, <6>2, <6>4 DEF Final
          <6> QED BY <6>3, <6>4
        <5> QED BY <5>1, <5>2
      <4>3. \A g \in Gen : g < head' /\ ~refreshed'[g] /\ refreshed'[g + 1]
                        => g + 1 \in {refreshSucc'[g], retrySucc'[g]}
        BY <3>1, <3>3 DEF OneSuccessor, Final
      <4> QED BY <4>2, <4>3 DEF OneSuccessor
    <3> QED BY <3>2, <3>3
  <2>5. CASE JoinTerminal(p)
    BY <1>1, <2>5 DEF JoinTerminal, Running, Follow, Goto, EndHead, Closed, members, headVars, genVars, procVars
  <2>6. CASE Lead(p)
    <3> HIDE DEF OneSuccessor
    <3> USE <2>6 DEF Lead, Goto
    <3>1. Final
      BY FinalStep
    <3>2. head + 1 \in Gen /\ head \in Nat
      OBVIOUS
    <3>3. after[p] # 0 => head + 1 = (IF mode[p] = "retry" THEN retrySucc' ELSE refreshSucc')[after[p]]
      BY <3>2 DEF Links
    <3>4. ASSUME NEW q \in Proc, pc'[q] \in Leading \cup {"wait"}, after'[q] # 0
          PROVE at'[q] = (IF mode'[q] = "retry" THEN retrySucc' ELSE refreshSucc')[after'[q]]
      <4>1. CASE q = p
        BY <3>2, <3>3, <3>4, <4>1
      <4>2. CASE q # p
        <5>1. /\ pc'[q] = pc[q] /\ after'[q] = after[q] /\ at'[q] = at[q] /\ mode' = mode
              /\ after[q] \in Gen /\ at[q] # 0
          BY <3>4, <4>2
        <5>2. at[q] = (IF mode[q] = "retry" THEN retrySucc ELSE refreshSucc)[after[q]]
          BY <3>4, <4>2, <5>1 DEF OneSuccessor
        <5> HIDE Gens DEF Chain, TypeOK, Placed, Anchored, Linked, Marking,
                      StaleTokenSpendsNothing, Lead
        <5>3. CASE mode[q] = "retry"
          BY <3>1, <5>1, <5>2, <5>3 DEF Final
        <5>4. CASE mode[q] # "retry"
          BY <3>1, <5>1, <5>2, <5>4 DEF Final
        <5> QED BY <5>3, <5>4
      <4> QED BY <4>1, <4>2
    <3>5. ASSUME NEW g \in Gen, g < head', ~refreshed'[g], refreshed'[g + 1]
          PROVE g + 1 \in {refreshSucc'[g], retrySucc'[g]}
      <4>1. CASE g < head
        BY <3>1, <3>2, <3>5, <4>1 DEF OneSuccessor, Final
      <4>2. CASE g = head
        <5>1. mode[p] # "normal" /\ ~refreshed[head]
          BY <3>2, <3>5, <4>2
        <5>2. CASE mode[p] = "refresh"
          BY <3>2, <4>2, <5>1, <5>2 DEF Links
        <5>3. CASE mode[p] = "retry"
          BY <3>2, <4>2, <5>3 DEF Refused
        <5> QED BY <5>1, <5>2, <5>3
      <4> QED BY <3>2, <3>5, <4>1, <4>2
    <3> QED BY <3>4, <3>5 DEF OneSuccessor
  <2>7. CASE FollowerDone(p)
    BY <1>1, <2>7 DEF FollowerDone, Leave, members, headVars, genVars, procVars
  <2>8. CASE WatchExpire(p)
    BY <1>1, <2>8 DEF WatchExpire, Running, EndHead, Expired, Closed, members, headVars, genVars, procVars
  <2>9. CASE ClaimAgain(p)
    BY <1>1, <2>9 DEF ClaimAgain, Goto, members, headVars, genVars, procVars
  <2>10. CASE Vanish(p)
    BY <1>1, <2>10 DEF Vanish, Leave, Closed, Owned, Running, members, headVars, genVars, procVars
  <2>11. CASE SyncRead(p)
    BY <1>1, <2>11 DEF SyncRead, Validated, members, headVars, genVars, procVars
  <2>12. CASE SyncWrite(p)
    BY <1>1, <2>12 DEF SyncWrite, Members, members, headVars, genVars, procVars
  <2>13. CASE Lapse(p)
    BY <1>1, <2>13 DEF Lapse, members, headVars, genVars, procVars
  <2>14. CASE Withdraw(p)
    BY <1>1, <2>14 DEF Withdraw, Asked, members, headVars, genVars, procVars
  <2>15. CASE Revoke(p)
    BY <1>1, <2>15 DEF Revoke, Asked, members, headVars, genVars, procVars
  <2>16. CASE Rejoin(p)
    BY <1>1, <2>16 DEF Rejoin, Asked, members, headVars, genVars, procVars
  <2>17. CASE BeginDispatchCheck(p)
    BY <1>1, <2>17 DEF BeginDispatchCheck, Owned, Running, Goto, members, headVars, genVars, procVars
  <2>18. CASE AuthorizeDispatch(p)
    BY <1>1, <2>18 DEF AuthorizeDispatch, Owned, Running, Members, Goto, members, headVars, genVars, procVars
  <2>19. CASE ConfirmDemand(p)
    BY <1>1, <2>19 DEF ConfirmDemand, Validated, Owned, Running, Closed, Goto, members, headVars, genVars, procVars
  <2>20. CASE Send(p)
    BY <1>1, <2>20 DEF Send, Running, Goto, members, headVars, genVars, procVars
  <2>21. CASE PublishResult(p)
    BY <1>1, <2>21 DEF PublishResult, Owned, Running, EndHead, Expired, Closed, Leave, members, headVars, genVars, procVars
  <2>22. CASE PublishFailure(p)
    BY <1>1, <2>22 DEF PublishFailure, Owned, Running, EndHead, Expired, Closed, Leave, members, headVars, genVars, procVars
  <2> QED BY <1>1, <2>1, <2>2, <2>3, <2>4, <2>5, <2>6, <2>7, <2>8, <2>9, <2>10, <2>11, <2>12, <2>13, <2>14, <2>15, <2>16, <2>17, <2>18, <2>19, <2>20, <2>21, <2>22 DEF ProcStep
<1>2. CASE LeaseLapses
  BY <1>2 DEF LeaseLapses, members, headVars, genVars, procVars
<1>3. CASE UNCHANGED vars
  BY <1>3 DEF vars, members, headVars, genVars, procVars
<1> QED BY <1>1, <1>2, <1>3 DEF Next

\* The refreshes behind one generation share one successor.
THEOREM SuccessorHolds == Safety => []OneSuccessor
<1>1. Init => OneSuccessor
  BY Gens DEF Init, OneSuccessor, Leading
<1> QED BY <1>1, ChainInit, ChainStep, SuccessorStep, PTL DEF Safety

-----------------------------------------------------------------------------
(* Authority *)

\* Challenge: what the heartbeats under way may answer.
Challenge ==
  /\ \A p \in gone : want[p] # "yes" /\ (sync[p] = "current" => want[p] = "no")
  /\ \A p \in Proc : sync[p] = "current" => phase = "challenged"
  /\ \A p \in Proc : pc[p] = "lead" /\ Owned(p) => phase # "challenged"
  /\ NoStaleAuthority

\* A heartbeat that answers the challenge read it after it was issued, and has
\* found out since whether its callers are alive.
LEMMA ChallengeStep == TypeOK /\ Challenge /\ [Next]_vars => Challenge'
<1> SUFFICES ASSUME TypeOK /\ Challenge, [Next]_vars PROVE Challenge'
  OBVIOUS
<1> USE SharedConstants, Gens DEF TypeOK, Challenge, NoStaleAuthority, Owned, Running, PC
<1>1. ASSUME NEW p \in Proc, ProcStep(p) PROVE Challenge'
  <2>1. CASE \E m \in Calls, token \in GenOrNone : Begin(p, m, token)
    BY <1>1, <2>1 DEF Begin, Goto, members, headVars, genVars, procVars
  <2>2. CASE ClaimRefused(p)
    BY <1>1, <2>2 DEF ClaimRefused, Leave, members, headVars, genVars, procVars
  <2>3. CASE JoinSuccessor(p)
    BY <1>1, <2>3 DEF JoinSuccessor, Refused, Successor, Follow, Goto, Subscribe, Members, members, headVars, genVars, procVars
  <2>4. CASE JoinRunning(p)
    BY <1>1, <2>4 DEF JoinRunning, Refused, Successor, Running, Follow, Goto, Subscribe, Members, members, headVars, genVars, procVars
  <2>5. CASE JoinTerminal(p)
    BY <1>1, <2>5 DEF JoinTerminal, Running, Follow, Goto, EndHead, Closed, members, headVars, genVars, procVars
  <2>6. CASE Lead(p)
    BY <1>1, <2>6 DEF Lead, Refused, Successor, Renewable, Running, Expired, Links, Goto, members, headVars, genVars, procVars
  <2>7. CASE FollowerDone(p)
    BY <1>1, <2>7 DEF FollowerDone, Leave, members, headVars, genVars, procVars
  <2>8. CASE WatchExpire(p)
    BY <1>1, <2>8 DEF WatchExpire, Running, EndHead, Expired, Closed, members, headVars, genVars, procVars
  <2>9. CASE ClaimAgain(p)
    BY <1>1, <2>9 DEF ClaimAgain, Goto, members, headVars, genVars, procVars
  <2>10. CASE Vanish(p)
    BY <1>1, <2>10 DEF Vanish, Leave, Closed, Owned, Running, members, headVars, genVars, procVars
  <2>11. CASE SyncRead(p)
    BY <1>1, <2>11 DEF SyncRead, Validated, members, headVars, genVars, procVars
  <2>12. CASE SyncWrite(p)
    BY <1>1, <2>12 DEF SyncWrite, Members, members, headVars, genVars, procVars
  <2>13. CASE Lapse(p)
    BY <1>1, <2>13 DEF Lapse, members, headVars, genVars, procVars
  <2>14. CASE Withdraw(p)
    BY <1>1, <2>14 DEF Withdraw, Asked, members, headVars, genVars, procVars
  <2>15. CASE Revoke(p)
    BY <1>1, <2>15 DEF Revoke, Asked, members, headVars, genVars, procVars
  <2>16. CASE Rejoin(p)
    BY <1>1, <2>16 DEF Rejoin, Asked, members, headVars, genVars, procVars
  <2>17. CASE BeginDispatchCheck(p)
    BY <1>1, <2>17 DEF BeginDispatchCheck, Owned, Running, Goto, members, headVars, genVars, procVars
  <2>18. CASE AuthorizeDispatch(p)
    BY <1>1, <2>18 DEF AuthorizeDispatch, Owned, Running, Members, Goto, members, headVars, genVars, procVars
  <2>19. CASE ConfirmDemand(p)
    BY <1>1, <2>19 DEF ConfirmDemand, Validated, Owned, Running, Closed, Goto, members, headVars, genVars, procVars
  <2>20. CASE Send(p)
    BY <1>1, <2>20 DEF Send, Running, Goto, members, headVars, genVars, procVars
  <2>21. CASE PublishResult(p)
    BY <1>1, <2>21 DEF PublishResult, Owned, Running, EndHead, Expired, Closed, Leave, members, headVars, genVars, procVars
  <2>22. CASE PublishFailure(p)
    BY <1>1, <2>22 DEF PublishFailure, Owned, Running, EndHead, Expired, Closed, Leave, members, headVars, genVars, procVars
  <2> QED BY <1>1, <2>1, <2>2, <2>3, <2>4, <2>5, <2>6, <2>7, <2>8, <2>9, <2>10, <2>11, <2>12, <2>13, <2>14, <2>15, <2>16, <2>17, <2>18, <2>19, <2>20, <2>21, <2>22 DEF ProcStep
<1>2. CASE LeaseLapses
  BY <1>2 DEF LeaseLapses, members, headVars, genVars, procVars
<1>3. CASE UNCHANGED vars
  BY <1>3 DEF vars, members, headVars, genVars, procVars
<1> QED BY <1>1, <1>2, <1>3 DEF Next

\* Nobody counts as demand who had lost its job before the challenge.
THEOREM AuthorityHolds == Safety => []NoStaleAuthority
<1>1. Init => Challenge
  BY DEF Init, Challenge, NoStaleAuthority
<1>2. Challenge => NoStaleAuthority
  BY DEF Challenge
<1> QED BY <1>1, <1>2, TypedInit, TypedStep, ChallengeStep, PTL DEF Safety
=============================================================================
