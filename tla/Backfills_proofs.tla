-------------------------- MODULE Backfills_proofs --------------------------
(***************************************************************************)
(* Proofs about Backfills: types, the lock of the paid job, the edits of   *)
(* the owners and the pages of a chain, for any documents, operators, page *)
(* size and times.                                                         *)
(***************************************************************************)
EXTENDS Backfills, FiniteSetTheorems, WellFoundedInduction, TLAPS

-----------------------------------------------------------------------------
(* Least and greatest numbers *)

LEMMA Least == ASSUME NEW T \in SUBSET Nat, T # {} PROVE \E m \in T : \A y \in T : m <= y
<1>1. IsWellFoundedOn(OpToRel(<, Nat), Nat)
  BY NatLessThanWellFounded
<1>2. \E x \in T : \A y \in T : ~ (<<y, x>> \in OpToRel(<, Nat))
  BY <1>1, WFMin
<1>3. PICK x \in T : \A y \in T : ~ (<<y, x>> \in OpToRel(<, Nat))
  BY <1>2
<1>4. \A y \in T : ~ (y < x)
  BY <1>3 DEF OpToRel
<1> QED BY <1>4

LEMMA Greatest == ASSUME NEW T \in SUBSET Nat, T # {}, IsFiniteSet(T) PROVE \E m \in T : \A y \in T : y <= m
<1> DEFINE UpTo(x) == {y \in T : y <= x}
           Rank(x) == Cardinality(UpTo(x))
           Gaps == {Cardinality(T) - Rank(x) : x \in T}
<1>1. ASSUME NEW x \in T PROVE IsFiniteSet(UpTo(x)) /\ Rank(x) \in Nat /\ Rank(x) <= Cardinality(T) /\ Cardinality(T) \in Nat
  <2>1. UpTo(x) \in SUBSET T
    OBVIOUS
  <2> HIDE DEF UpTo
  <2> QED BY <2>1, FS_Subset, FS_CardinalityType
<1>2. Gaps \in SUBSET Nat /\ Gaps # {}
  <2>1. ASSUME NEW x \in T PROVE Cardinality(T) - Rank(x) \in Nat
    <3>1. Rank(x) \in Nat /\ Rank(x) <= Cardinality(T) /\ Cardinality(T) \in Nat
      BY <1>1
    <3> HIDE DEF Rank
    <3> QED BY <3>1
  <2> HIDE DEF Rank
  <2> QED BY <2>1
<1>3. PICK g \in Gaps : \A h \in Gaps : g <= h
  <2> HIDE DEF Gaps
  <2> QED BY <1>2, Least
<1>4. PICK m \in T : g = Cardinality(T) - Rank(m)
  BY <1>3
<1>5. ASSUME NEW y \in T, ~(y <= m) PROVE FALSE
  <2>1. UpTo(m) \in SUBSET UpTo(y) /\ y \in UpTo(y) /\ y \notin UpTo(m)
    <3>1. m \in Nat /\ y \in Nat /\ m <= y
      BY <1>5
    <3>2. ASSUME NEW e \in UpTo(m) PROVE e \in UpTo(y)
      <4>1. e \in T /\ e <= m /\ e \in Nat
        OBVIOUS
      <4>2. e <= y
        BY <3>1, <4>1
      <4> QED BY <4>1, <4>2
    <3>3. y \in UpTo(y) /\ y \notin UpTo(m)
      BY <1>5, <3>1
    <3>4. UpTo(m) \subseteq UpTo(y)
      <4> HIDE DEF UpTo
      <4> QED BY <3>2
    <3> HIDE DEF UpTo
    <3> QED BY <3>3, <3>4
  <2>2. UpTo(m) # UpTo(y)
    BY <2>1
  <2>3. Rank(m) <= Rank(y) /\ Rank(m) # Rank(y)
    <3> HIDE DEF UpTo
    <3> QED BY <1>1, <2>1, <2>2, FS_Subset
  <2>4. Cardinality(T) - Rank(m) <= Cardinality(T) - Rank(y)
    BY <1>3, <1>4
  <2>5. Rank(m) \in Nat /\ Rank(y) \in Nat /\ Cardinality(T) \in Nat
    BY <1>1
  <2> HIDE DEF Rank
  <2> QED BY <2>3, <2>4, <2>5
<1> QED BY <1>5

-----------------------------------------------------------------------------
(* Types *)

\* A chain that is busy with a document knows which one.
BusyWith == \A r \in Run : run[r].pc \in {"looking", "write"} => run[r].at \in Docs

Typed == TypeOK /\ BusyWith

LEMMA SetTyped ==
  ASSUME Typed, NEW r \in Run, NEW c \in Chain, Set(r, c),
         c.pc \in {"looking", "write"} => c.at \in Docs
  PROVE  run' \in [Run -> Chain] /\ BusyWith'
  BY DEF Typed, TypeOK, Set, BusyWith

LEMMA RunTyped == ASSUME Typed, NEW r \in Run PROVE run[r] \in Chain
  BY DEF Typed, TypeOK

LEMMA TypedInit == Init => Typed
<1> SUFFICES ASSUME Init PROVE Typed
  OBVIOUS
<1> USE DEF Init
<1>1. left \in Scenario
  BY BackfillConstants
<1>2. doc \in [Docs -> Document]
  BY <1>1 DEF NoDoc, Document, Scenario
<1>3. NoChain \in Chain
  BY DEF NoChain, Chain, Unread, NoDoc, Document
<1>4. lock \in [by : Run \cup {NoRun}, at : 0..MaxTime] /\ clock \in 0..MaxTime
  BY BackfillConstants DEF NoLock
<1>5. BusyWith
  BY DEF BusyWith, NoChain
<1> QED BY <1>1, <1>2, <1>3, <1>4, <1>5 DEF Typed, TypeOK

LEMMA ReleasedTyped ==
  ASSUME Typed, NEW r \in Run
  PROVE  Released(r) \in [by : Run \cup {NoRun}, at : 0..MaxTime]
  BY BackfillConstants DEF Typed, TypeOK, Released, NoLock

LEMMA CostsTyped == ASSUME Typed, Costs PROVE left' \in Scenario
  BY DEF Typed, TypeOK, Costs, Scenario

LEMMA EditsTyped == ASSUME Typed, Edits PROVE left' \in Scenario
  BY DEF Typed, TypeOK, Edits, Scenario

LEMMA DoneTyped == ASSUME Typed, NEW r \in Run, run[r].at \in Docs PROVE Done(r) \in Chain /\ Done(r).pc = "work"
<1> DEFINE tried == run[r].tried \cup {run[r].at}
           t == [run[r] EXCEPT !.pc = "work", !.tried = tried, !.since = 0]
<1>1. run[r] \in Chain
  BY RunTyped
<1>2. tried \in SUBSET Docs
  BY <1>1 DEF Chain
<1>3. Done(r) = t
  BY DEF Done
<1> HIDE DEF tried
<1>4. t \in Chain /\ t.pc = "work"
  BY <1>1, <1>2 DEF Chain
<1> HIDE DEF t
<1> QED BY <1>3, <1>4

LEMMA UnreadTyped == Unread \in [Docs -> Document]
  BY DEF Unread, NoDoc, Document

LEMMA ClockTyped == ASSUME Typed PROVE clock \in Nat
  BY BackfillConstants DEF Typed, TypeOK

\* An operator goes on from where the chain was, from the start, or from a
\* document of the page; nothing of the page lies behind the last of these.
LEMMA ResumesIs ==
  ASSUME Typed, NEW r \in Run
  PROVE  /\ Resumes(r) \in {0, run[r].cursor} \cup Unfinished(r) /\ Resumes(r) \in Nat /\ Unfinished(r) \in SUBSET Docs
         /\ job # "images" => Resumes(r) \in {0, run[r].cursor}
<1>1. run[r].cursor \in Nat /\ Docs \subseteq Nat
  BY RunTyped, BackfillConstants DEF Chain
<1>2. Unfinished(r) \in SUBSET Docs
  BY DEF Unfinished
<1> DEFINE U == Unfinished(r)
<1>3. U # {} => \E d \in U : \A e \in U : e <= d
  BY <1>1, <1>2, BackfillConstants, FS_Subset, Greatest
<1>4. CASE job \in Looping
  BY <1>1, <1>2, <1>4 DEF Resumes, Looping
<1>5. CASE job \notin Looping /\ job = "images" /\ U # {}
  <2>1. Resumes(r) = CHOOSE d \in U : \A e \in U : e <= d
    BY <1>5 DEF Resumes
  <2>2. Resumes(r) \in U
    <3> HIDE DEF U
    <3> QED BY <1>3, <1>5, <2>1
  <2> QED BY <1>1, <1>2, <1>5, <2>2
<1>6. CASE job \notin Looping /\ ~(job = "images" /\ U # {})
  BY <1>1, <1>2, <1>6 DEF Resumes
<1> QED BY <1>4, <1>5, <1>6

LEMMA ThrowsTyped == ASSUME Typed, NEW r \in Run PROVE Throws(r) \in Chain /\ Throws(r).pc = "idle"
<1> DEFINE cursor == Resumes(r)
           cut == IF job = "images" THEN run[r].cut \cup Unfinished(r) ELSE run[r].cut
           t == [run[r] EXCEPT !.pc = "idle", !.page = {}, !.snap = Unread, !.beat = "none", !.at = 0, !.since = 0, !.cursor = cursor, !.cut = cut]
<1>1. run[r] \in Chain
  BY RunTyped
<1>2. cursor \in Nat /\ cut \in SUBSET Docs
  BY <1>1, ResumesIs DEF Chain
<1>3. Throws(r) = t
  BY <1>1 DEF Throws, Chain
<1> HIDE DEF cursor, cut
<1>4. t \in Chain /\ t.pc = "idle"
  BY <1>1, <1>2, UnreadTyped DEF Chain
<1> HIDE DEF t
<1> QED BY <1>3, <1>4

LEMMA TypedStep == Typed /\ [Next]_vars => Typed'
<1> SUFFICES ASSUME Typed, [Next]_vars PROVE Typed'
  OBVIOUS
<1>1. ASSUME NEW r \in Run, Begin(r) PROVE Typed'
  <2> DEFINE c == [run[r] EXCEPT !.pc = "read", !.fresh = clock, !.lost = FALSE, !.beat = "none", !.sent = clock,
                           !.last = 0, !.aborted = FALSE]
  <2>1. c \in Chain /\ c.pc = "read"
    <3>1. run[r] \in Chain /\ clock \in Nat
      BY RunTyped, ClockTyped
    <3> QED BY <3>1 DEF Chain
  <2>2. run' \in [Run -> Chain] /\ BusyWith'
    BY <1>1, <2>1, SetTyped DEF Begin
  <2> QED BY <1>1, <2>2 DEF Begin, Typed, TypeOK
<1>2. ASSUME NEW r \in Run, ReadPage(r) PROVE Typed'
  <2> DEFINE page == Page(r)
             c == [run[r] EXCEPT !.pc = IF page = {} THEN "ending" ELSE "work", !.page = page, !.full = Full(page),
                              !.snap = [d \in Docs |-> IF d \in page THEN doc[d] ELSE NoDoc], !.started = TRUE,
                              !.owed = IF run[r].started THEN @ ELSE {d \in Listed(r) : Wanted(doc[d])}]
  <2>1. page \in SUBSET Docs /\ Listed(r) \in SUBSET Docs /\ Full(page) \in BOOLEAN
    BY DEF Page, Listed, Full
  <2>2. [d \in Docs |-> IF d \in page THEN doc[d] ELSE NoDoc] \in [Docs -> Document]
    BY DEF Typed, TypeOK, NoDoc, Document
  <2>3. c \in Chain /\ c.pc \in {"ending", "work"}
    <3> DEFINE pc == IF page = {} THEN "ending" ELSE "work"
               snap == [d \in Docs |-> IF d \in page THEN doc[d] ELSE NoDoc]
               full == Full(page)
               owed == IF run[r].started THEN run[r].owed ELSE {d \in Listed(r) : Wanted(doc[d])}
               x == [run[r] EXCEPT !.pc = pc, !.page = page, !.full = full, !.snap = snap, !.started = TRUE, !.owed = owed]
    <3>1. run[r] \in Chain
      BY RunTyped
    <3>2. owed \in SUBSET Docs
      <4>1. run[r].owed \in SUBSET Docs
        BY <3>1 DEF Chain
      <4> QED BY <4>1, <2>1
    <3>3. pc \in {"ending", "work"} /\ snap \in [Docs -> Document] /\ full \in BOOLEAN
      BY <2>1, <2>2
    <3>4. x \in Chain /\ x.pc = pc
      <4> HIDE DEF page, pc, snap, full, owed
      <4> QED BY <2>1, <3>1, <3>2, <3>3 DEF Chain
    <3> QED BY <3>1, <3>3, <3>4
  <2>4. Set(r, c) /\ UNCHANGED <<doc, lock, clock, left>>
    BY <1>2 DEF ReadPage
  <2>5. run' \in [Run -> Chain] /\ BusyWith'
    <3> HIDE DEF c
    <3> QED BY <2>3, <2>4, SetTyped
  <2> QED BY <2>4, <2>5 DEF Typed, TypeOK
<1>3. ASSUME NEW r \in Run, Visit(r) PROVE Typed'
  <2>1. PICK d \in run[r].page :
          IF Healthy(r)
          THEN LET want == Wanted(run[r].snap[d])
               IN Set(r, [run[r] EXCEPT !.page = @ \ {d}, !.at = d, !.last = d, !.since = clock,
                          !.pc = IF ~want THEN "work" ELSE IF job \in Paid THEN "looking" ELSE "write",
                          !.tried = IF want THEN @ ELSE @ \cup {d}])
          ELSE Set(r, [run[r] EXCEPT !.aborted = TRUE, !.page = {}, !.pc = "ending"])
    BY <1>3 DEF Visit
  <2>2. d \in Docs /\ d \in Nat /\ clock \in Nat
    BY RunTyped, ClockTyped, BackfillConstants DEF Chain
  <2>3. CASE Healthy(r)
    <3> DEFINE want == Wanted(run[r].snap[d])
               c == [run[r] EXCEPT !.page = @ \ {d}, !.at = d, !.last = d, !.since = clock,
                          !.pc = IF ~want THEN "work" ELSE IF job \in Paid THEN "looking" ELSE "write",
                          !.tried = IF want THEN @ ELSE @ \cup {d}]
               pc == IF ~want THEN "work" ELSE IF job \in Paid THEN "looking" ELSE "write"
               tried == IF want THEN run[r].tried ELSE run[r].tried \cup {d}
               x == [run[r] EXCEPT !.page = run[r].page \ {d}, !.at = d, !.last = d, !.since = clock, !.pc = pc, !.tried = tried]
    <3>1. c \in Chain /\ c.at \in Docs
      <4>1. run[r] \in Chain
        BY RunTyped
      <4>2. pc \in {"work", "looking", "write"}
        OBVIOUS
      <4>3. tried \in SUBSET Docs /\ run[r].page \ {d} \in SUBSET Docs
        BY <2>2, <4>1 DEF Chain
      <4>4. x \in Chain /\ x.at = d
        <5> HIDE DEF want, pc, tried
        <5> QED BY <2>2, <4>1, <4>2, <4>3 DEF Chain
      <4>5. c = x
        BY <4>1
      <4> HIDE DEF c, x
      <4> QED BY <4>4, <4>5, <2>2
    <3> HIDE DEF c
    <3>2. Set(r, c)
      BY <2>1, <2>3 DEF c
    <3> QED BY <1>3, <3>1, <3>2, SetTyped DEF Visit, Typed, TypeOK
  <2>4. CASE ~Healthy(r)
    <3> DEFINE c == [run[r] EXCEPT !.aborted = TRUE, !.page = {}, !.pc = "ending"]
    <3>1. c \in Chain /\ c.pc = "ending"
      <4>1. run[r] \in Chain
        BY RunTyped
      <4> QED BY <4>1 DEF Chain
    <3> HIDE DEF c
    <3>2. Set(r, c)
      BY <2>1, <2>4 DEF c
    <3> QED BY <1>3, <3>1, <3>2, SetTyped DEF Visit, Typed, TypeOK
  <2> QED BY <2>3, <2>4
<1>4. ASSUME NEW r \in Run, LookedUp(r) PROVE Typed'
  <2>1. run[r].at \in Docs
    BY <1>4 DEF LookedUp, Typed, BusyWith
  <2>2. [run[r] EXCEPT !.pc = "write"] \in Chain /\ [run[r] EXCEPT !.pc = "write"].at \in Docs
    BY <2>1, RunTyped DEF Chain
  <2>3. run' \in [Run -> Chain] /\ BusyWith'
    BY <1>4, <2>1, <2>2, DoneTyped, SetTyped DEF LookedUp
  <2> QED BY <1>4, <2>3, CostsTyped DEF LookedUp, Typed, TypeOK
<1>5. ASSUME NEW r \in Run, Write(r) PROVE Typed'
  <2>1. At(r) \in Docs /\ run[r].at \in Docs
    BY <1>5 DEF Write, Due, Typed, BusyWith, At
  <2>2. run' \in [Run -> Chain] /\ BusyWith'
    BY <1>5, <2>1, DoneTyped, SetTyped DEF Write
  <2>3. Result(doc[At(r)], run[r].snap[At(r)]) \in Keys \cup {"none"}
    BY <2>1, RunTyped DEF Result, Derived, Patch, Chain, Document, Typed, TypeOK
  <2>4. doc' \in [Docs -> Document]
    <3> DEFINE v == Result(doc[At(r)], run[r].snap[At(r)])
    <3>1. doc' = [doc EXCEPT ![At(r)] = [doc[At(r)] EXCEPT !.value = v, !.by = "run"]]
      BY <1>5, <2>1 DEF Write, Typed, TypeOK
    <3>2. [doc[At(r)] EXCEPT !.value = v, !.by = "run"] \in Document
      <4>1. doc[At(r)] \in Document /\ v \in Keys \cup {"none"}
        BY <2>1, <2>3 DEF Typed, TypeOK
      <4> HIDE DEF v
      <4> QED BY <4>1 DEF Document
    <3> QED BY <3>1, <3>2 DEF Typed, TypeOK
  <2> QED BY <1>5, <2>2, <2>4 DEF Write, Due, Typed, TypeOK
<1>6. ASSUME NEW r \in Run, Skip(r) \/ WriteFails(r) PROVE Typed'
  <2>1. run[r].at \in Docs
    BY <1>6 DEF Skip, WriteFails, Due, Typed, BusyWith
  <2>2. run' \in [Run -> Chain] /\ BusyWith'
    BY <1>6, <2>1, DoneTyped, ThrowsTyped, SetTyped DEF Skip, WriteFails
  <2> QED BY <1>6, <2>2, CostsTyped DEF Skip, WriteFails, Due, Typed, TypeOK
<1>7. ASSUME NEW r \in Run, PageDone(r) PROVE Typed'
  <2> DEFINE more == [run[r] EXCEPT !.pc = "read", !.cursor = run[r].at, !.snap = Unread]
             ends == [run[r] EXCEPT !.pc = "ending", !.snap = Unread]
  <2>1. more \in Chain /\ more.pc = "read" /\ ends \in Chain /\ ends.pc = "ending"
    <3>1. run[r] \in Chain /\ run[r].at \in Nat /\ Unread \in [Docs -> Document]
      BY RunTyped, UnreadTyped DEF Chain
    <3>2. more \in Chain /\ more.pc = "read"
      BY <3>1 DEF Chain
    <3>3. ends \in Chain /\ ends.pc = "ending"
      BY <3>1 DEF Chain
    <3> QED BY <3>2, <3>3
  <2>2. Set(r, more) \/ Set(r, ends)
    BY <1>7 DEF PageDone
  <2>3. run' \in [Run -> Chain] /\ BusyWith'
    <3> HIDE DEF more, ends
    <3> QED BY <2>1, <2>2, SetTyped
  <2> QED BY <1>7, <2>3 DEF PageDone, Typed, TypeOK
<1>8. ASSUME NEW r \in Run, End(r) PROVE Typed'
  <2> DEFINE c == [run[r] EXCEPT !.pc = IF (run[r].full /\ job \notin Looping) \/ run[r].aborted THEN "idle" ELSE "over",
                           !.cursor = IF run[r].last # 0 THEN run[r].last ELSE @,
                           !.at = 0, !.snap = Unread, !.beat = "none", !.fresh = 0, !.since = 0]
  <2>1. c \in Chain /\ c.pc \in {"idle", "over"}
    <3> DEFINE pc == IF (run[r].full /\ job \notin Looping) \/ run[r].aborted THEN "idle" ELSE "over"
               cursor == IF run[r].last # 0 THEN run[r].last ELSE run[r].cursor
               x == [run[r] EXCEPT !.pc = pc, !.cursor = cursor, !.at = 0, !.snap = Unread, !.beat = "none", !.fresh = 0, !.since = 0]
    <3>1. run[r] \in Chain /\ pc \in {"idle", "over"}
      BY RunTyped
    <3>2. cursor \in Nat
      BY <3>1 DEF Chain
    <3>3. x \in Chain /\ x.pc = pc
      <4> HIDE DEF pc, cursor
      <4> QED BY <3>1, <3>2, UnreadTyped DEF Chain
    <3> QED BY <3>1, <3>3
  <2>2. run' \in [Run -> Chain] /\ BusyWith'
    <3>1. Set(r, c)
      BY <1>8 DEF End
    <3> HIDE DEF c
    <3> QED BY <2>1, <3>1, SetTyped
  <2> QED BY <1>8, <2>2, CostsTyped, ReleasedTyped DEF End, Typed, TypeOK
<1>9. ASSUME NEW r \in Run, Dies(r) PROVE Typed'
  <2>1. run' \in [Run -> Chain] /\ BusyWith'
    BY <1>9, ThrowsTyped, SetTyped DEF Dies
  <2> QED BY <1>9, <2>1, CostsTyped, ReleasedTyped DEF Dies, Typed, TypeOK
<1>10. ASSUME NEW r \in Run, Renew(r) PROVE Typed'
  <2> DEFINE beat == IF lock.by = r THEN "renewed" ELSE "lost"
             c == [run[r] EXCEPT !.beat = beat, !.sent = clock]
  <2>1. c \in Chain /\ c.pc = run[r].pc /\ c.at = run[r].at
    <3>1. run[r] \in Chain /\ clock \in Nat /\ beat \in {"renewed", "lost"}
      BY RunTyped, ClockTyped
    <3> HIDE DEF beat
    <3> QED BY <3>1 DEF Chain
  <2>2. run' \in [Run -> Chain] /\ BusyWith'
    <3>1. Set(r, c)
      BY <1>10 DEF Renew
    <3>2. c.pc \in {"looking", "write"} => c.at \in Docs
      BY <2>1 DEF Typed, BusyWith
    <3> HIDE DEF c
    <3> QED BY <2>1, <3>1, <3>2, SetTyped
  <2> QED BY <1>10, <2>2 DEF Renew, Typed, TypeOK
<1>11. ASSUME NEW r \in Run, SeeRenewal(r) PROVE Typed'
  <2> DEFINE c == [run[r] EXCEPT !.beat = "none", !.lost = @ \/ run[r].beat = "lost",
                           !.fresh = IF run[r].beat = "renewed" THEN clock ELSE @]
  <2>1. c \in Chain /\ c.pc = run[r].pc /\ c.at = run[r].at
    <3> DEFINE lost == run[r].lost \/ run[r].beat = "lost"
               fresh == IF run[r].beat = "renewed" THEN clock ELSE run[r].fresh
               x == [run[r] EXCEPT !.beat = "none", !.lost = lost, !.fresh = fresh]
    <3>1. run[r] \in Chain /\ c = x
      BY RunTyped
    <3>2. lost \in BOOLEAN /\ fresh \in Nat
      BY <3>1, ClockTyped DEF Chain
    <3> HIDE DEF lost, fresh
    <3>3. x \in Chain /\ x.pc = run[r].pc /\ x.at = run[r].at
      BY <3>1, <3>2 DEF Chain
    <3> HIDE DEF c, x
    <3> QED BY <3>1, <3>3
  <2>2. run' \in [Run -> Chain] /\ BusyWith'
    <3>1. Set(r, c)
      BY <1>11 DEF SeeRenewal
    <3>2. c.pc \in {"looking", "write"} => c.at \in Docs
      BY <2>1 DEF Typed, BusyWith
    <3> HIDE DEF c
    <3> QED BY <2>1, <3>1, <3>2, SetTyped
  <2> QED BY <1>11, <2>2 DEF SeeRenewal, Typed, TypeOK
<1>12. ASSUME NEW d \in Docs, Choose(d) \/ Rekey(d) \/ Recategorise(d) \/ Remove(d) PROVE Typed'
  <2>1. doc[d] \in Document /\ left' \in Scenario /\ World
    BY <1>12, EditsTyped DEF Choose, Rekey, Recategorise, Remove, Typed, TypeOK
  <2>2. \E x \in Document : doc' = [doc EXCEPT ![d] = x]
    <3>1. CASE Choose(d)
      <4>1. PICK k \in Keys : doc' = [doc EXCEPT ![d].key = k, ![d].value = k, ![d].by = "client"]
        BY <3>1 DEF Choose
      <4>2. [doc[d] EXCEPT !.key = k, !.value = k, !.by = "client"] \in Document
        BY <2>1 DEF Document
      <4>3. doc' = [doc EXCEPT ![d] = [doc[d] EXCEPT !.key = k, !.value = k, !.by = "client"]]
        BY <4>1 DEF Typed, TypeOK
      <4> QED BY <4>2, <4>3
    <3>2. CASE Rekey(d)
      <4>1. PICK k \in Keys : doc' = [doc EXCEPT ![d].key = k]
        BY <3>2 DEF Rekey
      <4>2. [doc[d] EXCEPT !.key = k] \in Document
        BY <2>1 DEF Document
      <4> QED BY <4>1, <4>2
    <3>3. CASE Recategorise(d)
      <4>1. [doc[d] EXCEPT !.cohort = FALSE] \in Document
        BY <2>1 DEF Document
      <4> QED BY <3>3, <4>1 DEF Recategorise
    <3>4. CASE Remove(d)
      BY <3>4 DEF Remove, NoDoc, Document
    <3> QED BY <1>12, <3>1, <3>2, <3>3, <3>4
  <2>3. doc' \in [Docs -> Document]
    BY <2>2 DEF Typed, TypeOK
  <2> QED BY <2>1, <2>3 DEF World, Typed, TypeOK, BusyWith
<1>13. CASE Tick
  BY <1>13, BackfillConstants DEF Tick, Typed, TypeOK, BusyWith
<1>14. CASE UNCHANGED vars
  BY <1>14 DEF vars, Typed, TypeOK, BusyWith
<1> QED BY <1>1, <1>2, <1>3, <1>4, <1>5, <1>6, <1>7, <1>8, <1>9, <1>10, <1>11, <1>12, <1>13, <1>14 DEF Next, RunStep, Owners

\* Documents, chains, the lock and the clock stay in their domains.
THEOREM TypeCorrect == Spec => []TypeOK
<1>1. Spec => []Typed
  BY TypedInit, TypedStep, PTL DEF Spec
<1>2. Typed => TypeOK
  BY DEF Typed
<1> QED BY <1>1, <1>2, PTL

-----------------------------------------------------------------------------
(* The lock *)

\* How a call c of operator r stands to the lock l at time t: what it knows of
\* its own renewals is not much newer than the lock says while it holds it, and
\* LOCK_STALE older than now once it does not.
Stands(r, c, l, t) ==
  /\ c.fresh <= t /\ c.sent <= t
  /\ l.by = r => /\ c.fresh <= l.at + Delay
                 /\ c.beat = "renewed" => c.sent <= l.at
  /\ l.by # r => /\ c.fresh + LOCK_STALE <= t + Delay
                 /\ c.beat = "renewed" => c.sent + LOCK_STALE <= t
  /\ c.beat # "none" => t <= c.sent + Delay
  /\ c.pc = "looking" => /\ t <= c.since + CALL_TIMEOUT
                         /\ c.since + LOCK_SAFETY_MARGIN <= c.fresh + LOCK_STALE

Live(c) == c.pc \notin {"idle", "over"}

Held == job = "types" => lock.at <= clock /\ \A r \in Run : Live(run[r]) => Stands(r, run[r], lock, clock)

LEMMA Times ==
  ASSUME Typed
  PROVE  /\ clock \in Nat /\ lock.at \in Nat /\ lock.by \in Run \cup {NoRun} /\ NoRun \notin Run
         /\ LOCK_STALE \in Nat /\ LOCK_SAFETY_MARGIN \in Nat /\ CALL_TIMEOUT \in Nat /\ Delay \in Nat
         /\ \A r \in Run : run[r].fresh \in Nat /\ run[r].sent \in Nat /\ run[r].since \in Nat
  BY RunTyped, BackfillConstants DEF Typed, TypeOK, Chain

LEMMA JobStays == ASSUME Typed, [Next]_vars PROVE job' = job
  BY DEF Next, RunStep, Owners, vars, job, Typed, TypeOK, Scenario, Costs, Edits, Begin, ReadPage, Visit, LookedUp, Write, Skip,
     WriteFails, PageDone, End, Dies, Renew, SeeRenewal, Choose, Rekey, Recategorise, Remove, World, Tick, Due

\* A step of one operator that leaves the lock and the clock alone.
LEMMA HeldSet ==
  ASSUME Typed, Held, job' = job, NEW r \in Run, NEW c \in Chain, Set(r, c), UNCHANGED <<lock, clock>>,
         job = "types" /\ Live(c) => Stands(r, c, lock, clock)
  PROVE  Held'
  <1> SUFFICES ASSUME job = "types" PROVE lock.at <= clock /\ \A s \in Run : Live(run'[s]) => Stands(s, run'[s], lock, clock)
    BY DEF Held
  <1>1. lock.at <= clock
    BY DEF Held
  <1>2. ASSUME NEW s \in Run, Live(run'[s]) PROVE Stands(s, run'[s], lock, clock)
    <2>1. CASE s = r
      <3>1. run'[s] = c
        BY <2>1 DEF Set, Typed, TypeOK
      <3> QED BY <1>2, <2>1, <3>1
    <2>2. CASE s # r
      <3>1. run'[s] = run[s]
        BY <2>2 DEF Set, Typed, TypeOK
      <3> QED BY <1>2, <3>1 DEF Held
    <2> QED BY <2>1, <2>2
  <1> QED BY <1>1, <1>2

\* A call that is over may leave its lock or give it back.
LEMMA HeldReleased ==
  ASSUME Typed, Held, job' = job, NEW r \in Run, NEW c \in Chain, Set(r, c), ~Live(c), lock' \in {lock, Released(r)}, clock' = clock
  PROVE  Held'
  <1> SUFFICES ASSUME job = "types" PROVE lock'.at <= clock /\ \A s \in Run : Live(run'[s]) => Stands(s, run'[s], lock', clock)
    BY DEF Held
  <1>1. lock'.at <= clock
    BY Times DEF Held, Released, NoLock
  <1>2. ASSUME NEW s \in Run, Live(run'[s]) PROVE Stands(s, run'[s], lock', clock)
    <2>1. s # r /\ run'[s] = run[s]
      BY <1>2 DEF Set, Typed, TypeOK
    <2>2. Stands(s, run[s], lock, clock)
      BY <1>2, <2>1 DEF Held
    <2>3. lock' = lock \/ (lock.by = r /\ lock'.by = NoRun)
      BY DEF Released, NoLock
    <2> QED BY <2>1, <2>2, <2>3, Times DEF Stands
  <1> QED BY <1>1, <1>2

LEMMA HeldInit == Init => Held
  BY BackfillConstants DEF Init, Held, NoLock, NoChain, Live

LEMMA HeldStep == Typed /\ Held /\ [Next]_vars => Held'
<1> SUFFICES ASSUME Typed, Held, [Next]_vars PROVE Held'
  OBVIOUS
<1>a. job' = job
  BY JobStays
<1>b. ASSUME NEW r \in Run PROVE run[r] \in Chain /\ (job = "types" /\ Live(run[r]) => Stands(r, run[r], lock, clock))
  BY RunTyped DEF Held
<1>c. Typed'
  BY TypedStep
<1>d. ASSUME NEW r \in Run, Set(r, run'[r]), UNCHANGED <<lock, clock>>, Live(run[r]), run'[r].pc # "looking",
             run'[r].fresh = run[r].fresh, run'[r].sent = run[r].sent, run'[r].beat \in {run[r].beat, "none"}
      PROVE  Held'
  <2>1. job = "types" => Stands(r, run'[r], lock, clock)
    BY <1>b, <1>d DEF Stands
  <2>2. run'[r] \in Chain
    BY <1>c DEF Typed, TypeOK
  <2> QED BY <1>a, <1>d, <2>1, <2>2, HeldSet
<1>e. ASSUME NEW r \in Run, Set(r, run'[r]), ~Live(run'[r]), lock' \in {lock, Released(r)}, clock' = clock PROVE Held'
  <2>1. run'[r] \in Chain
    BY <1>c DEF Typed, TypeOK
  <2> QED BY <1>a, <1>e, <2>1, HeldReleased
<1>f. ASSUME NEW r \in Run, NEW c, Set(r, c) PROVE run'[r] = c /\ Set(r, run'[r])
  BY <1>f DEF Set, Typed, TypeOK
<1>1. ASSUME NEW r \in Run, Begin(r) PROVE Held'
  <2> SUFFICES ASSUME job = "types" PROVE lock'.at <= clock' /\ \A s \in Run : Live(run'[s]) => Stands(s, run'[s], lock', clock')
    BY <1>a DEF Held
  <2>1. clock' = clock /\ lock' = [by |-> r, at |-> clock] /\ Free
    BY <1>1 DEF Begin
  <2>2. lock'.at <= clock' /\ lock'.by = r /\ lock'.at = clock
    BY <2>1, Times
  <2>3. Stands(r, run'[r], lock', clock')
    <3>1. run'[r].fresh = clock /\ run'[r].sent = clock /\ run'[r].beat = "none" /\ run'[r].pc = "read"
      <4> DEFINE c == [run[r] EXCEPT !.pc = "read", !.fresh = clock, !.lost = FALSE, !.beat = "none", !.sent = clock,
                           !.last = 0, !.aborted = FALSE]
      <4>1. c.fresh = clock /\ c.sent = clock /\ c.beat = "none" /\ c.pc = "read"
        BY <1>b DEF Chain
      <4>2. Set(r, c)
        BY <1>1 DEF Begin
      <4> HIDE DEF c
      <4> QED BY <4>1, <4>2, <1>f
    <3> QED BY <2>1, <2>2, <3>1, Times DEF Stands
  <2>4. ASSUME NEW s \in Run, s # r, Live(run'[s]) PROVE Stands(s, run'[s], lock', clock')
    <3>1. run'[s] = run[s]
      BY <1>1, <2>4 DEF Begin, Set, Typed, TypeOK
    <3>2. Stands(s, run[s], lock, clock)
      BY <2>4, <3>1 DEF Held
    <3>3. lock.by = s => clock - lock.at >= LOCK_STALE
      BY <2>1, Times DEF Free
    <3> QED BY <2>1, <2>2, <2>4, <3>1, <3>2, <3>3, Times DEF Stands
  <2> QED BY <2>2, <2>3, <2>4
<1>2. ASSUME NEW r \in Run, ReadPage(r) PROVE Held'
  <2>1. Live(run[r])
    BY <1>2 DEF ReadPage, Live
  <2> DEFINE pc == IF Page(r) = {} THEN "ending" ELSE "work"
             page == Page(r)
             full == Full(page)
             snap == [d \in Docs |-> IF d \in page THEN doc[d] ELSE NoDoc]
             owed == IF run[r].started THEN run[r].owed ELSE {d \in Listed(r) : Wanted(doc[d])}
             c == [run[r] EXCEPT !.pc = pc, !.page = page, !.full = full, !.snap = snap, !.started = TRUE, !.owed = owed]
  <2>2. Set(r, c) /\ c.pc # "looking" /\ c.fresh = run[r].fresh /\ c.sent = run[r].sent /\ c.beat = run[r].beat
    <3>1. pc \in {"ending", "work"} /\ run[r] \in Chain
      BY <1>b
    <3>2. c.pc = pc /\ c.fresh = run[r].fresh /\ c.sent = run[r].sent /\ c.beat = run[r].beat
      <4> HIDE DEF pc, page, full, snap, owed
      <4> QED BY <3>1 DEF Chain
    <3>3. Set(r, c)
      BY <1>2 DEF ReadPage
    <3> HIDE DEF c
    <3> QED BY <3>1, <3>2, <3>3
  <2> HIDE DEF c
  <2> QED BY <1>2, <1>d, <1>f, <2>1, <2>2 DEF ReadPage
<1>3. ASSUME NEW r \in Run, Visit(r) PROVE Held'
  <2>1. UNCHANGED <<lock, clock>> /\ Live(run[r])
    BY <1>3 DEF Visit, Live
  <2>2. CASE Healthy(r)
    <3>1. PICK d \in run[r].page :
            LET want == Wanted(run[r].snap[d])
            IN Set(r, [run[r] EXCEPT !.page = @ \ {d}, !.at = d, !.last = d, !.since = clock,
                          !.pc = IF ~want THEN "work" ELSE IF job \in Paid THEN "looking" ELSE "write",
                          !.tried = IF want THEN @ ELSE @ \cup {d}])
      BY <1>3, <2>2 DEF Visit
    <3> DEFINE want == Wanted(run[r].snap[d])
               rest == run[r].page \ {d}
               pc == IF ~want THEN "work" ELSE IF job \in Paid THEN "looking" ELSE "write"
               tried == IF want THEN run[r].tried ELSE run[r].tried \cup {d}
               c == [run[r] EXCEPT !.page = rest, !.at = d, !.last = d, !.since = clock, !.pc = pc, !.tried = tried]
    <3>2. Set(r, c)
      BY <1>b, <3>1
    <3>3. c.since = clock /\ c.fresh = run[r].fresh /\ c.sent = run[r].sent /\ c.beat = run[r].beat
      <4> HIDE DEF want, rest, pc, tried
      <4> QED BY <1>b DEF Chain
    <3> HIDE DEF c
    <3>4. run'[r] = c /\ Set(r, run'[r])
      BY <3>2, <1>f
    <3>5. job = "types" /\ Live(run'[r]) => Stands(r, run'[r], lock, clock)
      <4> SUFFICES ASSUME job = "types" PROVE Stands(r, run'[r], lock, clock)
        OBVIOUS
      <4>1. Stands(r, run[r], lock, clock) /\ clock - run[r].fresh <= LOCK_STALE - LOCK_SAFETY_MARGIN
        BY <1>b, <2>1, <2>2 DEF Healthy
      <4> QED BY <3>3, <3>4, <4>1, Times DEF Stands
    <3>6. run'[r] \in Chain
      BY <1>c DEF Typed, TypeOK
    <3> QED BY <1>a, <2>1, <3>4, <3>5, <3>6, HeldSet
  <2>3. CASE ~Healthy(r)
    <3> DEFINE c == [run[r] EXCEPT !.aborted = TRUE, !.page = {}, !.pc = "ending"]
    <3>1. Set(r, c)
      BY <1>3, <2>3 DEF Visit
    <3>2. c.pc # "looking" /\ c.fresh = run[r].fresh /\ c.sent = run[r].sent /\ c.beat = run[r].beat
      BY <1>b DEF Chain
    <3> HIDE DEF c
    <3> QED BY <1>d, <1>f, <2>1, <3>1, <3>2
  <2> QED BY <2>2, <2>3
<1>4. ASSUME NEW r \in Run, LookedUp(r) \/ Write(r) \/ Skip(r) \/ WriteFails(r) PROVE Held'
  <2>1. UNCHANGED <<lock, clock>> /\ Live(run[r])
    BY <1>4 DEF LookedUp, Write, Skip, WriteFails, Due, Live
  <2> DEFINE asks == [run[r] EXCEPT !.pc = "write"]
  <2>2. PICK c \in {asks, Done(r), Throws(r)} : Set(r, c)
    BY <1>4 DEF LookedUp, Write, Skip, WriteFails
  <2>3. c.pc # "looking" /\ c.fresh = run[r].fresh /\ c.sent = run[r].sent /\ c.beat \in {run[r].beat, "none"}
    BY <1>b DEF Chain, Done, Throws
  <2> HIDE DEF asks
  <2> QED BY <1>d, <1>f, <2>1, <2>2, <2>3
<1>7. ASSUME NEW r \in Run, PageDone(r) PROVE Held'
  <2>1. Live(run[r])
    BY <1>7 DEF PageDone, Live
  <2> DEFINE more == [run[r] EXCEPT !.pc = "read", !.cursor = run[r].at, !.snap = Unread]
             ends == [run[r] EXCEPT !.pc = "ending", !.snap = Unread]
  <2>2. PICK c \in {more, ends} : Set(r, c)
    BY <1>7 DEF PageDone
  <2>3. c.pc # "looking" /\ c.fresh = run[r].fresh /\ c.sent = run[r].sent /\ c.beat = run[r].beat
    BY <1>b DEF Chain
  <2> QED BY <1>7, <1>d, <1>f, <2>1, <2>2, <2>3 DEF PageDone
<1>8. ASSUME NEW r \in Run, End(r) PROVE Held'
  <2> DEFINE pc == IF (run[r].full /\ job \notin Looping) \/ run[r].aborted THEN "idle" ELSE "over"
             cursor == IF run[r].last # 0 THEN run[r].last ELSE run[r].cursor
             c == [run[r] EXCEPT !.pc = pc, !.cursor = cursor, !.at = 0, !.snap = Unread, !.beat = "none", !.fresh = 0, !.since = 0]
  <2>1. Set(r, c) /\ c.pc \in {"idle", "over"}
    <3>1. Set(r, c)
      BY <1>8, <1>b DEF End
    <3>2. c.pc = pc
      <4> HIDE DEF pc, cursor
      <4> QED BY <1>b DEF Chain
    <3>3. pc \in {"idle", "over"}
      OBVIOUS
    <3> HIDE DEF c, pc
    <3> QED BY <3>1, <3>2, <3>3
  <2> HIDE DEF c
  <2>2. lock' \in {lock, Released(r)} /\ clock' = clock
    BY <1>8 DEF End
  <2> QED BY <1>e, <1>f, <2>1, <2>2 DEF Live
<1>9. ASSUME NEW r \in Run, Dies(r) PROVE Held'
  BY <1>9, <1>e, <1>f, ThrowsTyped DEF Dies, Live
<1>10. ASSUME NEW r \in Run, Renew(r) PROVE Held'
  <2>1. run'[r].pc = run[r].pc /\ run'[r].fresh = run[r].fresh /\ run'[r].since = run[r].since /\ run'[r].sent = clock
        /\ run'[r].beat = IF lock.by = r THEN "renewed" ELSE "lost"
    <3> DEFINE c == [run[r] EXCEPT !.beat = IF lock.by = r THEN "renewed" ELSE "lost", !.sent = clock]
    <3>1. c.pc = run[r].pc /\ c.fresh = run[r].fresh /\ c.since = run[r].since /\ c.sent = clock
          /\ c.beat = IF lock.by = r THEN "renewed" ELSE "lost"
      BY <1>b DEF Chain
    <3>2. Set(r, c)
      BY <1>10 DEF Renew
    <3> HIDE DEF c
    <3> QED BY <3>1, <3>2, <1>f
  <2>2. clock' = clock /\ job = "types" /\ Live(run[r]) /\ lock'.by = lock.by
        /\ lock'.at = IF lock.by = r THEN clock ELSE lock.at
    BY <1>10 DEF Renew, Active, Live, Typed, TypeOK
  <2>3. lock'.at <= clock'
    BY <2>2, Times DEF Held
  <2>4. Stands(r, run'[r], lock', clock')
    BY <1>b, <2>1, <2>2, Times DEF Stands
  <2>5. ASSUME NEW s \in Run, s # r, Live(run'[s]) PROVE Stands(s, run'[s], lock', clock')
    <3>1. run'[s] = run[s]
      BY <1>10, <2>5 DEF Renew, Set, Typed, TypeOK
    <3>2. Stands(s, run[s], lock, clock)
      BY <2>2, <2>5, <3>1 DEF Held
    <3> QED BY <2>2, <2>5, <3>1, <3>2, Times DEF Stands
  <2> QED BY <2>3, <2>4, <2>5 DEF Held
<1>11. ASSUME NEW r \in Run, SeeRenewal(r) PROVE Held'
  <2>1. run'[r].pc = run[r].pc /\ run'[r].since = run[r].since /\ run'[r].sent = run[r].sent /\ run'[r].beat = "none"
        /\ run'[r].fresh = IF run[r].beat = "renewed" THEN clock ELSE run[r].fresh
    <3> DEFINE c == [run[r] EXCEPT !.beat = "none", !.lost = @ \/ run[r].beat = "lost",
                           !.fresh = IF run[r].beat = "renewed" THEN clock ELSE @]
    <3>1. c.pc = run[r].pc /\ c.since = run[r].since /\ c.sent = run[r].sent /\ c.beat = "none"
          /\ c.fresh = IF run[r].beat = "renewed" THEN clock ELSE run[r].fresh
      BY <1>b DEF Chain
    <3>2. Set(r, c)
      BY <1>11 DEF SeeRenewal
    <3> HIDE DEF c
    <3> QED BY <3>1, <3>2, <1>f
  <2>2. UNCHANGED <<lock, clock>> /\ run[r].beat # "none" /\ Set(r, run'[r])
    BY <1>11, <1>f DEF SeeRenewal
  <2>3. job = "types" /\ Live(run'[r]) => Stands(r, run'[r], lock, clock)
    <3> SUFFICES ASSUME job = "types", Live(run'[r]) PROVE Stands(r, run'[r], lock, clock)
      OBVIOUS
    <3>1. Stands(r, run[r], lock, clock)
      BY <1>b, <2>1 DEF Live
    <3> QED BY <2>1, <2>2, <3>1, Times DEF Stands
  <2>4. run'[r] \in Chain
    BY <1>c DEF Typed, TypeOK
  <2> QED BY <1>a, <2>2, <2>3, <2>4, HeldSet
<1>12. ASSUME UNCHANGED <<run, lock, clock>> PROVE Held'
  BY <1>12, <1>a DEF Held
<1>13. CASE Tick
  <2> SUFFICES ASSUME job = "types" PROVE lock'.at <= clock' /\ \A s \in Run : Live(run'[s]) => Stands(s, run'[s], lock', clock')
    BY <1>a DEF Held
  <2>1. clock' = clock + 1 /\ run' = run /\ lock' = lock
    BY <1>13 DEF Tick
  <2>2. ASSUME NEW s \in Run, Live(run[s]) PROVE Stands(s, run[s], lock, clock + 1)
    <3>1. Stands(s, run[s], lock, clock)
      BY <2>2 DEF Held
    <3>2. /\ run[s].pc = "looking" => clock < run[s].since + CALL_TIMEOUT
          /\ run[s].beat # "none" => clock < run[s].sent + Delay
      BY <1>13 DEF Tick
    <3> QED BY <3>1, <3>2, Times DEF Stands
  <2> QED BY <2>1, <2>2, Times DEF Held
<1>14. CASE \E d \in Docs : Choose(d) \/ Rekey(d) \/ Recategorise(d) \/ Remove(d)
  BY <1>12, <1>14 DEF Choose, Rekey, Recategorise, Remove, World
<1>15. CASE UNCHANGED vars
  BY <1>12, <1>15 DEF vars
<1> QED BY <1>1, <1>2, <1>3, <1>4, <1>7, <1>8, <1>9, <1>10, <1>11, <1>13, <1>14, <1>15 DEF Next, RunStep, Owners

LEMMA HeldIsOneSpender == Typed /\ Held => OneSpender
<1> SUFFICES ASSUME Typed, Held, job = "types", NEW r \in Run, NEW s \in Run, run[r].pc = "looking", run[s].pc = "looking"
             PROVE  r = s
  BY DEF OneSpender
<1>1. ASSUME NEW q \in Run, run[q].pc = "looking" PROVE lock.by = q
  <2>1. Stands(q, run[q], lock, clock)
    BY <1>1 DEF Held, Live
  <2> QED BY <1>1, <2>1, Times, BackfillConstants DEF Stands
<1> QED BY <1>1

\* Two runs of the paid job never pay for answers at the same time, however
\* many operators start calls, heartbeats fail or come late and processes die.
THEOREM OneSpenderHolds == Spec => []OneSpender
<1>1. Init => Typed /\ Held
  BY TypedInit, HeldInit
<1>2. Typed /\ Held /\ [Next]_vars => (Typed /\ Held)'
  BY TypedStep, HeldStep
<1>3. Spec => [](Typed /\ Held)
  BY <1>1, <1>2, PTL DEF Spec
<1> QED BY <1>3, HeldIsOneSpender, PTL

-----------------------------------------------------------------------------
(* The owners' edits *)

\* A document is looked up and written because nothing settled it on the page.
Sought == \A r \in Run : run[r].pc \in {"looking", "write"} => ~Settled(run[r].snap[run[r].at])

LEMMA SoughtInit == Init => Sought
  BY DEF Init, Sought, NoChain

LEMMA SoughtSet ==
  ASSUME Typed, Sought, job' = job, NEW r \in Run, NEW c, Set(r, c), c.pc \in {"looking", "write"} => ~Settled(c.snap[c.at])
  PROVE  Sought'
<1>1. ASSUME NEW s \in Run, run'[s].pc \in {"looking", "write"} PROVE ~Settled(run'[s].snap[run'[s].at])
  <2>1. CASE s = r
    <3>1. run'[s] = c
      BY <2>1 DEF Set, Typed, TypeOK
    <3> QED BY <1>1, <3>1
  <2>2. CASE s # r
    <3>1. run'[s] = run[s]
      BY <2>2 DEF Set, Typed, TypeOK
    <3> QED BY <1>1, <3>1 DEF Sought
  <2> QED BY <2>1, <2>2
<1> QED BY <1>1 DEF Sought, Settled

LEMMA SoughtStep == Typed /\ Sought /\ [Next]_vars => Sought'
<1> SUFFICES ASSUME Typed, Sought, [Next]_vars PROVE Sought'
  OBVIOUS
<1>a. job' = job
  BY JobStays
<1>b. ASSUME NEW r \in Run PROVE run[r] \in Chain
  BY RunTyped
<1>1. ASSUME NEW r \in Run, NEW c, Set(r, c), c.pc \notin {"looking", "write"} PROVE Sought'
  BY <1>a, <1>1, SoughtSet
<1>2. ASSUME NEW r \in Run, Begin(r) \/ ReadPage(r) PROVE Sought'
  <2>1. CASE Begin(r)
    <3> DEFINE c == [run[r] EXCEPT !.pc = "read", !.fresh = clock, !.lost = FALSE, !.beat = "none", !.sent = clock,
                           !.last = 0, !.aborted = FALSE]
    <3>1. Set(r, c) /\ c.pc = "read"
      BY <1>b, <2>1 DEF Begin, Chain
    <3> HIDE DEF c
    <3> QED BY <1>1, <3>1
  <2>2. CASE ReadPage(r)
    <3> DEFINE pc == IF Page(r) = {} THEN "ending" ELSE "work"
               full == Full(Page(r))
               snap == [d \in Docs |-> IF d \in Page(r) THEN doc[d] ELSE NoDoc]
               owed == IF run[r].started THEN run[r].owed ELSE {d \in Listed(r) : Wanted(doc[d])}
               c == [run[r] EXCEPT !.pc = pc, !.page = Page(r), !.full = full, !.snap = snap, !.started = TRUE, !.owed = owed]
    <3>1. Set(r, c) /\ pc \in {"ending", "work"}
      BY <2>2 DEF ReadPage
    <3> HIDE DEF pc, full, snap, owed
    <3>2. c.pc = pc
      BY <1>b DEF Chain
    <3> HIDE DEF c
    <3> QED BY <1>1, <3>1, <3>2
  <2> QED BY <1>2, <2>1, <2>2
<1>3. ASSUME NEW r \in Run, Visit(r) PROVE Sought'
  <2>1. PICK d \in run[r].page :
          IF Healthy(r)
          THEN LET want == Wanted(run[r].snap[d])
               IN Set(r, [run[r] EXCEPT !.page = @ \ {d}, !.at = d, !.last = d, !.since = clock,
                          !.pc = IF ~want THEN "work" ELSE IF job \in Paid THEN "looking" ELSE "write",
                          !.tried = IF want THEN @ ELSE @ \cup {d}])
          ELSE Set(r, [run[r] EXCEPT !.aborted = TRUE, !.page = {}, !.pc = "ending"])
    BY <1>3 DEF Visit
  <2>2. CASE Healthy(r)
    <3> DEFINE want == Wanted(run[r].snap[d])
               pc == IF ~want THEN "work" ELSE IF job \in Paid THEN "looking" ELSE "write"
               tried == IF want THEN run[r].tried ELSE run[r].tried \cup {d}
               c == [run[r] EXCEPT !.page = run[r].page \ {d}, !.at = d, !.last = d, !.since = clock, !.pc = pc, !.tried = tried]
    <3>1. Set(r, c) /\ (pc \in {"looking", "write"} => ~Settled(run[r].snap[d]))
      BY <2>1, <2>2 DEF Wanted
    <3> HIDE DEF want, pc, tried
    <3>2. c.pc = pc /\ c.at = d /\ c.snap = run[r].snap
      BY <1>b DEF Chain
    <3> HIDE DEF c
    <3> QED BY <1>a, <3>1, <3>2, SoughtSet
  <2>3. CASE ~Healthy(r)
    <3> DEFINE c == [run[r] EXCEPT !.aborted = TRUE, !.page = {}, !.pc = "ending"]
    <3>1. Set(r, c) /\ c.pc = "ending"
      BY <1>b, <2>1, <2>3 DEF Chain
    <3> HIDE DEF c
    <3> QED BY <1>1, <3>1
  <2> QED BY <2>2, <2>3
<1>4. ASSUME NEW r \in Run, LookedUp(r) PROVE Sought'
  <2> DEFINE c == [run[r] EXCEPT !.pc = "write"]
  <2>1. Set(r, c) \/ Set(r, Done(r))
    BY <1>4 DEF LookedUp
  <2>2. c.at = run[r].at /\ c.snap = run[r].snap /\ ~Settled(run[r].snap[run[r].at])
    BY <1>4, <1>b DEF LookedUp, Chain, Sought
  <2>3. Done(r).pc = "work"
    BY <1>4, DoneTyped DEF LookedUp, Typed, BusyWith
  <2> HIDE DEF c
  <2> QED BY <1>1, <1>a, <2>1, <2>2, <2>3, SoughtSet
<1>5. ASSUME NEW r \in Run, Write(r) \/ Skip(r) \/ WriteFails(r) \/ Dies(r) PROVE Sought'
  <2>1. Set(r, Throws(r)) \/ (Set(r, Done(r)) /\ run[r].at \in Docs)
    BY <1>5 DEF Write, Skip, WriteFails, Dies, Due, Typed, BusyWith
  <2>2. Throws(r).pc = "idle" /\ (run[r].at \in Docs => Done(r).pc = "work")
    BY ThrowsTyped, DoneTyped
  <2> QED BY <1>1, <2>1, <2>2
<1>6. ASSUME NEW r \in Run, PageDone(r) \/ End(r) PROVE Sought'
  <2> DEFINE more == [run[r] EXCEPT !.pc = "read", !.cursor = run[r].at, !.snap = Unread]
             ends == [run[r] EXCEPT !.pc = "ending", !.snap = Unread]
             pc == IF (run[r].full /\ job \notin Looping) \/ run[r].aborted THEN "idle" ELSE "over"
             cursor == IF run[r].last # 0 THEN run[r].last ELSE run[r].cursor
             over == [run[r] EXCEPT !.pc = pc, !.cursor = cursor, !.at = 0, !.snap = Unread, !.beat = "none", !.fresh = 0, !.since = 0]
  <2>1. Set(r, more) \/ Set(r, ends) \/ Set(r, over)
    BY <1>6 DEF PageDone, End
  <2>2. pc \in {"idle", "over"}
    OBVIOUS
  <2> HIDE DEF pc, cursor
  <2>3. more.pc = "read" /\ ends.pc = "ending" /\ over.pc = pc
    BY <1>b DEF Chain
  <2> HIDE DEF more, ends, over
  <2> QED BY <1>1, <2>1, <2>2, <2>3
<1>7. ASSUME NEW r \in Run, Renew(r) \/ SeeRenewal(r) PROVE Sought'
  <2> DEFINE sent == [run[r] EXCEPT !.beat = IF lock.by = r THEN "renewed" ELSE "lost", !.sent = clock]
             seen == [run[r] EXCEPT !.beat = "none", !.lost = @ \/ run[r].beat = "lost",
                               !.fresh = IF run[r].beat = "renewed" THEN clock ELSE @]
  <2>1. Set(r, sent) \/ Set(r, seen)
    BY <1>7 DEF Renew, SeeRenewal
  <2>2. ASSUME NEW c \in {sent, seen} PROVE c.pc = run[r].pc /\ c.at = run[r].at /\ c.snap = run[r].snap
    <3>1. CASE c = sent
      BY <1>b, <3>1 DEF Chain
    <3>2. CASE c = seen
      BY <1>b, <3>2 DEF Chain
    <3> QED BY <2>2, <3>1, <3>2
  <2> HIDE DEF sent, seen
  <2>3. PICK c \in {sent, seen} : Set(r, c)
    BY <2>1
  <2>4. c.pc \in {"looking", "write"} => ~Settled(c.snap[c.at])
    BY <2>2 DEF Sought
  <2> QED BY <1>a, <2>3, <2>4, SoughtSet
<1>8. CASE Owners \/ Tick \/ UNCHANGED vars
  <2>1. UNCHANGED run
    BY <1>8 DEF Owners, Choose, Rekey, Recategorise, Remove, World, Tick, vars
  <2> QED BY <1>a, <2>1 DEF Sought, Settled
<1> QED BY <1>2, <1>3, <1>4, <1>5, <1>6, <1>7, <1>8 DEF Next, RunStep

\* What a step makes of the value of a document, and of who settled it.
Heeds(d) ==
  /\ job \notin {"meals", "profiles"} /\ doc[d].by = "client" /\ Settled(doc[d]) /\ doc'[d].there => doc'[d].by = "client"
  /\ job \in {"category", "images"} /\ doc'[d].by = "run" /\ doc'[d].value # doc[d].value => doc'[d].value = doc[d].key
  /\ doc'[d].by = "run" /\ doc[d].by # "run" => doc[d].there /\ ~left.dry

\* A write fills in a document that nobody settled since its page was read.
LEMMA WriteHeeds ==
  ASSUME Typed, Sought, NEW r \in Run, Write(r), NEW d \in Docs
  PROVE  Heeds(d)
<1> DEFINE v == Result(doc[At(r)], run[r].snap[At(r)])
<1>1. At(r) \in Docs /\ doc' = [doc EXCEPT ![At(r)] = [doc[At(r)] EXCEPT !.value = v, !.by = "run"]]
  BY DEF Write, Due, Typed, BusyWith, At, TypeOK
<1>2. CASE d # At(r)
  <2>1. doc'[d] = doc[d]
    BY <1>1, <1>2 DEF Typed, TypeOK
  <2> QED BY <2>1 DEF Heeds
<1>3. CASE d = At(r)
  <2>1. doc'[d] = [doc[d] EXCEPT !.value = v, !.by = "run"] /\ doc[d] \in Document
    BY <1>1, <1>3 DEF Typed, TypeOK
  <2>2. ~left.dry /\ Writes(doc[d], run[r].snap[d]) /\ ~Settled(run[r].snap[d])
    BY <1>3 DEF Write, Holds, Due, Sought, At
  <2>3. job \in Job
    BY DEF Typed, TypeOK, Scenario, job
  <2>4. job \notin {"meals", "profiles"} => ~Settled(doc[d])
    <3>1. CASE job = "images"
      BY <2>2, <3>1 DEF Writes, Settled
    <3>2. CASE job \in {"types", "category", "home"}
      BY <2>2, <3>2 DEF Writes
    <3> QED BY <2>3, <3>1, <3>2 DEF Job
  <2>5. doc'[d].value = v
    <3> HIDE DEF v
    <3> QED BY <2>1 DEF Document
  <2>6. job \in {"category", "images"} => v = doc[d].key
    BY <1>3, <2>2 DEF Writes, Result, Derived, Patch
  <2> QED BY <2>2, <2>4, <2>5, <2>6 DEF Heeds, Writes
<1> QED BY <1>2, <1>3

LEMMA StepHeeds ==
  ASSUME Typed, Sought, [Next]_vars, NEW d \in Docs
  PROVE  Heeds(d)
<1>0. doc \in [Docs -> Document] /\ doc[d] \in Document
  BY DEF Typed, TypeOK
<1>1. ASSUME NEW r \in Run, Write(r) PROVE Heeds(d)
  BY <1>1, WriteHeeds
<1>2. CASE doc'[d] = doc[d]
  BY <1>2 DEF Heeds
<1>3. ASSUME NEW r \in Run, RunStep(r) PROVE UNCHANGED doc \/ Write(r)
  BY <1>3 DEF RunStep, Begin, ReadPage, Visit, LookedUp, Skip, WriteFails, PageDone, End, Dies, Renew, SeeRenewal, Costs
<1>4. ASSUME NEW e \in Docs, Choose(e) \/ Rekey(e) \/ Recategorise(e) \/ Remove(e) PROVE Heeds(d)
  <2>1. CASE e # d
    BY <1>0, <1>2, <1>4, <2>1 DEF Choose, Rekey, Recategorise, Remove
  <2>2. CASE e = d /\ Choose(e)
    <3>1. PICK k \in Keys : doc' = [doc EXCEPT ![d].key = k, ![d].value = k, ![d].by = "client"]
      BY <2>2 DEF Choose
    <3>2. doc'[d] = [doc[d] EXCEPT !.key = k, !.value = k, !.by = "client"]
      BY <1>0, <3>1
    <3>3. doc'[d].by = "client"
      BY <1>0, <3>2 DEF Document
    <3> QED BY <3>3 DEF Heeds
  <2>3. CASE e = d /\ Rekey(e)
    <3>1. PICK k \in Keys : doc' = [doc EXCEPT ![d].key = k]
      BY <2>3 DEF Rekey
    <3>2. doc'[d] = [doc[d] EXCEPT !.key = k]
      BY <1>0, <3>1
    <3>3. doc'[d].by = doc[d].by /\ doc'[d].value = doc[d].value
      BY <1>0, <3>2 DEF Document
    <3> QED BY <3>3 DEF Heeds
  <2>4. CASE e = d /\ Recategorise(e)
    <3>1. doc'[d] = [doc[d] EXCEPT !.cohort = FALSE]
      BY <1>0, <2>4 DEF Recategorise
    <3>2. doc'[d].by = doc[d].by /\ doc'[d].value = doc[d].value
      BY <1>0, <3>1 DEF Document
    <3> QED BY <3>2 DEF Heeds
  <2>5. CASE e = d /\ Remove(e)
    <3>1. ~doc'[d].there /\ doc'[d].by = "nobody"
      BY <1>0, <2>5 DEF Remove, NoDoc
    <3> QED BY <3>1 DEF Heeds
  <2> QED BY <1>4, <2>1, <2>2, <2>3, <2>4, <2>5
<1>5. CASE Tick \/ UNCHANGED vars
  BY <1>2, <1>5 DEF Tick, vars
<1> QED BY <1>1, <1>2, <1>3, <1>4, <1>5 DEF Next, Owners

\* In the types, category, home and images jobs no step of a run takes back what
\* an owner settled, be it while the run looked the document up; a category or
\* thumbnail is filled in only for the types and link the pin has by then, and
\* nothing is by a dry run or for a document that was removed.
THEOREM EditsHold == Spec => EditsPrevail
<1>1. Init => Typed /\ Sought
  BY TypedInit, SoughtInit
<1>2. (Typed /\ Sought) /\ [Next]_vars => (Typed /\ Sought)'
  BY TypedStep, SoughtStep
<1>3. (Typed /\ Sought) /\ [Next]_vars => [\A d \in Docs :
  /\ job \notin {"meals", "profiles"} /\ doc[d].by = "client" /\ Settled(doc[d]) /\ doc'[d].there => doc'[d].by = "client"
  /\ job \in {"category", "images"} /\ doc'[d].by = "run" /\ doc'[d].value # doc[d].value => doc'[d].value = doc[d].key
  /\ doc'[d].by = "run" /\ doc[d].by # "run" => doc[d].there /\ ~left.dry]_vars
  BY StepHeeds DEF Heeds
<1>4. Spec => [](Typed /\ Sought)
  BY <1>1, <1>2, PTL DEF Spec
<1> QED BY <1>3, <1>4, PTL DEF Spec, EditsPrevail
-----------------------------------------------------------------------------
(* The pages *)

\* A page leaves nothing out below its last document, and one that leaves
\* anything out is full.
LEMMA PageFromTheFront ==
  ASSUME NEW r \in Run
  PROVE  /\ \A d \in Listed(r) \ Page(r), e \in Page(r) : e < d
         /\ Listed(r) \ Page(r) # {} => Full(Page(r)) /\ Page(r) # {}
<1> DEFINE L == Listed(r)
           P == Page(r)
           UpTo(d) == {e \in L : e <= d}
           Rank(d) == Cardinality(UpTo(d))
<1>1. L \subseteq Nat /\ IsFiniteSet(L) /\ P \subseteq L /\ PageSize \in Nat \ {0}
  BY BackfillConstants, FS_Subset DEF Listed, Page
<1>2. P = {d \in L : Rank(d) <= PageSize}
  BY DEF Page
<1> HIDE DEF L, P
<1>3. ASSUME NEW d \in L PROVE IsFiniteSet(UpTo(d)) /\ Rank(d) \in Nat
  <2>1. UpTo(d) \subseteq L
    OBVIOUS
  <2> QED BY <1>1, <2>1, FS_Subset, FS_CardinalityType
<1>4. ASSUME NEW d \in L, NEW e \in L, d <= e PROVE Rank(d) <= Rank(e)
  <2>1. UpTo(d) \subseteq UpTo(e)
    <3> SUFFICES ASSUME NEW y \in UpTo(d) PROVE y \in UpTo(e)
      OBVIOUS
    <3>1. y \in L /\ y <= d /\ y \in Nat /\ d \in Nat /\ e \in Nat
      BY <1>1
    <3>2. y <= e
      BY <1>4, <3>1
    <3> QED BY <3>1, <3>2
  <2>2. IsFiniteSet(UpTo(e)) /\ UpTo(d) \in SUBSET UpTo(e)
    BY <1>3, <2>1
  <2> HIDE DEF UpTo
  <2> QED BY <2>2, FS_Subset
<1>5. ASSUME NEW d \in L \ P, NEW e \in P PROVE e < d
  <2>1. d \in L /\ e \in L /\ d \in Nat /\ e \in Nat
    BY <1>1
  <2>2. Rank(d) \in Nat /\ Rank(e) \in Nat /\ Rank(e) <= PageSize /\ ~ (Rank(d) <= PageSize)
    BY <1>2, <1>3, <2>1
  <2>3. ~ (d <= e)
    <3> HIDE DEF Rank
    <3> QED BY <1>1, <1>4, <2>1, <2>2
  <2> QED BY <2>1, <2>3
<1>6. ASSUME L \ P # {} PROVE Cardinality(P) = PageSize
  <2>1. PICK m \in L \ P : \A y \in L \ P : m <= y
    <3>1. L \ P \in SUBSET Nat
      BY <1>1
    <3> QED BY <1>6, <3>1, Least
  <2>2. UpTo(m) = P \cup {m}
    <3>1. m \in L /\ m \in Nat /\ P \subseteq L /\ L \subseteq Nat
      BY <1>1
    <3>2. ASSUME NEW e \in UpTo(m) PROVE e \in P \cup {m}
      BY <2>1, <3>1
    <3>3. ASSUME NEW e \in P PROVE e \in UpTo(m)
      BY <1>5, <3>1
    <3>4. m \in UpTo(m)
      BY <3>1
    <3> HIDE DEF UpTo
    <3> QED BY <3>2, <3>3, <3>4
  <2>3. IsFiniteSet(P) /\ Cardinality(P) \in Nat
    BY <1>1, FS_Subset, FS_CardinalityType
  <2>4. Rank(m) = Cardinality(P) + 1
    <3>1. Cardinality(P \cup {m}) = Cardinality(P) + 1
      BY <2>1, <2>3, FS_AddElement
    <3> HIDE DEF UpTo
    <3> QED BY <2>2, <3>1
  <2>5. ~ (Rank(m) <= PageSize)
    BY <1>2, <2>1
  <2>6. Cardinality(P) >= PageSize
    BY <1>1, <2>3, <2>4, <2>5
  <2>7. Cardinality(P) <= PageSize
    <3>1. P # {}
      BY <1>1, <2>6, FS_EmptySet
    <3> DEFINE Room == {PageSize - Rank(d) : d \in P}
    <3>2. \A d \in P : Rank(d) \in Nat /\ Rank(d) <= PageSize
      BY <1>1, <1>2, <1>3
    <3>3. Room \in SUBSET Nat /\ Room # {}
      <4> HIDE DEF Rank
      <4>1. ASSUME NEW k \in Room PROVE k \in Nat
        <5>1. PICK d \in P : k = PageSize - Rank(d)
          OBVIOUS
        <5> QED BY <1>1, <3>2, <5>1
      <4> QED BY <3>1, <4>1
    <3>4. PICK n \in Room : \A k \in Room : n <= k
      <4> HIDE DEF Room
      <4> QED BY <3>3, Least
    <3>5. PICK x \in P : n = PageSize - Rank(x)
      BY <3>4
    <3>6. \A e \in P : Rank(e) <= Rank(x)
      <4> HIDE DEF Rank
      <4> QED BY <1>1, <3>2, <3>4, <3>5
    <3>7. ASSUME NEW e \in P PROVE e <= x
      <4> SUFFICES ASSUME ~ (e <= x) PROVE FALSE
        OBVIOUS
      <4>1. e \in L /\ x \in L /\ e \in Nat /\ x \in Nat /\ x < e
        BY <1>1
      <4>2. UpTo(x) \subseteq UpTo(e) /\ e \in UpTo(e) /\ e \notin UpTo(x)
        <5>1. ASSUME NEW y \in UpTo(x) PROVE y \in UpTo(e)
          <6>1. y \in L /\ y <= x /\ y \in Nat
            BY <1>1
          <6>2. y <= e
            BY <4>1, <6>1
          <6> QED BY <6>1, <6>2
        <5>2. e \in UpTo(e) /\ e \notin UpTo(x)
          BY <4>1
        <5> HIDE DEF UpTo
        <5> QED BY <5>1, <5>2
      <4>3. Rank(x) <= Rank(e) /\ Rank(e) # Rank(x)
        <5>1. IsFiniteSet(UpTo(e)) /\ UpTo(x) \in SUBSET UpTo(e) /\ UpTo(x) # UpTo(e)
          BY <1>3, <4>1, <4>2
        <5> HIDE DEF UpTo
        <5> QED BY <5>1, FS_Subset
      <4> HIDE DEF Rank
      <4> QED BY <3>2, <3>6, <4>1, <4>3
    <3>8. P \subseteq UpTo(x)
      BY <1>1, <3>7
    <3>9. Cardinality(P) <= Rank(x)
      BY <1>1, <1>3, <3>8, FS_Subset
    <3> HIDE DEF Rank
    <3> QED BY <1>1, <2>3, <3>2, <3>9
  <2> QED BY <1>1, <2>3, <2>6, <2>7
<1>7. ASSUME L \ P # {} PROVE P # {}
  BY <1>1, <1>6, <1>7, FS_EmptySet
<1> QED BY <1>5, <1>6, <1>7 DEF L, P, Full
\* What a chain has still to get to, of what it found to do when it started and
\* no error has cut off.
Open(c, docs) == {d \in c.owed \ (c.tried \cup c.cut) : docs[d].there /\ docs[d].cohort}

\* Its page has document d, it is at d, or a full page ends before d.
Turn(c, d) == \/ d \in c.page
              \/ c.pc \in {"looking", "write"} /\ d = c.at
              \/ c.full /\ d > c.at /\ \A e \in c.page : e < d

\* What a chain has to get to lies ahead of it.
Sweeps(c, docs) ==
  /\ ~c.started => c.owed = {}
  /\ c.pc = "idle" => c.at = 0
  /\ c.pc = "read" => c.at <= c.cursor
  /\ Live(c) => c.last = c.at
  /\ c.pc \notin {"work", "looking", "write"} => c.page = {}
  /\ c.pc # "over" => \A d \in Open(c, docs) : d > c.cursor
  /\ c.pc \in {"work", "looking", "write"} => (\A e \in c.page : e > c.at) /\ \A d \in Open(c, docs) : Turn(c, d)
  /\ c.pc = "ending" => \A d \in Open(c, docs) : d > c.last
  /\ c.pc = "ending" => c.aborted \/ (c.full /\ job \notin Looping) \/ Open(c, docs) = {}
  /\ c.pc = "over" => Open(c, docs) = {}

Swept == \A r \in Run : Sweeps(run[r], doc)

LEMMA SweptInit == Init => Swept
  BY DEF Init, Swept, Sweeps, NoChain, Live, Open

\* A document that left the cohort, or was removed, does not come back.
LEMMA GoneStays ==
  ASSUME Typed, [Next]_vars, NEW d \in Docs, doc'[d].there, doc'[d].cohort
  PROVE  doc[d].there /\ doc[d].cohort
<1>0. doc[d] \in Document /\ doc \in [Docs -> Document]
  BY DEF Typed, TypeOK
<1>1. ASSUME NEW r \in Run, Write(r) PROVE doc'[d].there = doc[d].there /\ doc'[d].cohort = doc[d].cohort
  <2> DEFINE v == Result(doc[At(r)], run[r].snap[At(r)])
  <2>1. doc' = [doc EXCEPT ![At(r)].value = v, ![At(r)].by = "run"]
    BY <1>1 DEF Write
  <2> HIDE DEF v
  <2>2. CASE At(r) = d
    <3>1. doc'[d] = [doc[d] EXCEPT !.value = v, !.by = "run"]
      BY <1>0, <2>1, <2>2
    <3> QED BY <1>0, <3>1 DEF Document
  <2>3. CASE At(r) # d
    BY <1>0, <2>1, <2>3
  <2> QED BY <2>2, <2>3
<1>2. ASSUME NEW e \in Docs, Choose(e) \/ Rekey(e) \/ Recategorise(e) \/ Remove(e) PROVE doc[d].there /\ doc[d].cohort
  <2>1. CASE e # d
    BY <1>0, <1>2, <2>1 DEF Choose, Rekey, Recategorise, Remove
  <2>2. CASE e = d /\ Choose(e)
    <3>1. PICK k \in Keys : doc' = [doc EXCEPT ![d].key = k, ![d].value = k, ![d].by = "client"]
      BY <2>2 DEF Choose
    <3>2. doc'[d] = [doc[d] EXCEPT !.key = k, !.value = k, !.by = "client"]
      BY <1>0, <3>1
    <3> QED BY <1>0, <3>2 DEF Document
  <2>3. CASE e = d /\ Rekey(e)
    <3>1. PICK k \in Keys : doc' = [doc EXCEPT ![d].key = k]
      BY <2>3 DEF Rekey
    <3>2. doc'[d] = [doc[d] EXCEPT !.key = k]
      BY <1>0, <3>1
    <3> QED BY <1>0, <3>2 DEF Document
  <2>4. CASE e = d /\ Recategorise(e)
    BY <1>0, <2>4 DEF Recategorise, Document
  <2>5. CASE e = d /\ Remove(e)
    BY <1>0, <2>5 DEF Remove, NoDoc
  <2> QED BY <1>2, <2>1, <2>2, <2>3, <2>4, <2>5
<1>3. CASE UNCHANGED doc
  BY <1>3
<1>4. ASSUME NEW r \in Run, RunStep(r) PROVE UNCHANGED doc \/ Write(r)
  BY <1>4 DEF RunStep, Begin, ReadPage, Visit, LookedUp, Skip, WriteFails, PageDone, End, Dies, Renew, SeeRenewal, Costs
<1>5. CASE Tick \/ UNCHANGED vars
  BY <1>3, <1>5 DEF Tick, vars
<1> QED BY <1>1, <1>2, <1>3, <1>4, <1>5 DEF Next, Owners

\* With less to get to, a chain is still on its way.
LEMMA SweepsLess ==
  ASSUME NEW c, NEW docs, NEW less, Sweeps(c, docs), Open(c, less) \subseteq Open(c, docs)
  PROVE  Sweeps(c, less)
  BY DEF Sweeps

\* The call of a chain that stops part of the way.
LEMMA ThrowsSweeps ==
  ASSUME Typed, NEW r \in Run, Sweeps(run[r], doc), Live(run[r])
  PROVE  Sweeps(Throws(r), doc)
<1> DEFINE t == Throws(r)
           c == run[r]
<1>1. c \in Chain /\ c.owed \subseteq Docs /\ Docs \subseteq Nat \ {0} /\ c.at \in Nat /\ c.page \subseteq Docs
  BY RunTyped, BackfillConstants DEF Chain
<1>2. /\ t.pc = "idle" /\ t.at = 0 /\ t.owed = c.owed /\ t.tried = c.tried /\ t.started = c.started /\ t.cursor = Resumes(r) /\ t.page = {}
      /\ t.cut = IF job = "images" THEN c.cut \cup Unfinished(r) ELSE c.cut
  BY <1>1 DEF Throws, Chain
<1> HIDE DEF t
<1>3. Open(t, doc) \subseteq Open(c, doc) /\ Open(c, doc) \subseteq Docs
  BY <1>1, <1>2 DEF Open
<1>4. ASSUME NEW d \in Open(t, doc) PROVE d > Resumes(r)
  <2>1. d \in Open(c, doc) /\ d \in Docs /\ d \in Nat /\ d > 0 /\ d > c.cursor
    <3>1. d \in Open(c, doc) /\ d \in Docs
      BY <1>3
    <3>2. d \in Nat /\ d > 0
      BY <1>1, <3>1
    <3>3. d > c.cursor
      BY <3>1 DEF Sweeps, Live
    <3> QED BY <3>1, <3>2, <3>3
  <2>2. CASE Resumes(r) \in {0, c.cursor}
    BY <2>1, <2>2
  <2>3. CASE Resumes(r) \notin {0, c.cursor}
    <3>1. job = "images" /\ Resumes(r) \in Unfinished(r) /\ d \notin Unfinished(r)
      BY <1>2, <2>3, ResumesIs DEF Open
    <3>2. d \notin c.page /\ d # c.at /\ Resumes(r) \in c.page \cup {c.at}
      BY <2>1, <3>1 DEF Unfinished
    <3>3. CASE c.pc \in {"work", "looking", "write"}
      <4>1. Turn(c, d)
        BY <2>1, <3>3 DEF Sweeps
      <4> QED BY <3>2, <4>1 DEF Turn
    <3>4. CASE c.pc \notin {"work", "looking", "write"}
      <4>1. Resumes(r) = c.at
        BY <3>2, <3>4 DEF Sweeps
      <4>2. c.pc \in {"read", "ending"}
        BY <1>1, <3>4 DEF Live, Chain
      <4>3. c.cursor \in Nat
        BY <1>1 DEF Chain
      <4> QED BY <1>1, <2>1, <4>1, <4>2, <4>3 DEF Sweeps, Live
    <3> QED BY <3>3, <3>4
  <2> QED BY <2>2, <2>3
<1>5. c.owed = {} => Open(t, doc) = {}
  BY <1>2 DEF Open
<1>6. Sweeps(t, doc)
  BY <1>2, <1>4 DEF Sweeps, Live
<1> QED BY <1>6 DEF t

\* A document of the page that has been dealt with.
LEMMA DoneSweeps ==
  ASSUME Typed, NEW r \in Run, Sweeps(run[r], doc), run[r].pc \in {"looking", "write"}
  PROVE  Sweeps(Done(r), doc)
<1>1. run[r] \in Chain
  BY RunTyped
<1> DEFINE t == Done(r)
           c == run[r]
<1>2. t.pc = "work" /\ t.at = c.at /\ t.owed = c.owed /\ t.tried = c.tried \cup {c.at} /\ t.started = c.started
      /\ t.cursor = c.cursor /\ t.page = c.page /\ t.full = c.full /\ t.last = c.last /\ t.cut = c.cut
  BY <1>1 DEF Done, Chain
<1> HIDE DEF t
<1>3. Open(t, doc) = Open(c, doc) \ {c.at}
  BY <1>2 DEF Open
<1>4. ASSUME NEW d \in Open(t, doc) PROVE Turn(t, d)
  <2>1. d \in Open(c, doc) /\ d # c.at
    BY <1>3
  <2>2. Turn(c, d)
    BY <2>1 DEF Sweeps
  <2> QED BY <1>2, <2>1, <2>2 DEF Turn
<1>5. Sweeps(t, doc)
  <2>1. Live(t) /\ Live(c)
    BY <1>2 DEF Live
  <2> QED BY <1>2, <1>3, <1>4, <2>1 DEF Sweeps
<1> QED BY <1>5 DEF t
LEMMA SweptStep == Typed /\ Swept /\ [Next]_vars => Swept'
<1> SUFFICES ASSUME Typed, Swept, [Next]_vars PROVE Swept'
  OBVIOUS
<1>a. job' = job /\ Typed'
  BY JobStays, TypedStep
<1>b. ASSUME NEW r \in Run PROVE run[r] \in Chain /\ Sweeps(run[r], doc)
  BY RunTyped DEF Swept
<1>c. ASSUME \A r \in Run : Sweeps(run'[r], doc) PROVE Swept'
  <2>1. ASSUME NEW r \in Run PROVE Sweeps(run'[r], doc')
    <3>1. run'[r].owed \subseteq Docs
      BY <1>a DEF Typed, TypeOK, Chain
    <3>2. Open(run'[r], doc') \subseteq Open(run'[r], doc)
      BY <3>1, GoneStays DEF Open
    <3> QED BY <1>c, <3>2, SweepsLess
  <2> QED BY <1>a, <2>1 DEF Swept, Sweeps
<1>d. ASSUME NEW r \in Run, NEW c, Set(r, c), Sweeps(c, doc) PROVE Swept'
  <2>1. ASSUME NEW s \in Run PROVE Sweeps(run'[s], doc)
    BY <1>b, <1>d DEF Set, Typed, TypeOK
  <2> QED BY <1>c, <2>1
<1>1. ASSUME NEW r \in Run, Begin(r) PROVE Swept'
  <2> DEFINE t == [run[r] EXCEPT !.pc = "read", !.fresh = clock, !.lost = FALSE, !.beat = "none", !.sent = clock,
                           !.last = 0, !.aborted = FALSE]
  <2>1. t.pc = "read" /\ t.at = run[r].at /\ t.last = 0 /\ t.owed = run[r].owed /\ t.tried = run[r].tried
        /\ t.cut = run[r].cut /\ t.page = run[r].page
        /\ t.started = run[r].started /\ t.cursor = run[r].cursor /\ run[r].cursor \in Nat
    BY <1>b DEF Chain
  <2>2. Set(r, t) /\ run[r].pc = "idle"
    BY <1>1 DEF Begin
  <2> HIDE DEF t
  <2>3. Open(t, doc) = Open(run[r], doc)
    BY <2>1 DEF Open
  <2>4. Sweeps(t, doc)
    BY <1>b, <2>1, <2>2, <2>3 DEF Sweeps, Live
  <2> QED BY <1>d, <2>2, <2>4
<1>2. ASSUME NEW r \in Run, ReadPage(r) PROVE Swept'
  <2> DEFINE page == Page(r)
             c == run[r]
             pc == IF page = {} THEN "ending" ELSE "work"
             snap == [d \in Docs |-> IF d \in page THEN doc[d] ELSE NoDoc]
             owed == IF c.started THEN c.owed ELSE {d \in Listed(r) : Wanted(doc[d])}
             t == [c EXCEPT !.pc = pc, !.page = page, !.full = Full(page), !.snap = snap, !.started = TRUE, !.owed = owed]
  <2>1. c \in Chain /\ c.pc = "read" /\ Sweeps(c, doc)
    BY <1>2, <1>b DEF ReadPage
  <2>2. Set(r, t)
    BY <1>2 DEF ReadPage
  <2> HIDE DEF pc, snap, owed
  <2>3. t.pc = pc /\ t.page = page /\ t.full = Full(page) /\ t.started /\ t.owed = owed /\ t.tried = c.tried
        /\ t.cut = c.cut /\ t.at = c.at /\ t.last = c.last /\ t.cursor = c.cursor
    BY <2>1 DEF Chain
  <2> HIDE DEF t
  <2>4. c.at <= c.cursor /\ c.last = c.at /\ c.at \in Nat /\ c.cursor \in Nat
    BY <2>1 DEF Sweeps, Live, Chain
  <2>5. ASSUME NEW d \in Open(t, doc) PROVE d \in Listed(r)
    <3>1. d \in owed \ (c.tried \cup c.cut) /\ doc[d].there /\ doc[d].cohort
      BY <2>3 DEF Open
    <3>2. CASE c.started
      <4>1. d \in Open(c, doc) /\ d \in Docs
        BY <2>1, <3>1, <3>2 DEF Open, owed, Chain
      <4>2. d > c.cursor
        BY <2>1, <4>1 DEF Sweeps
      <4> QED BY <3>1, <4>1, <4>2 DEF Listed
    <3>3. CASE ~c.started
      BY <3>1, <3>3 DEF owed
    <3> QED BY <3>2, <3>3
  <2>6. \A d \in Listed(r) : d > c.cursor /\ d \in Nat
    BY BackfillConstants DEF Listed
  <2>7. page \subseteq Listed(r)
    BY DEF Page
  <2>8. ASSUME NEW d \in Open(t, doc) PROVE d > c.cursor /\ d > c.at /\ Turn(t, d) /\ page # {}
    <3>1. d > c.cursor /\ d > c.at
      BY <2>4, <2>5, <2>6
    <3>2. CASE d \in page
      BY <2>3, <3>1, <3>2 DEF Turn
    <3>3. CASE d \notin page
      <4>1. (\A e \in page : e < d) /\ Full(page) /\ page # {}
        BY <2>5, <3>3, PageFromTheFront
      <4> QED BY <2>3, <3>1, <4>1 DEF Turn
    <3> QED BY <3>2, <3>3
  <2>9. \A e \in page : e > c.at
    BY <2>4, <2>6, <2>7
  <2>10. Sweeps(t, doc)
    <3>1. CASE page = {}
      <4>1. Open(t, doc) = {} /\ t.pc = "ending"
        BY <2>3, <2>8, <3>1 DEF pc
      <4> QED BY <2>3, <2>4, <3>1, <4>1 DEF Sweeps
    <3>2. CASE page # {}
      <4>1. t.pc = "work"
        BY <2>3, <3>2 DEF pc
      <4> QED BY <2>3, <2>4, <2>8, <2>9, <4>1 DEF Sweeps
    <3> QED BY <3>1, <3>2
  <2> QED BY <1>d, <2>2, <2>10
<1>3. ASSUME NEW r \in Run, Visit(r) PROVE Swept'
  <2> DEFINE c == run[r]
  <2>1. c \in Chain /\ c.pc = "work" /\ Sweeps(c, doc) /\ c.last = c.at /\ c.at \in Nat
    BY <1>3, <1>b DEF Visit, Sweeps, Live, Chain
  <2>2. PICK e \in c.page :
          /\ \A f \in c.page : e <= f
          /\ IF Healthy(r)
             THEN LET want == Wanted(c.snap[e])
                  IN Set(r, [c EXCEPT !.page = @ \ {e}, !.at = e, !.last = e, !.since = clock,
                             !.pc = IF ~want THEN "work" ELSE IF job \in Paid THEN "looking" ELSE "write",
                             !.tried = IF want THEN @ ELSE @ \cup {e}])
             ELSE Set(r, [c EXCEPT !.aborted = TRUE, !.page = {}, !.pc = "ending"])
    BY <1>3 DEF Visit
  <2>3. c.page \subseteq Nat /\ e \in Nat /\ Docs \subseteq Nat
    BY <2>1, BackfillConstants DEF Chain
  <2>4. \A f \in c.page : f > c.at
    BY <2>1 DEF Sweeps
  <2>5. ASSUME NEW d \in Open(c, doc) PROVE d \in Nat /\ d > c.cursor /\ d > c.at /\ Turn(c, d)
    <3>1. d > c.cursor /\ Turn(c, d)
      BY <2>1 DEF Sweeps
    <3>2. d \in Nat
      BY <2>1, <2>3 DEF Open, Chain
    <3> QED BY <2>1, <2>4, <3>1, <3>2 DEF Turn
  <2>6. CASE Healthy(r)
    <3> DEFINE want == Wanted(c.snap[e])
               pc == IF ~want THEN "work" ELSE IF job \in Paid THEN "looking" ELSE "write"
               tried == IF want THEN c.tried ELSE c.tried \cup {e}
               t == [c EXCEPT !.page = c.page \ {e}, !.at = e, !.last = e, !.since = clock, !.pc = pc, !.tried = tried]
    <3>1. Set(r, t)
      BY <2>2, <2>6
    <3>2. pc \in {"work", "looking", "write"} /\ (want => pc \in {"looking", "write"})
      OBVIOUS
    <3>3. IF want THEN tried = c.tried ELSE tried = c.tried \cup {e}
      OBVIOUS
    <3> HIDE DEF want, pc, tried
    <3>4. t.pc = pc /\ t.page = c.page \ {e} /\ t.at = e /\ t.last = e /\ t.tried = tried /\ t.owed = c.owed
          /\ t.cursor = c.cursor /\ t.full = c.full /\ t.started = c.started /\ t.cut = c.cut
      BY <2>1 DEF Chain
    <3> HIDE DEF t
    <3>5. Open(t, doc) \subseteq Open(c, doc) /\ (~want => e \notin Open(t, doc))
      BY <3>3, <3>4 DEF Open
    <3>6. \A f \in c.page \ {e} : f > e
      BY <2>2, <2>3
    <3>7. ASSUME NEW d \in Open(t, doc) PROVE d > c.cursor /\ Turn(t, d)
      <4>1. d > c.cursor /\ Turn(c, d) /\ d \in Nat
        BY <2>5, <3>5
      <4>2. CASE d = e
        BY <3>2, <3>4, <3>5, <4>1, <4>2 DEF Turn
      <4>3. CASE d # e
        BY <2>1, <3>4, <4>1, <4>3 DEF Turn
      <4> QED BY <4>1, <4>2, <4>3
    <3>8. Sweeps(t, doc)
      BY <2>1, <3>2, <3>4, <3>5, <3>6, <3>7 DEF Sweeps
    <3> QED BY <1>d, <3>1, <3>8
  <2>7. CASE ~Healthy(r)
    <3> DEFINE t == [c EXCEPT !.aborted = TRUE, !.page = {}, !.pc = "ending"]
    <3>1. Set(r, t)
      BY <2>2, <2>7
    <3>2. t.pc = "ending" /\ t.aborted /\ t.at = c.at /\ t.last = c.last /\ t.tried = c.tried /\ t.owed = c.owed
          /\ t.cursor = c.cursor /\ t.started = c.started /\ t.cut = c.cut /\ t.page = {}
      BY <2>1 DEF Chain
    <3> HIDE DEF t
    <3>3. Open(t, doc) = Open(c, doc)
      BY <3>2 DEF Open
    <3>4. Sweeps(t, doc)
      BY <2>1, <2>5, <3>2, <3>3 DEF Sweeps
    <3> QED BY <1>d, <3>1, <3>4
  <2> QED BY <2>6, <2>7
<1>4. ASSUME NEW r \in Run, LookedUp(r) PROVE Swept'
  <2>1. run[r].pc = "looking" /\ (Set(r, Done(r)) \/ Set(r, [run[r] EXCEPT !.pc = "write"]))
    BY <1>4 DEF LookedUp
  <2> DEFINE t == [run[r] EXCEPT !.pc = "write"]
             c == run[r]
  <2>2. t.pc = "write" /\ t.at = c.at /\ t.last = c.last /\ t.tried = c.tried /\ t.owed = c.owed /\ t.page = c.page
        /\ t.cursor = c.cursor /\ t.started = c.started /\ t.full = c.full /\ t.cut = c.cut
    BY <1>b DEF Chain
  <2>3. Sweeps(t, doc)
    <3> HIDE DEF t
    <3>1. Open(t, doc) = Open(c, doc)
      BY <2>2 DEF Open
    <3>2. \A d : Turn(c, d) => Turn(t, d)
      BY <2>1, <2>2 DEF Turn
    <3> QED BY <1>b, <2>1, <2>2, <3>1, <3>2 DEF Sweeps, Live
  <2>4. Sweeps(Done(r), doc)
    BY <1>b, <2>1, DoneSweeps
  <2> HIDE DEF t
  <2> QED BY <1>d, <2>1, <2>3, <2>4 DEF t
<1>5. ASSUME NEW r \in Run, Write(r) \/ Skip(r) \/ WriteFails(r) PROVE Swept'
  <2>1. run[r].pc = "write" /\ (Set(r, Done(r)) \/ Set(r, Throws(r)))
    BY <1>5 DEF Write, Skip, WriteFails, Due
  <2>2. Sweeps(Done(r), doc) /\ Sweeps(Throws(r), doc)
    BY <1>b, <2>1, DoneSweeps, ThrowsSweeps DEF Live
  <2> QED BY <1>d, <2>1, <2>2
<1>6. ASSUME NEW r \in Run, PageDone(r) PROVE Swept'
  <2> DEFINE c == run[r]
             more == [c EXCEPT !.pc = "read", !.cursor = c.at, !.snap = Unread]
             ends == [c EXCEPT !.pc = "ending", !.snap = Unread]
  <2>1. c \in Chain /\ c.pc = "work" /\ c.page = {} /\ Sweeps(c, doc) /\ c.last = c.at /\ c.at \in Nat
    BY <1>6, <1>b DEF PageDone, Sweeps, Live, Chain
  <2>2. IF job \in Looping /\ c.full THEN Set(r, more) ELSE Set(r, ends)
    BY <1>6 DEF PageDone
  <2>3. \A d \in Open(c, doc) : c.full /\ d > c.at /\ d > c.cursor
    BY <2>1 DEF Sweeps, Turn
  <2>4. CASE job \in Looping /\ c.full
    <3>1. more.pc = "read" /\ more.at = c.at /\ more.last = c.last /\ more.tried = c.tried /\ more.owed = c.owed
          /\ more.cursor = c.at /\ more.started = c.started /\ more.cut = c.cut /\ more.page = {}
      BY <2>1 DEF Chain
    <3>2. Set(r, more)
      BY <2>2, <2>4
    <3> HIDE DEF more
    <3>3. Open(more, doc) = Open(c, doc)
      BY <3>1 DEF Open
    <3>4. Sweeps(more, doc)
      BY <2>1, <2>3, <3>1, <3>3 DEF Sweeps
    <3> QED BY <1>d, <3>2, <3>4
  <2>5. CASE ~(job \in Looping /\ c.full)
    <3>1. ends.pc = "ending" /\ ends.at = c.at /\ ends.last = c.last /\ ends.tried = c.tried /\ ends.owed = c.owed
          /\ ends.cursor = c.cursor /\ ends.started = c.started /\ ends.full = c.full /\ ends.cut = c.cut /\ ends.page = {}
      BY <2>1 DEF Chain
    <3>2. Set(r, ends)
      BY <2>2, <2>5
    <3> HIDE DEF ends
    <3>3. Open(ends, doc) = Open(c, doc)
      BY <3>1 DEF Open
    <3>4. Sweeps(ends, doc)
      BY <2>1, <2>3, <2>5, <3>1, <3>3 DEF Sweeps
    <3> QED BY <1>d, <3>2, <3>4
  <2> QED BY <2>4, <2>5
<1>7. ASSUME NEW r \in Run, End(r) PROVE Swept'
  <2> DEFINE c == run[r]
             again == (c.full /\ job \notin Looping) \/ c.aborted
             pc == IF again THEN "idle" ELSE "over"
             cursor == IF c.last # 0 THEN c.last ELSE c.cursor
             t == [c EXCEPT !.pc = pc, !.cursor = cursor, !.at = 0, !.snap = Unread, !.beat = "none", !.fresh = 0, !.since = 0]
  <2>1. c \in Chain /\ c.pc = "ending" /\ Sweeps(c, doc)
    BY <1>7, <1>b DEF End
  <2>2. Set(r, t)
    BY <1>7 DEF End
  <2>3. pc \in {"idle", "over"} /\ (pc = "over" <=> ~again) /\ cursor \in {c.last, c.cursor}
    OBVIOUS
  <2> HIDE DEF pc, cursor
  <2>4. t.pc = pc /\ t.at = 0 /\ t.tried = c.tried /\ t.owed = c.owed /\ t.cursor = cursor /\ t.started = c.started
        /\ t.cut = c.cut /\ t.page = c.page
    BY <2>1 DEF Chain
  <2> HIDE DEF t
  <2>5. Open(t, doc) = Open(c, doc)
    BY <2>4 DEF Open
  <2>6. Sweeps(t, doc)
    BY <2>1, <2>3, <2>4, <2>5 DEF Sweeps, Live
  <2> QED BY <1>d, <2>2, <2>6
<1>8. ASSUME NEW r \in Run, Dies(r) PROVE Swept'
  <2>1. Set(r, Throws(r)) /\ Live(run[r])
    BY <1>8 DEF Dies, Active, Live
  <2> QED BY <1>b, <1>d, <2>1, ThrowsSweeps
<1>9. ASSUME NEW r \in Run, Renew(r) \/ SeeRenewal(r) PROVE Swept'
  <2> DEFINE c == run[r]
             sent == [c EXCEPT !.beat = IF lock.by = r THEN "renewed" ELSE "lost", !.sent = clock]
             seen == [c EXCEPT !.beat = "none", !.lost = @ \/ c.beat = "lost",
                               !.fresh = IF c.beat = "renewed" THEN clock ELSE @]
  <2>1. Set(r, sent) \/ Set(r, seen)
    BY <1>9 DEF Renew, SeeRenewal
  <2>2. ASSUME NEW t \in {sent, seen}
        PROVE  /\ t.pc = c.pc /\ t.at = c.at /\ t.last = c.last /\ t.tried = c.tried /\ t.owed = c.owed /\ t.page = c.page
               /\ t.cursor = c.cursor /\ t.started = c.started /\ t.full = c.full /\ t.aborted = c.aborted
               /\ t.cut = c.cut
    <3>1. c \in Chain
      BY <1>b
    <3>2. CASE t = sent
      BY <3>1, <3>2 DEF Chain
    <3>3. CASE t = seen
      BY <3>1, <3>3 DEF Chain
    <3> QED BY <2>2, <3>2, <3>3
  <2> HIDE DEF sent, seen
  <2>3. ASSUME NEW t \in {sent, seen} PROVE Sweeps(t, doc)
    <3>1. Open(t, doc) = Open(c, doc)
      BY <2>2 DEF Open
    <3>2. \A d : Turn(c, d) => Turn(t, d)
      BY <2>2 DEF Turn
    <3> QED BY <1>b, <2>2, <3>1, <3>2 DEF Sweeps, Live
  <2> QED BY <1>d, <2>1, <2>3
<1>10. CASE UNCHANGED run
  BY <1>b, <1>c, <1>10
<1>11. CASE Owners \/ Tick \/ UNCHANGED vars
  <2>1. UNCHANGED run
    BY <1>11 DEF Owners, Choose, Rekey, Recategorise, Remove, World, Tick, vars
  <2> QED BY <1>10, <2>1
<1> QED BY <1>1, <1>2, <1>3, <1>4, <1>5, <1>6, <1>7, <1>8, <1>9, <1>11 DEF Next, RunStep

\* When an operator's chain of calls is over, all it found to do was worked on
\* or reported, needs it no longer, or was on the rest of a page that an images
\* script left with an error, for any documents and page size.
THEOREM ChainHolds == Spec => []ChainVisitsAll
<1>1. Spec => []Swept
  BY TypedInit, TypedStep, SweptInit, SweptStep, PTL DEF Spec
<1>2. Swept => ChainVisitsAll
  BY DEF Swept, Sweeps, Open, ChainVisitsAll
<1> QED BY <1>1, <1>2, PTL
=============================================================================
