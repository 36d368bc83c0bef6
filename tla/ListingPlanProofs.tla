-------------------------- MODULE ListingPlanProofs --------------------------
EXTENDS ListingPlan, ScanPromise, TLAPS

AtWork == {"review", "send", "wait", "record"}
Busy   == {"loaded", "loop", "finish"} \cup AtWork

LocalTo(c) ==
    /\ mem[c] \in Plan <=> pc[c] \in Busy
    /\ pc[c] \in AtWork => idx[c] \in Items
    /\ pc[c] = "record" => result[c] \in Status
    /\ c \in Editors => pc[c] \in {"idle", "edit"}
    /\ c \in PlanCallers => pc[c] # "edit"

Local == \A c \in Callers : LocalTo(c)

LEMMA PlanFacts ==
  /\ Blank \notin Plan
  /\ \A p \in Plan, i \in Items, st \in Status : WithStatus(p, i, st) \in Plan
  /\ \A n \in PlanIds : Seeded(n) \in Plan
  /\ \A p \in Plan : p.plan \in PlanIds /\ p.status \in [Items -> Status]
BY DEF Plan, Blank, PlanIds, WithStatus, Seeded, Status

LEMMA NumberFacts ==
  /\ nextPlan \in PlanIds => nextPlan + 1 \in 1 .. (MaxPlans + 1)
  /\ \A i \in Items : i \in 1 .. (BatchSize + 1) /\ i + 1 \in 1 .. (BatchSize + 1)
  /\ 1 \in 1 .. (BatchSize + 1)
  /\ 0 \in 0 .. MaxSends
  /\ \A n \in 0 .. MaxSends : n < MaxSends => n + 1 \in 0 .. MaxSends /\ n + 1 \in 1 .. MaxSends
  /\ \A n \in 0 .. MaxCrashes : n < MaxCrashes => n + 1 \in 0 .. MaxCrashes
  /\ \A n \in 0 .. MaxUserEdits : n < MaxUserEdits => n + 1 \in 0 .. MaxUserEdits
BY BoundsAssumption DEF PlanIds, Items

LEMMA ReturnTypes ==
  ASSUME TaskTypes, NEW c \in Callers, Return(c)
  PROVE  TaskTypes'
BY NumberFacts DEF TaskTypes, Return, NoOrders, Holding

LEMMA TaskFacts ==
  ASSUME Local, NEW c \in Callers
  PROVE  /\ pc[c] \in Busy => mem[c] \in Plan
         /\ pc[c] \in AtWork => mem[c] \in Plan /\ idx[c] \in Items
         /\ pc[c] = "record" => mem[c] \in Plan /\ idx[c] \in Items /\ result[c] \in Status
                                /\ WithStatus(mem[c], idx[c], result[c]) \in Plan
         /\ pc[c] = "loop" /\ idx[c] \in Items => Marked(mem[c], idx[c]) \in Plan
<1>1. /\ pc[c] \in Busy => mem[c] \in Plan
      /\ pc[c] \in AtWork => mem[c] \in Plan /\ idx[c] \in Items
      /\ pc[c] = "record" => mem[c] \in Plan /\ idx[c] \in Items /\ result[c] \in Status
      /\ pc[c] = "loop" => mem[c] \in Plan
  BY DEF Local, LocalTo, Busy, AtWork
<1>2. "uncertain" \in Status BY DEF Status
<1> QED BY <1>1, <1>2, PlanFacts DEF Marked

\* What an acceptance does to the wire, the count of each item and the answers.
LEMMA AcceptFacts ==
  ASSUME TypeOK, NEW r \in wire, MarketAccepts(r)
  PROVE  /\ r.plan \in PlanIds /\ r.item \in Items
         /\ wire' = wire \ {r}
         /\ \A p \in PlanIds, i \in Items :
              applied'[p][i] = IF p = r.plan /\ i = r.item THEN applied[p][i] + 1 ELSE applied[p][i]
         /\ \A p \in PlanIds, i \in Items : Outstanding(p, i)' => Outstanding(p, i)
         /\ \A c \in Callers : answer'[c] =
              IF pc[c] = "wait" /\ mem[c].plan = r.plan /\ idx[c] = r.item /\ waiting[c] = r.n
              THEN "accepted" ELSE answer[c]
         /\ UNCHANGED <<guard, unlocked, journal, content, nextPlan, pc, mem, idx, seen, result,
                        waiting, sends, dropped, crashes, edits>>
<1>1. r.plan \in PlanIds /\ r.item \in Items BY DEF TypeOK, MarketTypes, Request
<1>2. applied \in [PlanIds -> [Items -> Nat]] BY DEF TypeOK, MarketTypes
<1>3. /\ wire' = wire \ {r}
      /\ applied' = [applied EXCEPT ![r.plan][r.item] = @ + 1]
      /\ UNCHANGED <<guard, unlocked, journal, content, nextPlan, pc, mem, idx, seen, result,
                     waiting, sends, dropped, crashes, edits>>
  BY DEF MarketAccepts
<1>4. \A p \in PlanIds, i \in Items :
        applied'[p][i] = IF p = r.plan /\ i = r.item THEN applied[p][i] + 1 ELSE applied[p][i]
  BY <1>1, <1>2, <1>3
<1>5. \A p \in PlanIds, i \in Items : Outstanding(p, i)' => Outstanding(p, i)
  BY <1>3, <1>4 DEF Outstanding
<1>6. \A c \in Callers : answer'[c] =
        IF pc[c] = "wait" /\ mem[c].plan = r.plan /\ idx[c] = r.item /\ waiting[c] = r.n
        THEN "accepted" ELSE answer[c]
  BY DEF MarketAccepts, Reply
<1> QED BY <1>1, <1>3, <1>4, <1>5, <1>6

LEMMA AcceptTypes ==
  ASSUME TypeOK, NEW r \in wire, MarketAccepts(r)
  PROVE  MarketTypes'
<1>1. r \in Request /\ r.slot \in Slots BY DEF TypeOK, MarketTypes, Request
<1>2. r.plan \in PlanIds /\ r.item \in Items BY AcceptFacts
<1> DEFINE spec == content[r.plan][r.item]
<1>3. spec \in ItemSpec BY <1>2 DEF TypeOK, StoreTypes
<1>4. spec.key \in Keys /\ spec.terms \in Terms BY <1>3 DEF ItemSpec
<1>5. market' = [market EXCEPT ![spec.key][r.slot] = spec.terms] BY DEF MarketAccepts
<1>6. market' \in [Keys -> [Slots -> Terms \cup {NoOrder}]]
  BY <1>1, <1>4, <1>5 DEF TypeOK, MarketTypes
<1>7. applied' \in [PlanIds -> [Items -> Nat]]
  <2>1. applied' = [applied EXCEPT ![r.plan][r.item] = @ + 1] BY DEF MarketAccepts
  <2>2. applied \in [PlanIds -> [Items -> Nat]] BY DEF TypeOK, MarketTypes
  <2>3. applied[r.plan] \in [Items -> Nat] /\ applied[r.plan][r.item] + 1 \in Nat BY <1>2, <2>2
  <2> QED BY <1>2, <2>1, <2>2, <2>3
<1>8. wire' \subseteq Request /\ sends' = sends /\ edits' = edits
  BY DEF TypeOK, MarketTypes, MarketAccepts
<1> QED BY <1>6, <1>7, <1>8 DEF TypeOK, MarketTypes

LEMMA MarkKeepsTypes ==
  ASSUME TypeOK, Local, NEW c \in PlanCallers, MarkItem(c)
  PROVE  TaskTypes'
<1>1. c \in Callers BY DEF Callers
<1>2. CASE Return(c) BY <1>1, <1>2, ReturnTypes DEF TypeOK
<1>3. CASE ~Return(c)
  <2>1. /\ mem' = [mem EXCEPT ![c] = Marked(mem[c], idx[c])]
        /\ pc' = [pc EXCEPT ![c] = "review"]
        /\ UNCHANGED <<guard, idx, seen, result, waiting, answer>>
    BY <1>3 DEF MarkItem
  <2>2. Marked(mem[c], idx[c]) \in Plan BY <1>1, TaskFacts DEF MarkItem
  <2> QED BY <1>1, <2>1, <2>2 DEF TypeOK, TaskTypes, Holding
<1> QED BY <1>2, <1>3

LEMMA MarkKeepsLocal ==
  ASSUME TypeOK, Local, NEW c \in PlanCallers, MarkItem(c)
  PROVE  Local'
<1>1. c \in Callers /\ pc[c] = "loop" /\ idx[c] \in Items BY DEF Callers, MarkItem
<1> SUFFICES ASSUME NEW d \in Callers PROVE LocalTo(d)' BY DEF Local
<1>2. pc \in [Callers -> {"idle", "loaded"} \cup Holding] /\ DOMAIN mem = Callers
  BY DEF TypeOK, TaskTypes
<1>3. LocalTo(d) /\ LocalTo(c) BY <1>1 DEF Local
<1>4. CASE d # c
  <2>1. pc'[d] = pc[d] /\ mem'[d] = mem[d] /\ idx'[d] = idx[d] /\ result'[d] = result[d]
    BY <1>2, <1>4 DEF MarkItem, Return, TypeOK, TaskTypes
  <2> QED BY <1>3, <2>1 DEF LocalTo
<1>5. CASE d = c
  <2>1. CASE Return(c)
    <3>1. pc'[c] = "idle" /\ mem'[c] = Blank BY <1>1, <1>2, <2>1 DEF Return
    <3> QED BY <1>3, <1>5, <3>1, PlanFacts DEF LocalTo, Busy, AtWork
  <2>2. CASE ~Return(c)
    <3>1. pc'[c] = "review" /\ mem'[c] = Marked(mem[c], idx[c]) /\ idx' = idx
      BY <1>1, <1>2, <2>2 DEF MarkItem
    <3>2. Marked(mem[c], idx[c]) \in Plan BY <1>1, TaskFacts
    <3>3. c \notin Editors BY NamesAssumption
    <3> QED BY <1>1, <1>3, <1>5, <3>1, <3>2, <3>3 DEF LocalTo, Busy, AtWork
  <2> QED BY <2>1, <2>2
<1> QED BY <1>4, <1>5

LEMMA LocalStep == TypeOK /\ Local /\ [Next]_vars => Local'
<1> SUFFICES ASSUME TypeOK, Local, [Next]_vars PROVE Local' OBVIOUS
<1> USE PlanFacts, NamesAssumption DEF TypeOK, TaskTypes, StoreTypes, Callers, Status, Local, LocalTo, AtWork, Busy, Holding, execVars, marketVars
<1>1. ASSUME NEW c \in PlanCallers, SubmitBegin(c) PROVE Local'
  BY <1>1 DEF SubmitBegin, GuardFree
<1>2. ASSUME NEW c \in PlanCallers, SubmitRefused(c) PROVE Local'
  BY <1>2 DEF SubmitRefused, Return
<1>3. ASSUME NEW c \in PlanCallers, SubmitSeed(c) PROVE Local'
  BY <1>3 DEF SubmitSeed, Return, WriteOk, WriteFailed
<1>4. ASSUME NEW c \in PlanCallers, ResumeLoad(c) PROVE Local'
  BY <1>4 DEF ResumeLoad, Saved
<1>5. ASSUME NEW c \in PlanCallers, ResumeBegin(c) PROVE Local'
  BY <1>5 DEF ResumeBegin, GuardFree
<1>6. ASSUME NEW c \in PlanCallers, ResumeRefused(c) PROVE Local'
  BY <1>6 DEF ResumeRefused, Return
<1>7. ASSUME NEW c \in PlanCallers, Discard(c) PROVE Local'
  BY <1>7 DEF Discard, GuardFree, Saved
<1>8. ASSUME NEW c \in PlanCallers, LogoutClean(c) PROVE Local'
  BY <1>8 DEF LogoutClean, GuardFree
<1>9. ASSUME NEW c \in PlanCallers, StopEarly(c) PROVE Local'
  BY <1>9 DEF StopEarly
<1>10. ASSUME NEW c \in PlanCallers, SkipItem(c) PROVE Local'
  BY <1>10 DEF SkipItem
<1>11. ASSUME NEW c \in PlanCallers, MarkItem(c) PROVE Local'
  BY <1>11, MarkKeepsLocal
<1>12. ASSUME NEW c \in PlanCallers, LoopDone(c) PROVE Local'
  BY <1>12 DEF LoopDone
<1>13. ASSUME NEW c \in PlanCallers, ReviewFails(c) PROVE Local'
  BY <1>13 DEF ReviewFails, Decide
<1>14. ASSUME NEW c \in PlanCallers, ReviewPasses(c) PROVE Local'
  BY <1>14 DEF ReviewPasses
<1>15. ASSUME NEW c \in PlanCallers, SendDeferred(c) PROVE Local'
  BY <1>15 DEF SendDeferred, Decide
<1>16. ASSUME NEW c \in PlanCallers, Send(c) PROVE Local'
  BY <1>16 DEF Send
<1>17. ASSUME NEW c \in PlanCallers, TakeAnswer(c) PROVE Local'
  BY <1>17 DEF TakeAnswer, Decide, StatusesOf
<1>18. ASSUME NEW c \in PlanCallers, LoseAnswer(c) PROVE Local'
  BY <1>18 DEF LoseAnswer, Decide, StatusOfLost
<1>19. ASSUME NEW c \in PlanCallers, RecordItem(c) PROVE Local'
  <2>1. CASE Return(c) BY <1>19, <2>1 DEF RecordItem, Return
  <2>2. CASE ~Return(c)
    <3>1. mem' = [mem EXCEPT ![c] = WithStatus(mem[c], idx[c], result[c])] /\ result' = [result EXCEPT ![c] = "none"]
      BY <1>19, <2>2 DEF RecordItem
    <3>2. pc' = [pc EXCEPT ![c] = "finish"] \/ pc' = [pc EXCEPT ![c] = "loop"] BY <1>19, <2>2 DEF RecordItem
    <3>3. pc[c] = "record" /\ WithStatus(mem[c], idx[c], result[c]) \in Plan BY <1>19, TaskFacts DEF RecordItem
    <3>4. ASSUME NEW d \in Callers, d # c PROVE LocalTo(d)'
      <4>1. idx' = [idx EXCEPT ![c] = idx[c] + 1] BY <1>19, <2>2 DEF RecordItem
      <4>2. mem'[d] = mem[d] /\ pc'[d] = pc[d] /\ result'[d] = result[d] /\ idx'[d] = idx[d]
        BY <3>1, <3>2, <3>4, <4>1
      <4>3. LocalTo(d) BY <3>4
      <4> QED BY <4>2, <4>3
    <3>5. LocalTo(c)' BY <1>19, <3>1, <3>2, <3>3
    <3> QED BY <3>4, <3>5
  <2> QED BY <2>1, <2>2
<1>20. ASSUME NEW c \in PlanCallers, Finish(c) PROVE Local'
  BY <1>20 DEF Finish, Return, Saved
<1>21. ASSUME NEW c \in Editors, EditBegin(c) PROVE Local'
  BY <1>21 DEF EditBegin, GuardFree
<1>22. ASSUME NEW c \in Editors, EditEnd(c) PROVE Local'
  BY <1>22 DEF EditEnd, Return
<1>23. ASSUME NEW r \in wire, MarketAccepts(r) PROVE Local'
  BY <1>23 DEF MarketAccepts, Reply
<1>24. ASSUME NEW r \in wire, MarketRefuses(r) PROVE Local'
  BY <1>24 DEF MarketRefuses, Reply
<1>25. ASSUME NEW r \in wire, RequestLost(r) PROVE Local'
  BY <1>25 DEF RequestLost
<1>26. ASSUME Unlock PROVE Local'
  BY <1>26 DEF Unlock
<1>27. ASSUME UserEdit PROVE Local'
  BY <1>27 DEF UserEdit
<1>28. ASSUME Crash PROVE Local'
  BY <1>28 DEF Crash
<1>29. CASE UNCHANGED vars BY <1>29 DEF vars, execVars, marketVars, TaskTypes, StoreTypes, MarketTypes
<1> QED BY <1>1, <1>2, <1>3, <1>4, <1>5, <1>6, <1>7, <1>8, <1>9, <1>10, <1>11, <1>12, <1>13, <1>14, <1>15, <1>16, <1>17, <1>18, <1>19, <1>20, <1>21, <1>22, <1>23, <1>24, <1>25, <1>26, <1>27, <1>28, <1>29 DEF Next, UserStep, CommandStep, MarketStep

LEMMA TypeStep == TypeOK /\ Local /\ [Next]_vars => TypeOK'
<1> SUFFICES ASSUME TypeOK, Local, [Next]_vars PROVE TypeOK' OBVIOUS
<1> USE DEF TypeOK, Callers, execVars, marketVars
<1>1. ASSUME NEW c \in PlanCallers, SubmitBegin(c) PROVE TypeOK'
  BY <1>1 DEF SubmitBegin, TaskTypes, StoreTypes, MarketTypes, Holding
<1>2. ASSUME NEW c \in PlanCallers, SubmitRefused(c) PROVE TypeOK'
  <2>1. TaskTypes' BY <1>2, ReturnTypes DEF SubmitRefused
  <2>2. StoreTypes' BY <1>2 DEF SubmitRefused, StoreTypes
  <2>3. MarketTypes' BY <1>2 DEF SubmitRefused, MarketTypes
  <2> QED BY <2>1, <2>2, <2>3
<1>3. ASSUME NEW c \in PlanCallers, SubmitSeed(c) PROVE TypeOK'
  <2>1. TaskTypes'
    <3>1. CASE Return(c) BY <3>1, ReturnTypes
    <3>2. CASE ~Return(c)
      <4>1. Seeded(nextPlan) \in Plan BY <1>3, PlanFacts DEF SubmitSeed
      <4>2. mem' = [mem EXCEPT ![c] = Seeded(nextPlan)] /\ pc' = [pc EXCEPT ![c] = "loop"]
            /\ UNCHANGED <<guard, idx, seen, result, waiting, answer>>
        BY <1>3, <3>2 DEF SubmitSeed
      <4> QED BY <4>1, <4>2 DEF TaskTypes, Holding
    <3> QED BY <3>1, <3>2
  <2>2. StoreTypes' BY <1>3, NumberFacts, NamesAssumption, PlanFacts DEF SubmitSeed, StoreTypes, WriteOk, WriteFailed
  <2>3. MarketTypes' BY <1>3 DEF SubmitSeed, MarketTypes
  <2> QED BY <2>1, <2>2, <2>3
<1>4. ASSUME NEW c \in PlanCallers, ResumeLoad(c) PROVE TypeOK'
  <2>1. TaskTypes' BY <1>4 DEF ResumeLoad, TaskTypes, StoreTypes, Saved, Holding
  <2>2. StoreTypes' BY <1>4 DEF ResumeLoad, StoreTypes
  <2>3. MarketTypes' BY <1>4 DEF ResumeLoad, MarketTypes
  <2> QED BY <2>1, <2>2, <2>3
<1>5. ASSUME NEW c \in PlanCallers, ResumeBegin(c) PROVE TypeOK'
  BY <1>5 DEF ResumeBegin, TaskTypes, StoreTypes, MarketTypes, Holding
<1>6. ASSUME NEW c \in PlanCallers, ResumeRefused(c) PROVE TypeOK'
  <2>1. TaskTypes' BY <1>6, ReturnTypes DEF ResumeRefused
  <2>2. StoreTypes' BY <1>6 DEF ResumeRefused, StoreTypes
  <2>3. MarketTypes' BY <1>6 DEF ResumeRefused, MarketTypes
  <2> QED BY <2>1, <2>2, <2>3
<1>7. ASSUME NEW c \in PlanCallers, Discard(c) PROVE TypeOK'
  <2>1. TaskTypes' BY <1>7 DEF Discard, TaskTypes
  <2>2. StoreTypes' BY <1>7, PlanFacts DEF Discard, StoreTypes, Saved
  <2>3. MarketTypes' BY <1>7 DEF Discard, MarketTypes
  <2> QED BY <2>1, <2>2, <2>3
<1>8. ASSUME NEW c \in PlanCallers, LogoutClean(c) PROVE TypeOK'
  BY <1>8 DEF LogoutClean, TaskTypes, StoreTypes, MarketTypes, Holding
<1>9. ASSUME NEW c \in PlanCallers, StopEarly(c) PROVE TypeOK'
  BY <1>9 DEF StopEarly, TaskTypes, StoreTypes, MarketTypes, Holding
<1>10. ASSUME NEW c \in PlanCallers, SkipItem(c) PROVE TypeOK'
  <2>1. TaskTypes' BY <1>10, NumberFacts DEF SkipItem, TaskTypes
  <2>2. StoreTypes' BY <1>10 DEF SkipItem, StoreTypes
  <2>3. MarketTypes' BY <1>10 DEF SkipItem, MarketTypes
  <2> QED BY <2>1, <2>2, <2>3
<1>11. ASSUME NEW c \in PlanCallers, MarkItem(c) PROVE TypeOK'
  <2>1. TaskTypes' BY <1>11, MarkKeepsTypes
  <2>2. StoreTypes' BY <1>11, TaskFacts DEF MarkItem, StoreTypes, WriteOk, WriteFailed
  <2>3. MarketTypes' BY <1>11 DEF MarkItem, MarketTypes
  <2> QED BY <2>1, <2>2, <2>3
<1>12. ASSUME NEW c \in PlanCallers, LoopDone(c) PROVE TypeOK'
  BY <1>12 DEF LoopDone, TaskTypes, StoreTypes, MarketTypes, Holding
<1>13. ASSUME NEW c \in PlanCallers, ReviewFails(c) PROVE TypeOK'
  <2>1. TaskTypes' BY <1>13 DEF ReviewFails, TaskTypes, Decide, Status, Holding
  <2>2. StoreTypes' BY <1>13 DEF ReviewFails, StoreTypes
  <2>3. MarketTypes' BY <1>13 DEF ReviewFails, MarketTypes
  <2> QED BY <2>1, <2>2, <2>3
<1>14. ASSUME NEW c \in PlanCallers, ReviewPasses(c) PROVE TypeOK'
  <2>1. ItemOf(c) \in ItemSpec
    BY <1>14, TaskFacts, PlanFacts DEF ReviewPasses, ItemOf, StoreTypes, AtWork, Busy
  <2>2. market[ItemOf(c).key] \in [Slots -> Terms \cup {NoOrder}]
    BY <2>1 DEF MarketTypes, ItemSpec
  <2>3. TaskTypes' BY <1>14, <2>2 DEF ReviewPasses, TaskTypes, Holding
  <2>4. StoreTypes' BY <1>14 DEF ReviewPasses, StoreTypes
  <2>5. MarketTypes' BY <1>14 DEF ReviewPasses, MarketTypes
  <2> QED BY <2>3, <2>4, <2>5
<1>15. ASSUME NEW c \in PlanCallers, SendDeferred(c) PROVE TypeOK'
  <2>1. TaskTypes' BY <1>15 DEF SendDeferred, TaskTypes, Decide, Status, Holding
  <2>2. StoreTypes' BY <1>15 DEF SendDeferred, StoreTypes
  <2>3. MarketTypes' BY <1>15 DEF SendDeferred, MarketTypes
  <2> QED BY <2>1, <2>2, <2>3
<1>16. ASSUME NEW c \in PlanCallers, Send(c) PROVE TypeOK'
  <2> DEFINE p == mem[c].plan
  <2>1. p \in PlanIds /\ idx[c] \in Items
    BY <1>16, TaskFacts, PlanFacts DEF Send, AtWork, Busy
  <2>2. sends[p][idx[c]] + 1 \in 1 .. MaxSends /\ sends[p][idx[c]] + 1 \in 0 .. MaxSends
    BY <1>16, <2>1, NumberFacts DEF Send, MarketTypes
  <2>3. TaskTypes' BY <1>16, <2>2 DEF Send, TaskTypes, Holding
  <2>4. StoreTypes' BY <1>16 DEF Send, StoreTypes
  <2>5. \A r \in wire' : r \in Request
    <3>1. \A s \in Slots, b \in BOOLEAN :
            [plan |-> p, item |-> idx[c], n |-> sends[p][idx[c]] + 1, slot |-> s, create |-> b] \in Request
      BY <2>1, <2>2 DEF Request
    <3> QED BY <1>16, <3>1 DEF Send, MarketTypes
  <2>6. MarketTypes' BY <1>16, <2>1, <2>2, <2>5 DEF Send, MarketTypes
  <2> QED BY <2>3, <2>4, <2>6
<1>17. ASSUME NEW c \in PlanCallers, TakeAnswer(c) PROVE TypeOK'
  <2>1. TaskTypes' BY <1>17, NumberFacts DEF TakeAnswer, TaskTypes, Decide, StatusesOf, Status, Holding
  <2>2. StoreTypes' BY <1>17 DEF TakeAnswer, StoreTypes
  <2>3. MarketTypes' BY <1>17 DEF TakeAnswer, MarketTypes
  <2> QED BY <2>1, <2>2, <2>3
<1>18. ASSUME NEW c \in PlanCallers, LoseAnswer(c) PROVE TypeOK'
  <2>1. TaskTypes' BY <1>18, NumberFacts DEF LoseAnswer, TaskTypes, Decide, StatusOfLost, Status, Holding
  <2>2. StoreTypes' BY <1>18 DEF LoseAnswer, StoreTypes
  <2>3. MarketTypes' BY <1>18 DEF LoseAnswer, MarketTypes
  <2> QED BY <2>1, <2>2, <2>3
<1>19. ASSUME NEW c \in PlanCallers, RecordItem(c) PROVE TypeOK'
  <2>1. TaskTypes'
    <3>1. CASE Return(c) BY <3>1, ReturnTypes
    <3>2. CASE ~Return(c)
      <4>1. pc[c] = "record" /\ idx[c] \in Items /\ WithStatus(mem[c], idx[c], result[c]) \in Plan
        BY <1>19, TaskFacts DEF RecordItem
      <4>2. idx[c] + 1 \in 1 .. (BatchSize + 1) BY <4>1, NumberFacts
      <4>3. pc' = [pc EXCEPT ![c] = "finish"] \/ pc' = [pc EXCEPT ![c] = "loop"] BY <1>19, <3>2 DEF RecordItem
      <4>4. /\ mem' = [mem EXCEPT ![c] = WithStatus(mem[c], idx[c], result[c])]
            /\ idx' = [idx EXCEPT ![c] = @ + 1]
            /\ result' = [result EXCEPT ![c] = "none"]
            /\ seen' = [seen EXCEPT ![c] = NoOrders]
            /\ UNCHANGED <<guard, waiting, answer>>
        BY <1>19, <3>2 DEF RecordItem
      <4>5. NoOrders \in [Slots -> Terms \cup {NoOrder}] BY DEF NoOrders
      <4> QED BY <4>1, <4>2, <4>3, <4>4, <4>5 DEF TaskTypes, Holding
    <3> QED BY <3>1, <3>2
  <2>2. StoreTypes' BY <1>19, TaskFacts DEF RecordItem, StoreTypes, WriteOk, WriteFailed
  <2>3. MarketTypes' BY <1>19 DEF RecordItem, MarketTypes
  <2> QED BY <2>1, <2>2, <2>3
<1>20. ASSUME NEW c \in PlanCallers, Finish(c) PROVE TypeOK'
  <2>1. TaskTypes' BY <1>20, ReturnTypes DEF Finish
  <2>2. StoreTypes' BY <1>20 DEF Finish, StoreTypes, Saved
  <2>3. MarketTypes' BY <1>20 DEF Finish, MarketTypes
  <2> QED BY <2>1, <2>2, <2>3
<1>21. ASSUME NEW c \in Editors, EditBegin(c) PROVE TypeOK'
  BY <1>21 DEF EditBegin, TaskTypes, StoreTypes, MarketTypes, Holding
<1>22. ASSUME NEW c \in Editors, EditEnd(c) PROVE TypeOK'
  <2>1. TaskTypes' BY <1>22, ReturnTypes DEF EditEnd
  <2>2. StoreTypes' BY <1>22, SMTT(20) DEF EditEnd, StoreTypes
  <2>3. MarketTypes' BY <1>22 DEF EditEnd, MarketTypes
  <2> QED BY <2>1, <2>2, <2>3
<1>23. ASSUME NEW r \in wire, MarketAccepts(r) PROVE TypeOK'
  <2>1. TaskTypes' BY <1>23 DEF MarketAccepts, TaskTypes, Reply
  <2>2. StoreTypes' BY <1>23 DEF MarketAccepts, StoreTypes
  <2>3. MarketTypes' BY <1>23, AcceptTypes
  <2> QED BY <2>1, <2>2, <2>3
<1>24. ASSUME NEW r \in wire, MarketRefuses(r) PROVE TypeOK'
  <2>1. TaskTypes' BY <1>24 DEF MarketRefuses, TaskTypes, Reply
  <2>2. StoreTypes' BY <1>24 DEF MarketRefuses, StoreTypes
  <2>3. MarketTypes' BY <1>24 DEF MarketRefuses, MarketTypes
  <2> QED BY <2>1, <2>2, <2>3
<1>25. ASSUME NEW r \in wire, RequestLost(r) PROVE TypeOK'
  BY <1>25 DEF RequestLost, TaskTypes, StoreTypes, MarketTypes, Holding
<1>26. ASSUME Unlock PROVE TypeOK'
  BY <1>26 DEF Unlock, TaskTypes, StoreTypes, MarketTypes, Holding
<1>27. ASSUME UserEdit PROVE TypeOK'
  <2>1. TaskTypes' BY <1>27 DEF UserEdit, TaskTypes
  <2>2. StoreTypes' BY <1>27 DEF UserEdit, StoreTypes
  <2>3. MarketTypes' BY <1>27, NumberFacts DEF UserEdit, MarketTypes
  <2> QED BY <2>1, <2>2, <2>3
<1>28. ASSUME Crash PROVE TypeOK'
  <2>1. TaskTypes' BY <1>28, NumberFacts DEF Crash, TaskTypes, NoOrders
  <2>2. StoreTypes' BY <1>28, NumberFacts DEF Crash, StoreTypes
  <2>3. MarketTypes' BY <1>28 DEF Crash, MarketTypes
  <2> QED BY <2>1, <2>2, <2>3
<1>29. CASE UNCHANGED vars BY <1>29 DEF vars, execVars, marketVars, TaskTypes, StoreTypes, MarketTypes
<1> QED BY <1>1, <1>2, <1>3, <1>4, <1>5, <1>6, <1>7, <1>8, <1>9, <1>10, <1>11, <1>12, <1>13, <1>14, <1>15, <1>16, <1>17, <1>18, <1>19, <1>20, <1>21, <1>22, <1>23, <1>24, <1>25, <1>26, <1>27, <1>28, <1>29 DEF Next, UserStep, CommandStep, MarketStep
LEMMA SeededFacts ==
  ASSUME NEW n \in PlanIds
  PROVE  Seeded(n).plan = n /\ \A i \in Items : Seeded(n).status[i] = "pending"
BY DEF Seeded

LEMMA StatusFacts ==
  ASSUME NEW p \in Plan, NEW i \in Items, NEW st \in Status
  PROVE  /\ WithStatus(p, i, st).plan = p.plan
         /\ \A j \in Items : WithStatus(p, i, st).status[j] = IF j = i THEN st ELSE p.status[j]
BY DEF WithStatus, Plan

LEMMA MarkedFacts ==
  ASSUME NEW p \in Plan, NEW i \in Items
  PROVE  /\ Marked(p, i).plan = p.plan
         /\ Marked(p, i).status[i] = "uncertain"
         /\ \A j \in Items : j # i => Marked(p, i).status[j] = p.status[j]
<1>1. "uncertain" \in Status BY DEF Status
<1> QED BY <1>1, StatusFacts DEF Marked

LEMMA GuardStep == TypeOK /\ Local /\ OneMutator /\ [Next]_vars => OneMutator'
<1> SUFFICES ASSUME TypeOK, Local, OneMutator, [Next]_vars PROVE OneMutator' OBVIOUS
<1> USE NamesAssumption DEF TypeOK, TaskTypes, Local, LocalTo, OneMutator, Holding, Callers, Busy, AtWork, execVars, marketVars
<1>1. ASSUME NEW c \in PlanCallers, SubmitBegin(c) PROVE OneMutator'
  BY <1>1 DEF SubmitBegin, GuardFree
<1>2. ASSUME NEW c \in PlanCallers, SubmitRefused(c) PROVE OneMutator'
  BY <1>2 DEF SubmitRefused, Return
<1>3. ASSUME NEW c \in PlanCallers, SubmitSeed(c) PROVE OneMutator'
  BY <1>3 DEF SubmitSeed, Return, WriteOk, WriteFailed
<1>4. ASSUME NEW c \in PlanCallers, ResumeLoad(c) PROVE OneMutator'
  BY <1>4 DEF ResumeLoad, Saved
<1>5. ASSUME NEW c \in PlanCallers, ResumeBegin(c) PROVE OneMutator'
  BY <1>5 DEF ResumeBegin, GuardFree
<1>6. ASSUME NEW c \in PlanCallers, ResumeRefused(c) PROVE OneMutator'
  BY <1>6 DEF ResumeRefused, Return
<1>7. ASSUME NEW c \in PlanCallers, Discard(c) PROVE OneMutator'
  BY <1>7 DEF Discard, GuardFree, Saved
<1>8. ASSUME NEW c \in PlanCallers, LogoutClean(c) PROVE OneMutator'
  BY <1>8 DEF LogoutClean, GuardFree
<1>9. ASSUME NEW c \in PlanCallers, StopEarly(c) PROVE OneMutator'
  BY <1>9 DEF StopEarly
<1>10. ASSUME NEW c \in PlanCallers, SkipItem(c) PROVE OneMutator'
  BY <1>10 DEF SkipItem
<1>11. ASSUME NEW c \in PlanCallers, MarkItem(c) PROVE OneMutator'
  BY <1>11 DEF MarkItem, Return, WriteOk, WriteFailed, Marked, Offered
<1>12. ASSUME NEW c \in PlanCallers, LoopDone(c) PROVE OneMutator'
  BY <1>12 DEF LoopDone
<1>13. ASSUME NEW c \in PlanCallers, ReviewFails(c) PROVE OneMutator'
  BY <1>13 DEF ReviewFails, Decide
<1>14. ASSUME NEW c \in PlanCallers, ReviewPasses(c) PROVE OneMutator'
  BY <1>14 DEF ReviewPasses
<1>15. ASSUME NEW c \in PlanCallers, SendDeferred(c) PROVE OneMutator'
  BY <1>15 DEF SendDeferred, Decide
<1>16. ASSUME NEW c \in PlanCallers, Send(c) PROVE OneMutator'
  BY <1>16 DEF Send
<1>17. ASSUME NEW c \in PlanCallers, TakeAnswer(c) PROVE OneMutator'
  BY <1>17 DEF TakeAnswer, Decide, StatusesOf
<1>18. ASSUME NEW c \in PlanCallers, LoseAnswer(c) PROVE OneMutator'
  BY <1>18 DEF LoseAnswer, Decide, StatusOfLost
<1>19. ASSUME NEW c \in PlanCallers, RecordItem(c) PROVE OneMutator'
  BY <1>19 DEF RecordItem, Return, WriteOk, WriteFailed
<1>20. ASSUME NEW c \in PlanCallers, Finish(c) PROVE OneMutator'
  BY <1>20 DEF Finish, Return, Saved
<1>21. ASSUME NEW c \in Editors, EditBegin(c) PROVE OneMutator'
  BY <1>21 DEF EditBegin, GuardFree
<1>22. ASSUME NEW c \in Editors, EditEnd(c) PROVE OneMutator'
  BY <1>22 DEF EditEnd, Return
<1>23. ASSUME NEW r \in wire, MarketAccepts(r) PROVE OneMutator'
  BY <1>23 DEF MarketAccepts, Reply
<1>24. ASSUME NEW r \in wire, MarketRefuses(r) PROVE OneMutator'
  BY <1>24 DEF MarketRefuses, Reply
<1>25. ASSUME NEW r \in wire, RequestLost(r) PROVE OneMutator'
  BY <1>25 DEF RequestLost
<1>26. ASSUME Unlock PROVE OneMutator'
  BY <1>26 DEF Unlock
<1>27. ASSUME UserEdit PROVE OneMutator'
  BY <1>27 DEF UserEdit
<1>28. ASSUME Crash PROVE OneMutator'
  BY <1>28 DEF Crash
<1>29. CASE UNCHANGED vars BY <1>29 DEF vars, execVars, marketVars
<1> QED BY <1>1, <1>2, <1>3, <1>4, <1>5, <1>6, <1>7, <1>8, <1>9, <1>10, <1>11, <1>12, <1>13, <1>14, <1>15, <1>16, <1>17, <1>18, <1>19, <1>20, <1>21, <1>22, <1>23, <1>24, <1>25, <1>26, <1>27, <1>28, <1>29 DEF Next, UserStep, CommandStep, MarketStep

LEMMA MarkStep == TypeOK /\ Local /\ OneMutator /\ MarkedBeforeSend /\ [Next]_vars => MarkedBeforeSend'
<1> SUFFICES ASSUME TypeOK, Local, OneMutator, MarkedBeforeSend, [Next]_vars PROVE MarkedBeforeSend' OBVIOUS
<1> USE NamesAssumption DEF TypeOK, TaskTypes, Local, LocalTo, OneMutator, MarkedBeforeSend, Holding, Callers, Busy, AtWork, execVars, marketVars
<1>1. ASSUME NEW c \in PlanCallers, SubmitBegin(c) PROVE MarkedBeforeSend'
  BY <1>1 DEF SubmitBegin, GuardFree
<1>2. ASSUME NEW c \in PlanCallers, SubmitRefused(c) PROVE MarkedBeforeSend'
  BY <1>2 DEF SubmitRefused, Return
<1>3. ASSUME NEW c \in PlanCallers, SubmitSeed(c) PROVE MarkedBeforeSend'
  BY <1>3 DEF SubmitSeed, Return, WriteOk, WriteFailed
<1>4. ASSUME NEW c \in PlanCallers, ResumeLoad(c) PROVE MarkedBeforeSend'
  BY <1>4 DEF ResumeLoad, Saved
<1>5. ASSUME NEW c \in PlanCallers, ResumeBegin(c) PROVE MarkedBeforeSend'
  BY <1>5 DEF ResumeBegin, GuardFree
<1>6. ASSUME NEW c \in PlanCallers, ResumeRefused(c) PROVE MarkedBeforeSend'
  BY <1>6 DEF ResumeRefused, Return
<1>7. ASSUME NEW c \in PlanCallers, Discard(c) PROVE MarkedBeforeSend'
  BY <1>7 DEF Discard, GuardFree, Saved
<1>8. ASSUME NEW c \in PlanCallers, LogoutClean(c) PROVE MarkedBeforeSend'
  BY <1>8 DEF LogoutClean, GuardFree
<1>9. ASSUME NEW c \in PlanCallers, StopEarly(c) PROVE MarkedBeforeSend'
  BY <1>9 DEF StopEarly
<1>10. ASSUME NEW c \in PlanCallers, SkipItem(c) PROVE MarkedBeforeSend'
  BY <1>10 DEF SkipItem
<1>11. ASSUME NEW c \in PlanCallers, MarkItem(c) PROVE MarkedBeforeSend'
  <2>1. mem[c] \in Plan /\ idx[c] \in Items BY <1>11, TaskFacts DEF MarkItem
  <2>2. Marked(mem[c], idx[c]).status[idx[c]] = "uncertain" BY <2>1, MarkedFacts
  <2> QED BY <1>11, <2>1, <2>2 DEF MarkItem, Return, WriteOk, WriteFailed
<1>12. ASSUME NEW c \in PlanCallers, LoopDone(c) PROVE MarkedBeforeSend'
  BY <1>12 DEF LoopDone
<1>13. ASSUME NEW c \in PlanCallers, ReviewFails(c) PROVE MarkedBeforeSend'
  BY <1>13 DEF ReviewFails, Decide
<1>14. ASSUME NEW c \in PlanCallers, ReviewPasses(c) PROVE MarkedBeforeSend'
  BY <1>14 DEF ReviewPasses
<1>15. ASSUME NEW c \in PlanCallers, SendDeferred(c) PROVE MarkedBeforeSend'
  BY <1>15 DEF SendDeferred, Decide
<1>16. ASSUME NEW c \in PlanCallers, Send(c) PROVE MarkedBeforeSend'
  BY <1>16 DEF Send
<1>17. ASSUME NEW c \in PlanCallers, TakeAnswer(c) PROVE MarkedBeforeSend'
  BY <1>17 DEF TakeAnswer, Decide, StatusesOf
<1>18. ASSUME NEW c \in PlanCallers, LoseAnswer(c) PROVE MarkedBeforeSend'
  BY <1>18 DEF LoseAnswer, Decide, StatusOfLost
<1>19. ASSUME NEW c \in PlanCallers, RecordItem(c) PROVE MarkedBeforeSend'
  BY <1>19 DEF RecordItem, Return, WriteOk, WriteFailed
<1>20. ASSUME NEW c \in PlanCallers, Finish(c) PROVE MarkedBeforeSend'
  BY <1>20 DEF Finish, Return, Saved
<1>21. ASSUME NEW c \in Editors, EditBegin(c) PROVE MarkedBeforeSend'
  BY <1>21 DEF EditBegin, GuardFree
<1>22. ASSUME NEW c \in Editors, EditEnd(c) PROVE MarkedBeforeSend'
  BY <1>22 DEF EditEnd, Return
<1>23. ASSUME NEW r \in wire, MarketAccepts(r) PROVE MarkedBeforeSend'
  BY <1>23 DEF MarketAccepts, Reply
<1>24. ASSUME NEW r \in wire, MarketRefuses(r) PROVE MarkedBeforeSend'
  BY <1>24 DEF MarketRefuses, Reply
<1>25. ASSUME NEW r \in wire, RequestLost(r) PROVE MarkedBeforeSend'
  BY <1>25 DEF RequestLost
<1>26. ASSUME Unlock PROVE MarkedBeforeSend'
  BY <1>26 DEF Unlock
<1>27. ASSUME UserEdit PROVE MarkedBeforeSend'
  BY <1>27 DEF UserEdit
<1>28. ASSUME Crash PROVE MarkedBeforeSend'
  BY <1>28 DEF Crash
<1>29. CASE UNCHANGED vars BY <1>29 DEF vars, execVars, marketVars
<1> QED BY <1>1, <1>2, <1>3, <1>4, <1>5, <1>6, <1>7, <1>8, <1>9, <1>10, <1>11, <1>12, <1>13, <1>14, <1>15, <1>16, <1>17, <1>18, <1>19, <1>20, <1>21, <1>22, <1>23, <1>24, <1>25, <1>26, <1>27, <1>28, <1>29 DEF Next, UserStep, CommandStep, MarketStep

---------------------------------------------------------------------------
(* One batch command at a time.                                            *)

Solo == \A c, d \in PlanCallers : c = d

CopyIsJournal == \A c \in PlanCallers : pc[c] \in Busy => journal = mem[c]

Issued ==
  /\ \A p \in PlanIds, i \in Items : Outstanding(p, i) => p < nextPlan
  /\ journal \in Plan => journal.plan < nextPlan

WireOnce ==
  /\ \A r \in wire : r.n = sends[r.plan][r.item] /\ applied[r.plan][r.item] = 0
  /\ \A r, q \in wire : r.plan = q.plan /\ r.item = q.item => r = q

InHand(c) ==
  LET p == mem[c].plan
      i == idx[c] IN
  /\ pc[c] # "wait" => answer[c] = "none"
  /\ pc[c] \in {"review", "send"} => ~Outstanding(p, i)
  /\ pc[c] = "wait" =>
       /\ waiting[c] = sends[p][i]
       /\ answer[c] = "refused" => ~Outstanding(p, i)
       /\ answer[c] = "accepted" => applied[p][i] = 1
  /\ pc[c] = "record" =>
       /\ result[c] \in {"pending", "error"} => ~Outstanding(p, i)
       /\ result[c] = "ok" => applied[p][i] = 1 /\ ~ \E r \in wire : r.plan = p /\ r.item = i

Hands == \A c \in PlanCallers : InHand(c)

JournalSafe ==
  journal \in Plan => \A i \in Items :
    /\ Outstanding(journal.plan, i) => journal.status[i] # "pending"
    /\ journal.status[i] = "ok" => applied[journal.plan][i] = 1 /\ ~ \E r \in wire : r.plan = journal.plan /\ r.item = i
    /\ journal.status[i] = "error" => ~Outstanding(journal.plan, i)

LEMMA AcceptWire ==
  ASSUME TypeOK, WireOnce, AtMostOnce, NEW r \in wire, MarketAccepts(r)
  PROVE  (WireOnce /\ AtMostOnce)'
<1>1. /\ r.plan \in PlanIds /\ r.item \in Items
      /\ wire' = wire \ {r} /\ sends' = sends
      /\ \A p \in PlanIds, i \in Items :
            applied'[p][i] = IF p = r.plan /\ i = r.item THEN applied[p][i] + 1 ELSE applied[p][i]
  BY AcceptFacts
<1>2. applied[r.plan][r.item] = 0 BY DEF WireOnce
<1>3. AtMostOnce' BY <1>1, <1>2 DEF AtMostOnce
<1>4. \A q \in wire' : q.plan \in PlanIds /\ q.item \in Items /\ q \in wire /\ q # r
  BY <1>1 DEF TypeOK, MarketTypes, Request
<1>5. \A q \in wire' : applied'[q.plan][q.item] = applied[q.plan][q.item]
  BY <1>1, <1>4 DEF WireOnce
<1>6. WireOnce' BY <1>1, <1>4, <1>5 DEF WireOnce
<1> QED BY <1>3, <1>6

LEMMA AcceptHands ==
  ASSUME TypeOK, Local, WireOnce, Hands, NEW r \in wire, MarketAccepts(r)
  PROVE  Hands'
<1> SUFFICES ASSUME NEW c \in PlanCallers PROVE InHand(c)' BY DEF Hands
<1>1. c \in Callers BY DEF Callers
<1>2. /\ r.plan \in PlanIds /\ r.item \in Items
      /\ wire' = wire \ {r}
      /\ \A p \in PlanIds, i \in Items :
            applied'[p][i] = IF p = r.plan /\ i = r.item THEN applied[p][i] + 1 ELSE applied[p][i]
      /\ \A p \in PlanIds, i \in Items : Outstanding(p, i)' => Outstanding(p, i)
      /\ UNCHANGED <<pc, mem, idx, result, waiting, sends>>
  BY AcceptFacts
<1>3. answer'[c] = IF pc[c] = "wait" /\ mem[c].plan = r.plan /\ idx[c] = r.item /\ waiting[c] = r.n
                   THEN "accepted" ELSE answer[c]
  BY <1>1, AcceptFacts
<1>4. InHand(c) BY DEF Hands
<1>5. pc[c] \in {"review", "send", "wait", "record"} => mem[c].plan \in PlanIds /\ idx[c] \in Items
  BY <1>1, TaskFacts, PlanFacts DEF Busy, AtWork
<1>6. applied[r.plan][r.item] = 0 /\ r.n = sends[r.plan][r.item] BY DEF WireOnce
<1>7. CASE pc[c] = "wait"
  <2>1. answer'[c] = "refused" => ~Outstanding(mem[c].plan, idx[c])' BY <1>2, <1>3, <1>4, <1>5, <1>7 DEF InHand
  <2>2. answer'[c] = "accepted" => applied'[mem[c].plan][idx[c]] = 1
    <3>1. CASE mem[c].plan = r.plan /\ idx[c] = r.item BY <1>2, <1>6, <3>1
    <3>2. CASE ~(mem[c].plan = r.plan /\ idx[c] = r.item) BY <1>2, <1>3, <1>4, <1>5, <1>7, <3>2 DEF InHand
    <3> QED BY <3>1, <3>2
  <2> QED BY <1>2, <1>4, <1>7, <2>1, <2>2 DEF InHand
<1>8. CASE pc[c] = "record"
  <2>1. answer'[c] = "none" BY <1>3, <1>4, <1>8 DEF InHand
  <2>2. result[c] \in {"pending", "error"} => ~Outstanding(mem[c].plan, idx[c])'
    BY <1>2, <1>4, <1>5, <1>8 DEF InHand
  <2>3. result[c] = "ok" => /\ applied'[mem[c].plan][idx[c]] = 1
                           /\ ~ \E q \in wire' : q.plan = mem[c].plan /\ q.item = idx[c]
    BY <1>2, <1>4, <1>5, <1>8 DEF InHand
  <2> QED BY <1>2, <1>8, <2>1, <2>2, <2>3 DEF InHand
<1>9. CASE pc[c] \notin {"wait", "record"}
  BY <1>2, <1>3, <1>4, <1>5, <1>9 DEF InHand
<1> QED BY <1>7, <1>8, <1>9

LEMMA SendHands ==
  ASSUME TypeOK, Local, Hands, NEW c \in PlanCallers, Send(c), Solo
  PROVE  Hands'
<1> SUFFICES ASSUME NEW d \in PlanCallers PROVE InHand(d)' BY DEF Hands
<1>1. d = c /\ c \in Callers BY DEF Solo, Callers
<1>2. InHand(c) /\ pc[c] = "send" BY DEF Hands, Send
<1>3. mem[c].plan \in PlanIds /\ idx[c] \in Items BY <1>1, <1>2, TaskFacts, PlanFacts DEF Busy, AtWork
<1>4. /\ pc'[c] = "wait" /\ waiting'[c] = sends'[mem[c].plan][idx[c]]
      /\ UNCHANGED <<mem, idx, answer>>
  BY <1>1, <1>3 DEF Send, TypeOK, TaskTypes, MarketTypes
<1>5. answer[c] = "none" BY <1>2 DEF InHand
<1> QED BY <1>1, <1>4, <1>5 DEF InHand

LEMMA AcceptJournal ==
  ASSUME TypeOK, JournalSafe, NEW r \in wire, MarketAccepts(r)
  PROVE  JournalSafe'
<1> SUFFICES ASSUME journal \in Plan, journal' = journal, NEW i \in Items
    PROVE  (/\ Outstanding(journal.plan, i) => journal.status[i] # "pending"
            /\ journal.status[i] = "ok" =>
                 applied[journal.plan][i] = 1 /\ ~ \E q \in wire : q.plan = journal.plan /\ q.item = i
            /\ journal.status[i] = "error" => ~Outstanding(journal.plan, i))'
  BY AcceptFacts DEF JournalSafe
<1>1. journal.plan \in PlanIds BY DEF Plan
<1>2. /\ Outstanding(journal.plan, i)' => Outstanding(journal.plan, i)
      /\ wire' = wire \ {r}
      /\ applied'[journal.plan][i] =
           IF journal.plan = r.plan /\ i = r.item THEN applied[journal.plan][i] + 1 ELSE applied[journal.plan][i]
  BY <1>1, AcceptFacts
<1>3. journal.status[i] = "ok" => ~(journal.plan = r.plan /\ i = r.item) BY DEF JournalSafe
<1> QED BY <1>2, <1>3 DEF JournalSafe

LEMMA RecordJournal ==
  ASSUME NEW c \in PlanCallers, NEW i \in Items, NEW st \in Status,
         journal \in Plan, JournalSafe, InHand(c), pc[c] = "record",
         mem[c] = journal, idx[c] = i, result[c] = st,
         journal' \in {journal, WithStatus(journal, i, st)}, UNCHANGED <<wire, applied>>
  PROVE  JournalSafe'
<1>1. CASE journal' = journal BY <1>1 DEF JournalSafe, Outstanding
<1>2. CASE journal' = WithStatus(journal, i, st)
  <2>1. /\ journal'.plan = journal.plan
        /\ \A j \in Items : journal'.status[j] = IF j = i THEN st ELSE journal.status[j]
    BY <1>2, StatusFacts
  <2>2. \A j \in Items : Outstanding(journal.plan, j)' <=> Outstanding(journal.plan, j)
    BY <2>1 DEF Outstanding
  <2>3. /\ st \in {"pending", "error"} => ~Outstanding(journal.plan, i)
        /\ st = "ok" => applied[journal.plan][i] = 1 /\ ~ \E r \in wire : r.plan = journal.plan /\ r.item = i
    BY DEF InHand
  <2> QED BY <2>1, <2>2, <2>3 DEF JournalSafe
<1> QED BY <1>1, <1>2

LEMMA CopyStep == TypeOK /\ Local /\ OneMutator /\ Solo /\ CopyIsJournal /\ [Next]_vars => CopyIsJournal'
<1> SUFFICES ASSUME TypeOK, Local, OneMutator, Solo, CopyIsJournal, [Next]_vars PROVE CopyIsJournal' OBVIOUS
<1> USE NamesAssumption DEF TypeOK, TaskTypes, Local, LocalTo, OneMutator, Holding, Solo, CopyIsJournal, Callers, Busy, AtWork, execVars, marketVars
<1>1. ASSUME NEW c \in PlanCallers, SubmitBegin(c) PROVE CopyIsJournal'
  BY <1>1 DEF SubmitBegin, GuardFree
<1>2. ASSUME NEW c \in PlanCallers, SubmitRefused(c) PROVE CopyIsJournal'
  BY <1>2 DEF SubmitRefused, Return
<1>3. ASSUME NEW c \in PlanCallers, SubmitSeed(c) PROVE CopyIsJournal'
  BY <1>3 DEF SubmitSeed, Return, WriteOk, WriteFailed
<1>4. ASSUME NEW c \in PlanCallers, ResumeLoad(c) PROVE CopyIsJournal'
  BY <1>4 DEF ResumeLoad, Saved
<1>5. ASSUME NEW c \in PlanCallers, ResumeBegin(c) PROVE CopyIsJournal'
  BY <1>5 DEF ResumeBegin, GuardFree
<1>6. ASSUME NEW c \in PlanCallers, ResumeRefused(c) PROVE CopyIsJournal'
  BY <1>6 DEF ResumeRefused, Return
<1>7. ASSUME NEW c \in PlanCallers, Discard(c) PROVE CopyIsJournal'
  BY <1>7 DEF Discard, GuardFree, Saved
<1>8. ASSUME NEW c \in PlanCallers, LogoutClean(c) PROVE CopyIsJournal'
  BY <1>8 DEF LogoutClean, GuardFree
<1>9. ASSUME NEW c \in PlanCallers, StopEarly(c) PROVE CopyIsJournal'
  BY <1>9 DEF StopEarly
<1>10. ASSUME NEW c \in PlanCallers, SkipItem(c) PROVE CopyIsJournal'
  BY <1>10 DEF SkipItem
<1>11. ASSUME NEW c \in PlanCallers, MarkItem(c) PROVE CopyIsJournal'
  BY <1>11 DEF MarkItem, Return, WriteOk, WriteFailed, Marked, Offered
<1>12. ASSUME NEW c \in PlanCallers, LoopDone(c) PROVE CopyIsJournal'
  BY <1>12 DEF LoopDone
<1>13. ASSUME NEW c \in PlanCallers, ReviewFails(c) PROVE CopyIsJournal'
  BY <1>13 DEF ReviewFails, Decide
<1>14. ASSUME NEW c \in PlanCallers, ReviewPasses(c) PROVE CopyIsJournal'
  BY <1>14 DEF ReviewPasses
<1>15. ASSUME NEW c \in PlanCallers, SendDeferred(c) PROVE CopyIsJournal'
  BY <1>15 DEF SendDeferred, Decide
<1>16. ASSUME NEW c \in PlanCallers, Send(c) PROVE CopyIsJournal'
  BY <1>16 DEF Send
<1>17. ASSUME NEW c \in PlanCallers, TakeAnswer(c) PROVE CopyIsJournal'
  BY <1>17 DEF TakeAnswer, Decide, StatusesOf
<1>18. ASSUME NEW c \in PlanCallers, LoseAnswer(c) PROVE CopyIsJournal'
  BY <1>18 DEF LoseAnswer, Decide, StatusOfLost
<1>19. ASSUME NEW c \in PlanCallers, RecordItem(c) PROVE CopyIsJournal'
  BY <1>19 DEF RecordItem, Return, WriteOk, WriteFailed
<1>20. ASSUME NEW c \in PlanCallers, Finish(c) PROVE CopyIsJournal'
  BY <1>20 DEF Finish, Return, Saved
<1>21. ASSUME NEW c \in Editors, EditBegin(c) PROVE CopyIsJournal'
  BY <1>21 DEF EditBegin, GuardFree
<1>22. ASSUME NEW c \in Editors, EditEnd(c) PROVE CopyIsJournal'
  BY <1>22 DEF EditEnd, Return
<1>23. ASSUME NEW r \in wire, MarketAccepts(r) PROVE CopyIsJournal'
  BY <1>23 DEF MarketAccepts, Reply
<1>24. ASSUME NEW r \in wire, MarketRefuses(r) PROVE CopyIsJournal'
  BY <1>24 DEF MarketRefuses, Reply
<1>25. ASSUME NEW r \in wire, RequestLost(r) PROVE CopyIsJournal'
  BY <1>25 DEF RequestLost
<1>26. ASSUME Unlock PROVE CopyIsJournal'
  BY <1>26 DEF Unlock
<1>27. ASSUME UserEdit PROVE CopyIsJournal'
  BY <1>27 DEF UserEdit
<1>28. ASSUME Crash PROVE CopyIsJournal'
  BY <1>28 DEF Crash
<1>29. CASE UNCHANGED vars BY <1>29 DEF vars, execVars, marketVars
<1> QED BY <1>1, <1>2, <1>3, <1>4, <1>5, <1>6, <1>7, <1>8, <1>9, <1>10, <1>11, <1>12, <1>13, <1>14, <1>15, <1>16, <1>17, <1>18, <1>19, <1>20, <1>21, <1>22, <1>23, <1>24, <1>25, <1>26, <1>27, <1>28, <1>29 DEF Next, UserStep, CommandStep, MarketStep

LEMMA IssuedStep == TypeOK /\ Local /\ OneMutator /\ Solo /\ CopyIsJournal /\ Issued /\ [Next]_vars => Issued'
<1> SUFFICES ASSUME TypeOK, Local, OneMutator, Solo, CopyIsJournal, Issued, [Next]_vars PROVE Issued' OBVIOUS
<1> USE NamesAssumption, PlanFacts DEF TypeOK, TaskTypes, StoreTypes, MarketTypes, Local, LocalTo, OneMutator, Holding, Solo, CopyIsJournal, Issued, Outstanding, Callers, Busy, AtWork, execVars, marketVars
<1>1. ASSUME NEW c \in PlanCallers, SubmitBegin(c) PROVE Issued'
  BY <1>1 DEF SubmitBegin, GuardFree
<1>2. ASSUME NEW c \in PlanCallers, SubmitRefused(c) PROVE Issued'
  BY <1>2 DEF SubmitRefused, Return
<1>3. ASSUME NEW c \in PlanCallers, SubmitSeed(c) PROVE Issued'
  <2>1. nextPlan \in PlanIds /\ Seeded(nextPlan).plan = nextPlan /\ nextPlan < nextPlan + 1
    BY <1>3, SeededFacts DEF SubmitSeed, PlanIds
  <2>2. journal' \in {journal, Seeded(nextPlan)} BY <1>3 DEF SubmitSeed, WriteOk, WriteFailed
  <2>3. nextPlan' = nextPlan + 1 /\ wire' = wire /\ applied' = applied BY <1>3 DEF SubmitSeed
  <2>4. \A p \in PlanIds : p < nextPlan => p < nextPlan' BY <2>3 DEF PlanIds
  <2>5. \A p \in PlanIds, i \in Items : Outstanding(p, i)' <=> Outstanding(p, i) BY <2>3
  <2>6. \A p \in PlanIds, i \in Items : Outstanding(p, i)' => p < nextPlan' BY <2>4, <2>5
  <2>7. journal' \in Plan => journal'.plan < nextPlan'
    <3>1. CASE journal' = Seeded(nextPlan) BY <2>1, <2>3, <3>1
    <3>2. CASE journal' = journal
      <4>1. journal \in Plan => journal.plan \in PlanIds /\ journal.plan < nextPlan BY DEF Plan
      <4> HIDE DEF TypeOK, Local, LocalTo, OneMutator, Solo, CopyIsJournal, Issued
      <4> QED BY <2>4, <3>2, <4>1
    <3> QED BY <2>2, <3>1, <3>2
  <2> QED BY <2>6, <2>7
<1>4. ASSUME NEW c \in PlanCallers, ResumeLoad(c) PROVE Issued'
  BY <1>4 DEF ResumeLoad, Saved
<1>5. ASSUME NEW c \in PlanCallers, ResumeBegin(c) PROVE Issued'
  BY <1>5 DEF ResumeBegin, GuardFree
<1>6. ASSUME NEW c \in PlanCallers, ResumeRefused(c) PROVE Issued'
  BY <1>6 DEF ResumeRefused, Return
<1>7. ASSUME NEW c \in PlanCallers, Discard(c) PROVE Issued'
  BY <1>7 DEF Discard, GuardFree, Saved
<1>8. ASSUME NEW c \in PlanCallers, LogoutClean(c) PROVE Issued'
  BY <1>8 DEF LogoutClean, GuardFree
<1>9. ASSUME NEW c \in PlanCallers, StopEarly(c) PROVE Issued'
  BY <1>9 DEF StopEarly
<1>10. ASSUME NEW c \in PlanCallers, SkipItem(c) PROVE Issued'
  BY <1>10 DEF SkipItem
<1>11. ASSUME NEW c \in PlanCallers, MarkItem(c) PROVE Issued'
  <2>1. mem[c] \in Plan /\ idx[c] \in Items /\ journal = mem[c] BY <1>11, TaskFacts DEF MarkItem
  <2>2. Marked(mem[c], idx[c]).plan = mem[c].plan BY <2>1, MarkedFacts
  <2> QED BY <1>11, <2>1, <2>2 DEF MarkItem, WriteOk, WriteFailed
<1>12. ASSUME NEW c \in PlanCallers, LoopDone(c) PROVE Issued'
  BY <1>12 DEF LoopDone
<1>13. ASSUME NEW c \in PlanCallers, ReviewFails(c) PROVE Issued'
  BY <1>13 DEF ReviewFails, Decide
<1>14. ASSUME NEW c \in PlanCallers, ReviewPasses(c) PROVE Issued'
  BY <1>14 DEF ReviewPasses
<1>15. ASSUME NEW c \in PlanCallers, SendDeferred(c) PROVE Issued'
  BY <1>15 DEF SendDeferred, Decide
<1>16. ASSUME NEW c \in PlanCallers, Send(c) PROVE Issued'
  BY <1>16 DEF Send
<1>17. ASSUME NEW c \in PlanCallers, TakeAnswer(c) PROVE Issued'
  BY <1>17 DEF TakeAnswer, Decide, StatusesOf
<1>18. ASSUME NEW c \in PlanCallers, LoseAnswer(c) PROVE Issued'
  BY <1>18 DEF LoseAnswer, Decide, StatusOfLost
<1>19. ASSUME NEW c \in PlanCallers, RecordItem(c) PROVE Issued'
  <2>1. mem[c] \in Plan /\ idx[c] \in Items /\ result[c] \in Status /\ journal = mem[c]
    BY <1>19, TaskFacts DEF RecordItem
  <2>2. WithStatus(mem[c], idx[c], result[c]).plan = mem[c].plan BY <2>1, StatusFacts
  <2> QED BY <1>19, <2>1, <2>2 DEF RecordItem, WriteOk, WriteFailed
<1>20. ASSUME NEW c \in PlanCallers, Finish(c) PROVE Issued'
  BY <1>20 DEF Finish, Return, Saved
<1>21. ASSUME NEW c \in Editors, EditBegin(c) PROVE Issued'
  BY <1>21 DEF EditBegin, GuardFree
<1>22. ASSUME NEW c \in Editors, EditEnd(c) PROVE Issued'
  BY <1>22 DEF EditEnd, Return
<1>23. ASSUME NEW r \in wire, MarketAccepts(r) PROVE Issued'
  <2>1. \A p \in PlanIds, i \in Items : Outstanding(p, i)' => Outstanding(p, i)
    BY <1>23, AcceptFacts
  <2>2. UNCHANGED <<journal, nextPlan>> BY <1>23, AcceptFacts
  <2> QED BY <2>1, <2>2
<1>24. ASSUME NEW r \in wire, MarketRefuses(r) PROVE Issued'
  BY <1>24 DEF MarketRefuses, Reply
<1>25. ASSUME NEW r \in wire, RequestLost(r) PROVE Issued'
  BY <1>25 DEF RequestLost
<1>26. ASSUME Unlock PROVE Issued'
  BY <1>26 DEF Unlock
<1>27. ASSUME UserEdit PROVE Issued'
  BY <1>27 DEF UserEdit
<1>28. ASSUME Crash PROVE Issued'
  BY <1>28 DEF Crash
<1>29. CASE UNCHANGED vars BY <1>29 DEF vars, execVars, marketVars
<1> QED BY <1>1, <1>2, <1>3, <1>4, <1>5, <1>6, <1>7, <1>8, <1>9, <1>10, <1>11, <1>12, <1>13, <1>14, <1>15, <1>16, <1>17, <1>18, <1>19, <1>20, <1>21, <1>22, <1>23, <1>24, <1>25, <1>26, <1>27, <1>28, <1>29 DEF Next, UserStep, CommandStep, MarketStep

LEMMA WireStep == TypeOK /\ Local /\ Hands /\ AtMostOnce /\ WireOnce /\ [Next]_vars => (WireOnce /\ AtMostOnce)'
<1> SUFFICES ASSUME TypeOK, Local, Hands, AtMostOnce, WireOnce, [Next]_vars PROVE (WireOnce /\ AtMostOnce)' OBVIOUS
<1> USE NamesAssumption, PlanFacts DEF TypeOK, TaskTypes, StoreTypes, MarketTypes, Request, Local, LocalTo, Hands, InHand, WireOnce, AtMostOnce, Outstanding, Callers, Busy, AtWork, execVars, marketVars
<1>1. ASSUME NEW c \in PlanCallers, SubmitBegin(c) PROVE (WireOnce /\ AtMostOnce)'
  BY <1>1 DEF SubmitBegin, GuardFree
<1>2. ASSUME NEW c \in PlanCallers, SubmitRefused(c) PROVE (WireOnce /\ AtMostOnce)'
  BY <1>2 DEF SubmitRefused, Return
<1>3. ASSUME NEW c \in PlanCallers, SubmitSeed(c) PROVE (WireOnce /\ AtMostOnce)'
  BY <1>3 DEF SubmitSeed, Return, WriteOk, WriteFailed
<1>4. ASSUME NEW c \in PlanCallers, ResumeLoad(c) PROVE (WireOnce /\ AtMostOnce)'
  BY <1>4 DEF ResumeLoad, Saved
<1>5. ASSUME NEW c \in PlanCallers, ResumeBegin(c) PROVE (WireOnce /\ AtMostOnce)'
  BY <1>5 DEF ResumeBegin, GuardFree
<1>6. ASSUME NEW c \in PlanCallers, ResumeRefused(c) PROVE (WireOnce /\ AtMostOnce)'
  BY <1>6 DEF ResumeRefused, Return
<1>7. ASSUME NEW c \in PlanCallers, Discard(c) PROVE (WireOnce /\ AtMostOnce)'
  BY <1>7 DEF Discard, GuardFree, Saved
<1>8. ASSUME NEW c \in PlanCallers, LogoutClean(c) PROVE (WireOnce /\ AtMostOnce)'
  BY <1>8 DEF LogoutClean, GuardFree
<1>9. ASSUME NEW c \in PlanCallers, StopEarly(c) PROVE (WireOnce /\ AtMostOnce)'
  BY <1>9 DEF StopEarly
<1>10. ASSUME NEW c \in PlanCallers, SkipItem(c) PROVE (WireOnce /\ AtMostOnce)'
  BY <1>10 DEF SkipItem
<1>11. ASSUME NEW c \in PlanCallers, MarkItem(c) PROVE (WireOnce /\ AtMostOnce)'
  BY <1>11 DEF MarkItem, Return, WriteOk, WriteFailed, Marked, Offered
<1>12. ASSUME NEW c \in PlanCallers, LoopDone(c) PROVE (WireOnce /\ AtMostOnce)'
  BY <1>12 DEF LoopDone
<1>13. ASSUME NEW c \in PlanCallers, ReviewFails(c) PROVE (WireOnce /\ AtMostOnce)'
  BY <1>13 DEF ReviewFails, Decide
<1>14. ASSUME NEW c \in PlanCallers, ReviewPasses(c) PROVE (WireOnce /\ AtMostOnce)'
  BY <1>14 DEF ReviewPasses
<1>15. ASSUME NEW c \in PlanCallers, SendDeferred(c) PROVE (WireOnce /\ AtMostOnce)'
  BY <1>15 DEF SendDeferred, Decide
<1>16. ASSUME NEW c \in PlanCallers, Send(c) PROVE (WireOnce /\ AtMostOnce)'
  BY <1>16 DEF Send
<1>17. ASSUME NEW c \in PlanCallers, TakeAnswer(c) PROVE (WireOnce /\ AtMostOnce)'
  BY <1>17 DEF TakeAnswer, Decide, StatusesOf
<1>18. ASSUME NEW c \in PlanCallers, LoseAnswer(c) PROVE (WireOnce /\ AtMostOnce)'
  BY <1>18 DEF LoseAnswer, Decide, StatusOfLost
<1>19. ASSUME NEW c \in PlanCallers, RecordItem(c) PROVE (WireOnce /\ AtMostOnce)'
  BY <1>19 DEF RecordItem, Return, WriteOk, WriteFailed
<1>20. ASSUME NEW c \in PlanCallers, Finish(c) PROVE (WireOnce /\ AtMostOnce)'
  BY <1>20 DEF Finish, Return, Saved
<1>21. ASSUME NEW c \in Editors, EditBegin(c) PROVE (WireOnce /\ AtMostOnce)'
  BY <1>21 DEF EditBegin, GuardFree
<1>22. ASSUME NEW c \in Editors, EditEnd(c) PROVE (WireOnce /\ AtMostOnce)'
  BY <1>22 DEF EditEnd, Return
<1>23. ASSUME NEW r \in wire, MarketAccepts(r) PROVE (WireOnce /\ AtMostOnce)'
  BY <1>23, AcceptWire
<1>24. ASSUME NEW r \in wire, MarketRefuses(r) PROVE (WireOnce /\ AtMostOnce)'
  BY <1>24 DEF MarketRefuses, Reply
<1>25. ASSUME NEW r \in wire, RequestLost(r) PROVE (WireOnce /\ AtMostOnce)'
  BY <1>25 DEF RequestLost
<1>26. ASSUME Unlock PROVE (WireOnce /\ AtMostOnce)'
  BY <1>26 DEF Unlock
<1>27. ASSUME UserEdit PROVE (WireOnce /\ AtMostOnce)'
  BY <1>27 DEF UserEdit
<1>28. ASSUME Crash PROVE (WireOnce /\ AtMostOnce)'
  BY <1>28 DEF Crash
<1>29. CASE UNCHANGED vars BY <1>29 DEF vars, execVars, marketVars
<1> QED BY <1>1, <1>2, <1>3, <1>4, <1>5, <1>6, <1>7, <1>8, <1>9, <1>10, <1>11, <1>12, <1>13, <1>14, <1>15, <1>16, <1>17, <1>18, <1>19, <1>20, <1>21, <1>22, <1>23, <1>24, <1>25, <1>26, <1>27, <1>28, <1>29 DEF Next, UserStep, CommandStep, MarketStep

LEMMA HandStep == TypeOK /\ Local /\ OneMutator /\ Solo /\ CopyIsJournal /\ MarkedBeforeSend /\ WireOnce /\ JournalSafe /\ Hands /\ [Next]_vars => Hands'
<1> SUFFICES ASSUME TypeOK, Local, OneMutator, Solo, CopyIsJournal, MarkedBeforeSend, WireOnce, JournalSafe, Hands, [Next]_vars PROVE Hands' OBVIOUS
<1> USE NamesAssumption, PlanFacts DEF TypeOK, TaskTypes, StoreTypes, MarketTypes, Request, Local, LocalTo, OneMutator, Holding, Solo, CopyIsJournal, WireOnce, Hands, InHand, Outstanding, JournalSafe, Callers, Busy, AtWork, execVars, marketVars
<1>1. ASSUME NEW c \in PlanCallers, SubmitBegin(c) PROVE Hands'
  BY <1>1 DEF SubmitBegin, GuardFree
<1>2. ASSUME NEW c \in PlanCallers, SubmitRefused(c) PROVE Hands'
  BY <1>2 DEF SubmitRefused, Return
<1>3. ASSUME NEW c \in PlanCallers, SubmitSeed(c) PROVE Hands'
  BY <1>3 DEF SubmitSeed, Return, WriteOk, WriteFailed
<1>4. ASSUME NEW c \in PlanCallers, ResumeLoad(c) PROVE Hands'
  BY <1>4 DEF ResumeLoad, Saved
<1>5. ASSUME NEW c \in PlanCallers, ResumeBegin(c) PROVE Hands'
  BY <1>5 DEF ResumeBegin, GuardFree
<1>6. ASSUME NEW c \in PlanCallers, ResumeRefused(c) PROVE Hands'
  BY <1>6 DEF ResumeRefused, Return
<1>7. ASSUME NEW c \in PlanCallers, Discard(c) PROVE Hands'
  BY <1>7 DEF Discard, GuardFree, Saved
<1>8. ASSUME NEW c \in PlanCallers, LogoutClean(c) PROVE Hands'
  BY <1>8 DEF LogoutClean, GuardFree
<1>9. ASSUME NEW c \in PlanCallers, StopEarly(c) PROVE Hands'
  BY <1>9 DEF StopEarly
<1>10. ASSUME NEW c \in PlanCallers, SkipItem(c) PROVE Hands'
  BY <1>10 DEF SkipItem
<1>11. ASSUME NEW c \in PlanCallers, MarkItem(c) PROVE Hands'
  <2>1. mem[c] \in Plan /\ idx[c] \in Items /\ journal = mem[c] BY <1>11, TaskFacts DEF MarkItem
  <2>2. Marked(mem[c], idx[c]).plan = mem[c].plan BY <2>1, MarkedFacts
  <2>3. ~Outstanding(mem[c].plan, idx[c]) BY <1>11, <2>1 DEF MarkItem, Offered
  <2>4. UNCHANGED <<wire, applied, sends>> BY <1>11 DEF MarkItem
  <2>5. CASE Return(c) BY <1>11, <2>4, <2>5, SMTT(20) DEF MarkItem, Return
  <2>6. CASE ~Return(c) BY <1>11, <2>2, <2>3, <2>4, <2>6 DEF MarkItem
  <2> QED BY <2>5, <2>6
<1>12. ASSUME NEW c \in PlanCallers, LoopDone(c) PROVE Hands'
  BY <1>12 DEF LoopDone
<1>13. ASSUME NEW c \in PlanCallers, ReviewFails(c) PROVE Hands'
  BY <1>13 DEF ReviewFails, Decide
<1>14. ASSUME NEW c \in PlanCallers, ReviewPasses(c) PROVE Hands'
  BY <1>14 DEF ReviewPasses
<1>15. ASSUME NEW c \in PlanCallers, SendDeferred(c) PROVE Hands'
  BY <1>15 DEF SendDeferred, Decide
<1>16. ASSUME NEW c \in PlanCallers, Send(c) PROVE Hands'
  BY <1>16, SendHands
<1>17. ASSUME NEW c \in PlanCallers, TakeAnswer(c) PROVE Hands'
  BY <1>17 DEF TakeAnswer, Decide, StatusesOf
<1>18. ASSUME NEW c \in PlanCallers, LoseAnswer(c) PROVE Hands'
  BY <1>18 DEF LoseAnswer, Decide, StatusOfLost
<1>19. ASSUME NEW c \in PlanCallers, RecordItem(c) PROVE Hands'
  BY <1>19 DEF RecordItem, Return, WriteOk, WriteFailed
<1>20. ASSUME NEW c \in PlanCallers, Finish(c) PROVE Hands'
  BY <1>20 DEF Finish, Return, Saved
<1>21. ASSUME NEW c \in Editors, EditBegin(c) PROVE Hands'
  BY <1>21 DEF EditBegin, GuardFree
<1>22. ASSUME NEW c \in Editors, EditEnd(c) PROVE Hands'
  BY <1>22 DEF EditEnd, Return
<1>23. ASSUME NEW r \in wire, MarketAccepts(r) PROVE Hands'
  BY <1>23, AcceptHands
<1>24. ASSUME NEW r \in wire, MarketRefuses(r) PROVE Hands'
  BY <1>24 DEF MarketRefuses, Reply
<1>25. ASSUME NEW r \in wire, RequestLost(r) PROVE Hands'
  BY <1>25 DEF RequestLost
<1>26. ASSUME Unlock PROVE Hands'
  BY <1>26 DEF Unlock
<1>27. ASSUME UserEdit PROVE Hands'
  BY <1>27 DEF UserEdit
<1>28. ASSUME Crash PROVE Hands'
  BY <1>28 DEF Crash
<1>29. CASE UNCHANGED vars BY <1>29 DEF vars, execVars, marketVars
<1> QED BY <1>1, <1>2, <1>3, <1>4, <1>5, <1>6, <1>7, <1>8, <1>9, <1>10, <1>11, <1>12, <1>13, <1>14, <1>15, <1>16, <1>17, <1>18, <1>19, <1>20, <1>21, <1>22, <1>23, <1>24, <1>25, <1>26, <1>27, <1>28, <1>29 DEF Next, UserStep, CommandStep, MarketStep

LEMMA JournalStep == TypeOK /\ Local /\ OneMutator /\ Solo /\ CopyIsJournal /\ MarkedBeforeSend /\ Issued /\ WireOnce /\ Hands /\ JournalSafe /\ [Next]_vars => JournalSafe'
<1> SUFFICES ASSUME TypeOK, Local, OneMutator, Solo, CopyIsJournal, MarkedBeforeSend, Issued, WireOnce, Hands, JournalSafe, [Next]_vars PROVE JournalSafe' OBVIOUS
<1> USE NamesAssumption, PlanFacts DEF TypeOK, TaskTypes, StoreTypes, MarketTypes, Request, Local, LocalTo, OneMutator, Holding, Solo, CopyIsJournal, Issued, MarkedBeforeSend, WireOnce, Hands, InHand, JournalSafe, Outstanding, Callers, Busy, AtWork, execVars, marketVars
<1>1. ASSUME NEW c \in PlanCallers, SubmitBegin(c) PROVE JournalSafe'
  BY <1>1 DEF SubmitBegin, GuardFree
<1>2. ASSUME NEW c \in PlanCallers, SubmitRefused(c) PROVE JournalSafe'
  BY <1>2 DEF SubmitRefused, Return
<1>3. ASSUME NEW c \in PlanCallers, SubmitSeed(c) PROVE JournalSafe'
  <2>1. nextPlan \in PlanIds /\ UNCHANGED <<wire, applied>> BY <1>3 DEF SubmitSeed
  <2>2. Seeded(nextPlan).plan = nextPlan /\ \A i \in Items : Seeded(nextPlan).status[i] = "pending"
    BY <2>1, SeededFacts
  <2>3. \A i \in Items : ~Outstanding(nextPlan, i) BY <2>1 DEF PlanIds
  <2>4. journal' \in {journal, Seeded(nextPlan)} BY <1>3 DEF SubmitSeed, WriteOk, WriteFailed
  <2> QED BY <2>1, <2>2, <2>3, <2>4
<1>4. ASSUME NEW c \in PlanCallers, ResumeLoad(c) PROVE JournalSafe'
  BY <1>4 DEF ResumeLoad, Saved
<1>5. ASSUME NEW c \in PlanCallers, ResumeBegin(c) PROVE JournalSafe'
  BY <1>5 DEF ResumeBegin, GuardFree
<1>6. ASSUME NEW c \in PlanCallers, ResumeRefused(c) PROVE JournalSafe'
  BY <1>6 DEF ResumeRefused, Return
<1>7. ASSUME NEW c \in PlanCallers, Discard(c) PROVE JournalSafe'
  BY <1>7 DEF Discard, GuardFree, Saved
<1>8. ASSUME NEW c \in PlanCallers, LogoutClean(c) PROVE JournalSafe'
  BY <1>8 DEF LogoutClean, GuardFree
<1>9. ASSUME NEW c \in PlanCallers, StopEarly(c) PROVE JournalSafe'
  BY <1>9 DEF StopEarly
<1>10. ASSUME NEW c \in PlanCallers, SkipItem(c) PROVE JournalSafe'
  BY <1>10 DEF SkipItem
<1>11. ASSUME NEW c \in PlanCallers, MarkItem(c) PROVE JournalSafe'
  <2>1. mem[c] \in Plan /\ idx[c] \in Items /\ journal = mem[c] BY <1>11, TaskFacts DEF MarkItem
  <2>2. journal' \in {journal, Marked(mem[c], idx[c])} /\ UNCHANGED <<wire, applied>>
    BY <1>11 DEF MarkItem, WriteOk, WriteFailed
  <2>3. CASE journal' = journal BY <2>2, <2>3
  <2>4. CASE journal' = Marked(mem[c], idx[c])
    <3>1. journal'.plan = journal.plan /\ journal'.status[idx[c]] = "uncertain"
          /\ \A j \in Items : j # idx[c] => journal'.status[j] = journal.status[j]
      BY <2>1, <2>4, MarkedFacts
    <3>2. \A j \in Items : Outstanding(journal.plan, j)' <=> Outstanding(journal.plan, j) BY <2>2, <3>1
    <3>3. ASSUME NEW j \in Items
          PROVE  /\ Outstanding(journal.plan, j)' => journal'.status[j] # "pending"
                 /\ journal'.status[j] = "ok" => applied'[journal'.plan][j] = 1
                      /\ ~ \E r \in wire' : r.plan = journal'.plan /\ r.item = j
                 /\ journal'.status[j] = "error" => ~Outstanding(journal.plan, j)'
      <4>1. CASE j = idx[c] BY <3>1, <4>1
      <4>2. CASE j # idx[c] BY <2>1, <2>2, <3>1, <3>3, <4>2
      <4> QED BY <4>1, <4>2
    <3> QED BY <3>3
  <2> QED BY <2>2, <2>3, <2>4
<1>12. ASSUME NEW c \in PlanCallers, LoopDone(c) PROVE JournalSafe'
  BY <1>12 DEF LoopDone
<1>13. ASSUME NEW c \in PlanCallers, ReviewFails(c) PROVE JournalSafe'
  BY <1>13 DEF ReviewFails, Decide
<1>14. ASSUME NEW c \in PlanCallers, ReviewPasses(c) PROVE JournalSafe'
  BY <1>14 DEF ReviewPasses
<1>15. ASSUME NEW c \in PlanCallers, SendDeferred(c) PROVE JournalSafe'
  BY <1>15 DEF SendDeferred, Decide
<1>16. ASSUME NEW c \in PlanCallers, Send(c) PROVE JournalSafe'
  BY <1>16 DEF Send
<1>17. ASSUME NEW c \in PlanCallers, TakeAnswer(c) PROVE JournalSafe'
  BY <1>17 DEF TakeAnswer, Decide, StatusesOf
<1>18. ASSUME NEW c \in PlanCallers, LoseAnswer(c) PROVE JournalSafe'
  BY <1>18 DEF LoseAnswer, Decide, StatusOfLost
<1>19. ASSUME NEW c \in PlanCallers, RecordItem(c) PROVE JournalSafe'
  <2>1. /\ mem[c] \in Plan /\ idx[c] \in Items /\ result[c] \in Status
        /\ journal = mem[c] /\ InHand(c) /\ pc[c] = "record"
    BY <1>19, TaskFacts DEF RecordItem
  <2>2. journal' \in {journal, WithStatus(mem[c], idx[c], result[c])} /\ UNCHANGED <<wire, applied>>
    BY <1>19 DEF RecordItem, WriteOk, WriteFailed
  <2> QED BY <2>1, <2>2, RecordJournal
<1>20. ASSUME NEW c \in PlanCallers, Finish(c) PROVE JournalSafe'
  BY <1>20 DEF Finish, Return, Saved
<1>21. ASSUME NEW c \in Editors, EditBegin(c) PROVE JournalSafe'
  BY <1>21 DEF EditBegin, GuardFree
<1>22. ASSUME NEW c \in Editors, EditEnd(c) PROVE JournalSafe'
  BY <1>22 DEF EditEnd, Return
<1>23. ASSUME NEW r \in wire, MarketAccepts(r) PROVE JournalSafe'
  BY <1>23, AcceptJournal
<1>24. ASSUME NEW r \in wire, MarketRefuses(r) PROVE JournalSafe'
  BY <1>24 DEF MarketRefuses, Reply
<1>25. ASSUME NEW r \in wire, RequestLost(r) PROVE JournalSafe'
  BY <1>25 DEF RequestLost
<1>26. ASSUME Unlock PROVE JournalSafe'
  BY <1>26 DEF Unlock
<1>27. ASSUME UserEdit PROVE JournalSafe'
  BY <1>27 DEF UserEdit
<1>28. ASSUME Crash PROVE JournalSafe'
  BY <1>28 DEF Crash
<1>29. CASE UNCHANGED vars BY <1>29 DEF vars, execVars, marketVars
<1> QED BY <1>1, <1>2, <1>3, <1>4, <1>5, <1>6, <1>7, <1>8, <1>9, <1>10, <1>11, <1>12, <1>13, <1>14, <1>15, <1>16, <1>17, <1>18, <1>19, <1>20, <1>21, <1>22, <1>23, <1>24, <1>25, <1>26, <1>27, <1>28, <1>29 DEF Next, UserStep, CommandStep, MarketStep

---------------------------------------------------------------------------
(* The theorems.                                                           *)

Base == TypeOK /\ Local /\ OneMutator /\ MarkedBeforeSend

LEMMA InitBase == Init => Base
<1> SUFFICES ASSUME Init PROVE Base OBVIOUS
<1> USE BoundsAssumption, NamesAssumption, NumberFacts, PlanFacts
<1>1. TaskTypes BY DEF Init, TaskTypes, NoOrders, Holding
<1>2. StoreTypes
  <2>1. (CHOOSE b \in Batches : TRUE) \in [Items -> ItemSpec] OBVIOUS
  <2>2. 1 \in 1 .. (MaxPlans + 1) /\ 0 \in 0 .. MaxCrashes OBVIOUS
  <2> QED BY <2>1, <2>2 DEF Init, StoreTypes
<1>3. MarketTypes BY DEF Init, MarketTypes
<1>4. Local /\ OneMutator /\ MarkedBeforeSend
  BY DEF Init, Local, LocalTo, OneMutator, MarkedBeforeSend, Busy, AtWork, Holding, Callers
<1> QED BY <1>1, <1>2, <1>3, <1>4 DEF Base, TypeOK

LEMMA StepBase == Base /\ [Next]_vars => Base'
BY TypeStep, LocalStep, GuardStep, MarkStep DEF Base

LEMMA AlwaysBase == Spec => []Base
BY InitBase, StepBase, PTL DEF Spec

\* Every variable keeps its type, for any number of tasks, items and crashes.
THEOREM TypeCorrect == Spec => []TypeOK
BY AlwaysBase, PTL DEF Base

\* The account guard excludes every pair of order mutators.
THEOREM GuardExcludes == Spec => []OneMutator
BY AlwaysBase, PTL DEF Base

\* However many tasks compete, the item in hand is uncertain on disk before its
\* orders are read, while its request is out, and until its result is saved.
THEOREM DiskMarkedFirst == Spec => []MarkedBeforeSend
BY AlwaysBase, PTL DEF Base

SoloInv == CopyIsJournal /\ Issued /\ WireOnce /\ Hands /\ JournalSafe /\ AtMostOnce

LEMMA InitSolo == Init => SoloInv
<1> SUFFICES ASSUME Init PROVE SoloInv OBVIOUS
<1> USE NamesAssumption
<1>1. CopyIsJournal BY DEF Init, CopyIsJournal, Busy, AtWork, Callers
<1>2. Issued BY DEF Init, Issued, Outstanding
<1>3. WireOnce BY DEF Init, WireOnce
<1>4. Hands BY DEF Init, Hands, InHand, Callers
<1>5. JournalSafe BY DEF Init, JournalSafe
<1>6. AtMostOnce BY DEF Init, AtMostOnce
<1> QED BY <1>1, <1>2, <1>3, <1>4, <1>5, <1>6 DEF SoloInv

LEMMA StepSolo == Solo /\ Base /\ SoloInv /\ [Next]_vars => SoloInv'
BY CopyStep, IssuedStep, WireStep, HandStep, JournalStep DEF Base, SoloInv

\* With one batch command at a time, the market carries out a reviewed item at
\* most once: across resumes, crashes, lost or late answers and failed writes.
THEOREM CarriedOutAtMostOnce == ASSUME Solo PROVE Spec => []AtMostOnce
<1>1. Init => SoloInv BY InitSolo
<1>2. Base /\ SoloInv /\ [Next]_vars => SoloInv' BY StepSolo
<1> QED BY <1>1, <1>2, AlwaysBase, PTL DEF Spec, SoloInv

LEMMA SoloNeverReoffers == Base /\ SoloInv => NeverReofferedInDoubt
<1> SUFFICES ASSUME Base, SoloInv, NEW p \in PlanIds, NEW i \in Items, Outstanding(p, i)
             PROVE  /\ Saved /\ journal.plan = p => journal.status[i] # "pending"
                    /\ \A c \in Callers : mem[c].plan = p => mem[c].status[i] # "pending"
  BY DEF NeverReofferedInDoubt
<1>1. Saved => journal \in Plan BY DEF Base, TypeOK, StoreTypes, Saved
<1>2. Saved /\ journal.plan = p => journal.status[i] # "pending" BY <1>1 DEF SoloInv, JournalSafe
<1>3. ASSUME NEW c \in Callers, mem[c].plan = p PROVE mem[c].status[i] # "pending"
  <2>1. mem[c] \in Plan BY <1>3 DEF Base, TypeOK, TaskTypes, Blank, PlanIds
  <2>2. c \in PlanCallers /\ journal = mem[c]
    BY <2>1 DEF Base, Local, LocalTo, Callers, SoloInv, CopyIsJournal, Busy, AtWork
  <2> QED BY <2>1, <2>2, <1>3 DEF SoloInv, JournalSafe
<1> QED BY <1>2, <1>3

\* With one batch command at a time, an item that was or still may be carried
\* out is never offered again, by the saved record or by a running copy.
THEOREM InDoubtNeverReoffered == ASSUME Solo PROVE Spec => []NeverReofferedInDoubt
<1>1. Init => SoloInv BY InitSolo
<1>2. Base /\ SoloInv /\ [Next]_vars => SoloInv' BY StepSolo
<1> QED BY <1>1, <1>2, SoloNeverReoffers, AlwaysBase, PTL DEF Spec

LEMMA SoloTruth == Base /\ SoloInv => JournalTellsTheTruth
<1> SUFFICES ASSUME Base, SoloInv, Saved, NEW i \in Items
             PROVE  LET p == journal.plan IN
               /\ journal.status[i] = "ok" => applied[p][i] = 1
               /\ journal.status[i] = "error" => applied[p][i] = 0
               /\ journal.status[i] \in {"ok", "error"} => ~ \E r \in wire : r.plan = p /\ r.item = i
  BY DEF JournalTellsTheTruth
<1>1. journal \in Plan BY DEF Base, TypeOK, StoreTypes, Saved
<1>2. applied[journal.plan][i] \in Nat BY <1>1, PlanFacts DEF Base, TypeOK, MarketTypes
<1> QED BY <1>1, <1>2 DEF SoloInv, JournalSafe, Outstanding

\* With one batch command at a time, what the journal calls ok was carried out
\* exactly once, what it calls error was not, and neither is still on its way.
THEOREM JournalIsTruthful == ASSUME Solo PROVE Spec => []JournalTellsTheTruth
<1>1. Init => SoloInv BY InitSolo
<1>2. Base /\ SoloInv /\ [Next]_vars => SoloInv' BY StepSolo
<1> QED BY <1>1, <1>2, SoloTruth, AlwaysBase, PTL DEF Spec

---------------------------------------------------------------------------
(* How a step may change the journal, and what follows for what it ends.   *)

JournalMove ==
  \/ UNCHANGED <<journal, dropped>> /\ nextPlan' \in {nextPlan, nextPlan + 1}
  \/ /\ journal = Absent /\ journal' = Seeded(nextPlan) /\ nextPlan \in PlanIds
     /\ nextPlan' = nextPlan + 1 /\ dropped' = dropped
  \/ /\ journal \in Plan /\ journal' \in Plan /\ journal'.plan = journal.plan
     /\ UNCHANGED <<nextPlan, dropped>>
  \/ journal \in Plan /\ Finished(journal) /\ journal' = Absent /\ UNCHANGED <<nextPlan, dropped>>
  \/ /\ journal' = Absent /\ nextPlan' = nextPlan
     /\ dropped' = IF Saved THEN dropped \cup {journal.plan} ELSE dropped

LEMMA JournalMoves == TypeOK /\ Local /\ Solo /\ CopyIsJournal /\ [Next]_vars => JournalMove
<1> SUFFICES ASSUME TypeOK, Local, Solo, CopyIsJournal, [Next]_vars PROVE JournalMove OBVIOUS
<1> USE DEF JournalMove, execVars, marketVars
<1>1. ASSUME NEW c \in PlanCallers, SubmitBegin(c) PROVE JournalMove
  BY <1>1 DEF SubmitBegin
<1>2. ASSUME NEW c \in PlanCallers, SubmitRefused(c) PROVE JournalMove
  BY <1>2 DEF SubmitRefused
<1>3. ASSUME NEW c \in PlanCallers, SubmitSeed(c) PROVE JournalMove
  BY <1>3 DEF SubmitSeed, CanSubmit, WriteOk, WriteFailed
<1>4. ASSUME NEW c \in PlanCallers, ResumeLoad(c) PROVE JournalMove
  BY <1>4 DEF ResumeLoad
<1>5. ASSUME NEW c \in PlanCallers, ResumeBegin(c) PROVE JournalMove
  BY <1>5 DEF ResumeBegin
<1>6. ASSUME NEW c \in PlanCallers, ResumeRefused(c) PROVE JournalMove
  BY <1>6 DEF ResumeRefused
<1>7. ASSUME NEW c \in PlanCallers, Discard(c) PROVE JournalMove
  BY <1>7 DEF Discard
<1>8. ASSUME NEW c \in PlanCallers, LogoutClean(c) PROVE JournalMove
  BY <1>8 DEF LogoutClean
<1>9. ASSUME NEW c \in PlanCallers, StopEarly(c) PROVE JournalMove
  BY <1>9 DEF StopEarly
<1>10. ASSUME NEW c \in PlanCallers, SkipItem(c) PROVE JournalMove
  BY <1>10 DEF SkipItem
<1>11. ASSUME NEW c \in PlanCallers, MarkItem(c) PROVE JournalMove
  <2>1. mem[c] \in Plan /\ idx[c] \in Items /\ journal = mem[c]
    BY <1>11, TaskFacts DEF MarkItem, CopyIsJournal, Callers, Busy
  <2>2. Marked(mem[c], idx[c]).plan = mem[c].plan /\ Marked(mem[c], idx[c]) \in Plan
    BY <1>11, <2>1, MarkedFacts, TaskFacts DEF MarkItem, Callers
  <2> QED BY <1>11, <2>1, <2>2 DEF MarkItem, WriteOk, WriteFailed
<1>12. ASSUME NEW c \in PlanCallers, LoopDone(c) PROVE JournalMove
  BY <1>12 DEF LoopDone
<1>13. ASSUME NEW c \in PlanCallers, ReviewFails(c) PROVE JournalMove
  BY <1>13 DEF ReviewFails
<1>14. ASSUME NEW c \in PlanCallers, ReviewPasses(c) PROVE JournalMove
  BY <1>14 DEF ReviewPasses
<1>15. ASSUME NEW c \in PlanCallers, SendDeferred(c) PROVE JournalMove
  BY <1>15 DEF SendDeferred
<1>16. ASSUME NEW c \in PlanCallers, Send(c) PROVE JournalMove
  BY <1>16 DEF Send
<1>17. ASSUME NEW c \in PlanCallers, TakeAnswer(c) PROVE JournalMove
  BY <1>17 DEF TakeAnswer
<1>18. ASSUME NEW c \in PlanCallers, LoseAnswer(c) PROVE JournalMove
  BY <1>18 DEF LoseAnswer
<1>19. ASSUME NEW c \in PlanCallers, RecordItem(c) PROVE JournalMove
  <2>1. mem[c] \in Plan /\ idx[c] \in Items /\ result[c] \in Status /\ journal = mem[c]
    BY <1>19, TaskFacts DEF RecordItem, CopyIsJournal, Callers, Busy, AtWork
  <2>2. /\ WithStatus(mem[c], idx[c], result[c]).plan = mem[c].plan
        /\ WithStatus(mem[c], idx[c], result[c]) \in Plan
    BY <2>1, StatusFacts, PlanFacts
  <2> QED BY <1>19, <2>1, <2>2 DEF RecordItem, WriteOk, WriteFailed
<1>20. ASSUME NEW c \in PlanCallers, Finish(c) PROVE JournalMove
  BY <1>20 DEF Finish, Saved, TypeOK, StoreTypes
<1>21. ASSUME NEW c \in Editors, EditBegin(c) PROVE JournalMove
  BY <1>21 DEF EditBegin
<1>22. ASSUME NEW c \in Editors, EditEnd(c) PROVE JournalMove
  BY <1>22 DEF EditEnd
<1>23. ASSUME NEW r \in wire, MarketAccepts(r) PROVE JournalMove
  BY <1>23 DEF MarketAccepts
<1>24. ASSUME NEW r \in wire, MarketRefuses(r) PROVE JournalMove
  BY <1>24 DEF MarketRefuses
<1>25. ASSUME NEW r \in wire, RequestLost(r) PROVE JournalMove
  BY <1>25 DEF RequestLost
<1>26. ASSUME Unlock PROVE JournalMove
  BY <1>26 DEF Unlock
<1>27. ASSUME UserEdit PROVE JournalMove
  BY <1>27 DEF UserEdit
<1>28. ASSUME Crash PROVE JournalMove
  BY <1>28 DEF Crash
<1>29. CASE UNCHANGED vars BY <1>29 DEF vars
<1> QED BY <1>1, <1>2, <1>3, <1>4, <1>5, <1>6, <1>7, <1>8, <1>9, <1>10, <1>11, <1>12, <1>13, <1>14, <1>15, <1>16, <1>17, <1>18, <1>19, <1>20, <1>21, <1>22, <1>23, <1>24, <1>25, <1>26, <1>27, <1>28, <1>29 DEF Next, UserStep, CommandStep, MarketStep

\* A discarded batch had its number, and is not the one on disk.
Gone ==
  /\ \A p \in dropped : p < nextPlan
  /\ journal \in Plan => journal.plan \notin dropped

LEMMA GoneStep == Base /\ Issued /\ Gone /\ JournalMove => Gone'
<1> SUFFICES ASSUME Base, Issued, Gone, JournalMove PROVE Gone' OBVIOUS
<1>1. nextPlan \in Nat /\ dropped \subseteq Nat
  BY BoundsAssumption DEF Base, TypeOK, StoreTypes, PlanIds
<1>2. Absent \notin Plan /\ (Saved => journal \in Plan)
  BY NamesAssumption DEF Saved, Base, TypeOK, StoreTypes
<1>3. nextPlan' \in {nextPlan, nextPlan + 1} BY DEF JournalMove
<1>4. \A p \in dropped' : p < nextPlan'
  <2>1. \A p \in dropped : p < nextPlan' BY <1>1, <1>3 DEF Gone
  <2>2. Saved => journal.plan < nextPlan BY <1>2 DEF Issued
  <2> QED BY <2>1, <2>2, <1>1 DEF JournalMove
<1>5. journal' \in Plan => journal'.plan \notin dropped'
  <2>1. nextPlan \in PlanIds => Seeded(nextPlan).plan = nextPlan BY SeededFacts
  <2>2. nextPlan \notin dropped BY <1>1 DEF Gone
  <2> QED BY <1>2, <2>1, <2>2 DEF JournalMove, Gone
<1> QED BY <1>4, <1>5 DEF Gone

EndsRightly ==
  /\ Saved /\ ~Finished(journal) =>
       \/ Saved' /\ journal'.plan = journal.plan
       \/ journal' = Absent /\ journal.plan \in dropped'
  /\ Saved' => journal'.plan \notin dropped'

LEMMA EndStep == Base /\ Issued /\ Gone /\ JournalMove => EndsRightly
<1> SUFFICES ASSUME Base, Issued, Gone, JournalMove PROVE EndsRightly OBVIOUS
<1>1. Absent \notin Plan /\ Unreadable \notin Plan /\ (Saved <=> journal \in Plan)
  BY NamesAssumption DEF Saved, Base, TypeOK, StoreTypes
<1>2. journal' \in {Absent, Unreadable} \cup Plan
  BY PlanFacts DEF JournalMove, Base, TypeOK, StoreTypes
<1>3. Saved' <=> journal' \in Plan BY <1>1, <1>2 DEF Saved
<1>4. Gone' BY GoneStep
<1>5. Saved' => journal'.plan \notin dropped' BY <1>3, <1>4 DEF Gone
<1>6. ASSUME Saved, ~Finished(journal)
      PROVE \/ Saved' /\ journal'.plan = journal.plan
            \/ journal' = Absent /\ journal.plan \in dropped'
  BY <1>1, <1>3, <1>6 DEF JournalMove, Saved
<1> QED BY <1>5, <1>6 DEF EndsRightly

\* With one batch command at a time, a batch with anything unconfirmed leaves
\* the disk only by a discard or a logout, and a discarded one never returns.
THEOREM OnlyDiscardOrLogoutEnds == ASSUME Solo PROVE Spec => OnlyDiscardEnds
<1> DEFINE Inv == Base /\ SoloInv /\ Gone
<1>1. Init => Inv
  <2>1. Init => Gone BY NamesAssumption DEF Init, Gone
  <2> QED BY <2>1, InitBase, InitSolo
<1>2. Inv /\ [Next]_vars => Inv' /\ EndsRightly
  <2> SUFFICES ASSUME Inv, [Next]_vars PROVE Inv' /\ EndsRightly OBVIOUS
  <2>1. JournalMove BY JournalMoves DEF Base, SoloInv
  <2>2. Base' /\ SoloInv' BY StepBase, StepSolo
  <2>3. Gone' /\ EndsRightly BY <2>1, GoneStep, EndStep DEF SoloInv
  <2> QED BY <2>2, <2>3
<1>3. Inv /\ [Next]_vars => [EndsRightly]_vars BY <1>2
<1> HIDE DEF Inv
<1>4. Spec => [][EndsRightly]_vars BY <1>1, <1>2, <1>3, PTL DEF Spec
<1> QED BY <1>4 DEF OnlyDiscardEnds, EndsRightly

---------------------------------------------------------------------------
(* The executor implements OfferOnce.                                      *)

LEMMA SendOffers ==
  ASSUME Base, SoloInv, NEW c \in PlanCallers, Send(c)
  PROVE  \E o \in PlanIds \X Items : Lands!Offer(o)
<1> DEFINE p == mem[c].plan
           i == idx[c]
<1>1. c \in Callers /\ pc[c] = "send" BY DEF Callers, Send
<1>2. p \in PlanIds /\ i \in Items BY <1>1, TaskFacts, PlanFacts DEF Base, AtWork, Busy
<1>3. ~Outstanding(p, i) BY <1>1 DEF SoloInv, Hands, InHand
<1>4. applied[p][i] \in Nat BY <1>2 DEF Base, TypeOK, MarketTypes
<1>5. <<p, i>> \notin Flying \cup Landed BY <1>3, <1>4 DEF Outstanding, Flying, Landed
<1>6. PICK r : wire' = wire \cup {r} /\ r.plan = p /\ r.item = i /\ applied' = applied
  BY DEF Send
<1>7. Flying' = Flying \cup {<<p, i>>} /\ Landed' = Landed BY <1>6 DEF Flying, Landed
<1> QED BY <1>2, <1>5, <1>7 DEF Lands!Offer

\* A request that leaves the wire takes its item with it.
LEMMA LeavesWire ==
  ASSUME TypeOK, WireOnce, NEW r \in wire, wire' = wire \ {r}
  PROVE  /\ <<r.plan, r.item>> \in (PlanIds \X Items) \cap Flying
         /\ Flying' = Flying \ {<<r.plan, r.item>>}
<1>1. r.plan \in PlanIds /\ r.item \in Items BY DEF TypeOK, MarketTypes, Request
<1>2. \A q \in wire : q # r => <<q.plan, q.item>> # <<r.plan, r.item>> BY DEF WireOnce
<1> QED BY <1>1, <1>2 DEF Flying

LEMMA AcceptLands ==
  ASSUME Base, SoloInv, NEW r \in wire, MarketAccepts(r)
  PROVE  \E o \in PlanIds \X Items : Lands!Land(o)
<1>1. TypeOK /\ WireOnce BY DEF Base, SoloInv
<1>2. /\ wire' = wire \ {r}
      /\ \A p \in PlanIds, i \in Items :
           applied'[p][i] = IF p = r.plan /\ i = r.item THEN applied[p][i] + 1 ELSE applied[p][i]
  BY <1>1, AcceptFacts
<1>3. <<r.plan, r.item>> \in (PlanIds \X Items) \cap Flying /\ Flying' = Flying \ {<<r.plan, r.item>>}
  BY <1>1, <1>2, LeavesWire
<1>4. Landed' = Landed \cup {<<r.plan, r.item>>}
  <2>1. \A p \in PlanIds, i \in Items : applied[p][i] \in Nat BY <1>1 DEF TypeOK, MarketTypes
  <2>2. \A p \in PlanIds, i \in Items :
          applied'[p][i] > 0 <=> applied[p][i] > 0 \/ (p = r.plan /\ i = r.item)
    BY <1>2, <2>1
  <2>3. \A o \in PlanIds \X Items : o = <<o[1], o[2]>> /\ o[1] \in PlanIds /\ o[2] \in Items OBVIOUS
  <2>4. \A o \in PlanIds \X Items : o \in Landed' <=> o \in Landed \/ o = <<r.plan, r.item>>
    BY <2>2, <2>3 DEF Landed
  <2> QED BY <1>3, <2>4 DEF Landed
<1> QED BY <1>3, <1>4 DEF Lands!Land

LEMMA LossDies ==
  ASSUME Base, SoloInv, NEW r \in wire, wire' = wire \ {r}, applied' = applied
  PROVE  \E o \in PlanIds \X Items : Lands!Die(o)
<1>1. <<r.plan, r.item>> \in (PlanIds \X Items) \cap Flying /\ Flying' = Flying \ {<<r.plan, r.item>>}
  BY LeavesWire DEF Base, SoloInv
<1>2. Landed' = Landed BY DEF Landed
<1> QED BY <1>1, <1>2 DEF Lands!Die

LEMMA StepImplements == Base /\ SoloInv /\ [Next]_vars => [Lands!Next]_<<Flying, Landed>>
<1> SUFFICES ASSUME Base, SoloInv, [Next]_vars PROVE [Lands!Next]_<<Flying, Landed>> OBVIOUS
<1> DEFINE Rest == UNCHANGED <<wire, applied>>
<1> USE DEF execVars, marketVars
<1>1. ASSUME NEW c \in PlanCallers, SubmitBegin(c) PROVE Rest
  BY <1>1 DEF SubmitBegin
<1>2. ASSUME NEW c \in PlanCallers, SubmitRefused(c) PROVE Rest
  BY <1>2 DEF SubmitRefused
<1>3. ASSUME NEW c \in PlanCallers, SubmitSeed(c) PROVE Rest
  BY <1>3 DEF SubmitSeed
<1>4. ASSUME NEW c \in PlanCallers, ResumeLoad(c) PROVE Rest
  BY <1>4 DEF ResumeLoad
<1>5. ASSUME NEW c \in PlanCallers, ResumeBegin(c) PROVE Rest
  BY <1>5 DEF ResumeBegin
<1>6. ASSUME NEW c \in PlanCallers, ResumeRefused(c) PROVE Rest
  BY <1>6 DEF ResumeRefused
<1>7. ASSUME NEW c \in PlanCallers, Discard(c) PROVE Rest
  BY <1>7 DEF Discard
<1>8. ASSUME NEW c \in PlanCallers, LogoutClean(c) PROVE Rest
  BY <1>8 DEF LogoutClean
<1>9. ASSUME NEW c \in PlanCallers, StopEarly(c) PROVE Rest
  BY <1>9 DEF StopEarly
<1>10. ASSUME NEW c \in PlanCallers, SkipItem(c) PROVE Rest
  BY <1>10 DEF SkipItem
<1>11. ASSUME NEW c \in PlanCallers, MarkItem(c) PROVE Rest
  BY <1>11 DEF MarkItem
<1>12. ASSUME NEW c \in PlanCallers, LoopDone(c) PROVE Rest
  BY <1>12 DEF LoopDone
<1>13. ASSUME NEW c \in PlanCallers, ReviewFails(c) PROVE Rest
  BY <1>13 DEF ReviewFails
<1>14. ASSUME NEW c \in PlanCallers, ReviewPasses(c) PROVE Rest
  BY <1>14 DEF ReviewPasses
<1>15. ASSUME NEW c \in PlanCallers, SendDeferred(c) PROVE Rest
  BY <1>15 DEF SendDeferred
<1>16. ASSUME NEW c \in PlanCallers, TakeAnswer(c) PROVE Rest
  BY <1>16 DEF TakeAnswer
<1>17. ASSUME NEW c \in PlanCallers, LoseAnswer(c) PROVE Rest
  BY <1>17 DEF LoseAnswer
<1>18. ASSUME NEW c \in PlanCallers, RecordItem(c) PROVE Rest
  BY <1>18 DEF RecordItem
<1>19. ASSUME NEW c \in PlanCallers, Finish(c) PROVE Rest
  BY <1>19 DEF Finish
<1>20. ASSUME NEW c \in Editors, EditBegin(c) PROVE Rest
  BY <1>20 DEF EditBegin
<1>21. ASSUME NEW c \in Editors, EditEnd(c) PROVE Rest
  BY <1>21 DEF EditEnd
<1>22. ASSUME Unlock PROVE Rest
  BY <1>22 DEF Unlock
<1>23. ASSUME UserEdit PROVE Rest
  BY <1>23 DEF UserEdit
<1>24. ASSUME Crash PROVE Rest
  BY <1>24 DEF Crash
<1>25. ASSUME UNCHANGED vars PROVE Rest BY <1>25 DEF vars
<1>26. ASSUME NEW c \in PlanCallers, Send(c) PROVE Lands!Next BY <1>26, SendOffers DEF Lands!Next
<1>27. ASSUME NEW r \in wire, MarketAccepts(r) PROVE Lands!Next BY <1>27, AcceptLands DEF Lands!Next
<1>28. ASSUME NEW r \in wire, MarketRefuses(r) \/ RequestLost(r) PROVE Lands!Next
  BY <1>28, LossDies DEF Lands!Next, MarketRefuses, RequestLost
<1>29. Rest => UNCHANGED <<Flying, Landed>> BY DEF Flying, Landed
<1> QED BY <1>1, <1>2, <1>3, <1>4, <1>5, <1>6, <1>7, <1>8, <1>9, <1>10, <1>11, <1>12, <1>13, <1>14, <1>15, <1>16, <1>17, <1>18, <1>19, <1>20, <1>21, <1>22, <1>23, <1>24, <1>25, <1>26, <1>27, <1>28, <1>29 DEF Next, UserStep, CommandStep, MarketStep

\* With one batch command at a time, the executor with its journal implements
\* OfferOnce: no crash, lost answer or failed write offers an item again whose
\* request has landed or still may.
THEOREM ImplementsOfferOnce == ASSUME Solo PROVE Spec => OffersOnce
<1>1. Init => Lands!Init BY DEF Init, Lands!Init, Flying, Landed
<1>2. Base /\ SoloInv /\ [Next]_vars => [Lands!Next]_<<Flying, Landed>> BY StepImplements
<1>3. Base /\ SoloInv /\ [Next]_vars => SoloInv' BY StepSolo
<1> QED BY <1>1, <1>2, <1>3, InitSolo, AlwaysBase, PTL DEF Spec, OffersOnce, Lands!Spec

-----------------------------------------------------------------------------
(* The scan a listing is made from, over the scanner and the webview.        *)

LEMMA ScansStart == S!Init => ScansKept
  BY DEF S!Init, ScansKept, NothingUnrecorded, Recorded, S!Nothing, S!NoLoad, LatestIsSomewhere,
         Excused, OneLoad, NotOverwritten, AnswerIsNewer

\* What the five invariants speak of.
Placed == <<latest, told, shown, offer, loading, pull, events, excused>>

LEMMA NothingMoves == ScansKept /\ UNCHANGED Placed => ScansKept'
  BY DEF Placed, ScansKept, NothingUnrecorded, Recorded, LatestIsSomewhere, OnItsWay,
         Excused, OneLoad, NotOverwritten, AnswerIsNewer

\* A snapshot recorded with its identity is newer than any that is about; one without it
\* is excused.
LEMMA RecordingIsNewer ==
  ASSUME NothingUnrecorded, NEW id \in 0 .. MaxSnapshots, S!Recorded(id)
  PROVE /\ latest' \in Nat /\ latest <= latest'
        /\ \/ id = latest + 1 /\ latest' = id /\ excused' = excused
           \/ id = 0 /\ excused' = excused \cup {latest'}
  BY DEF NothingUnrecorded, S!Recorded

\* A thread that has recorded a snapshot is to publish it.
LEMMA RecordedInNative ==
  ASSUME ScansKept, NEW id \in 0 .. MaxSnapshots, S!Recorded(id), NEW t \in {"loop", "tray"},
         told' = [told EXCEPT ![t] = id], UNCHANGED <<shown, offer, loading, pull, events>>
  PROVE ScansKept'
<1> USE DEF ScansKept, Excused
<1>1. /\ latest' \in Nat /\ latest <= latest'
      /\ \/ id = latest + 1 /\ latest' = id /\ excused' = excused
         \/ id = 0 /\ excused' = excused \cup {latest'}
  BY RecordingIsNewer
<1>2. NothingUnrecorded'
  BY <1>1 DEF NothingUnrecorded, Recorded, S!Nothing
<1>3. LatestIsSomewhere'
  BY <1>1 DEF LatestIsSomewhere, OnItsWay, NothingUnrecorded
<1>4. OneLoad'
  BY DEF OneLoad
<1>5. NotOverwritten' /\ AnswerIsNewer'
  BY <1>1 DEF NotOverwritten, AnswerIsNewer, NothingUnrecorded
<1> QED BY <1>2, <1>3, <1>4, <1>5

LEMMA PublishKeeps == ASSUME ScansKept, NEW t \in {"loop", "tray"}, S!Publish(t) PROVE ScansKept'
<1> USE DEF ScansKept, Excused
<1>1. UNCHANGED <<latest, shown, offer, loading, pull, excused>>
  BY DEF S!Publish
<1>2. told' = [told EXCEPT ![t] = S!Nothing] /\ events' = Append(events, told[t]) /\ told[t] # S!Nothing
  BY DEF S!Publish
<1>3. told[t] \in Nat /\ told[t] <= latest
  BY <1>2 DEF NothingUnrecorded, Recorded
<1>4. /\ events' \in Seq(Nat) /\ Len(events') = Len(events) + 1 /\ events'[Len(events')] = told[t]
      /\ \A i \in 1 .. Len(events) : events'[i] = events[i]
  BY <1>2, <1>3 DEF NothingUnrecorded
<1>5. NothingUnrecorded'
  BY <1>1, <1>2, <1>3, <1>4 DEF NothingUnrecorded, Recorded
<1>6. LatestIsSomewhere'
  <2>1. CASE \E s \in {"loop", "tray"} : told[s] = latest
    <3>1. PICK s \in {"loop", "tray"} : told[s] = latest
      BY <2>1
    <3>2. CASE s = t
      <4>1. Len(events') \in 1 .. Len(events') /\ events'[Len(events')] = latest'
        BY <1>1, <1>4, <3>1, <3>2 DEF NothingUnrecorded
      <4> QED BY <4>1 DEF LatestIsSomewhere, OnItsWay
    <3>3. CASE s # t
      BY <1>1, <1>2, <3>1, <3>3 DEF LatestIsSomewhere, OnItsWay, NothingUnrecorded
    <3> QED BY <3>2, <3>3
  <2>2. CASE \E i \in 1 .. Len(events) : events[i] = latest
    <3>1. PICK i \in 1 .. Len(events) : events[i] = latest
      BY <2>2
    <3>2. i \in 1 .. Len(events') /\ events'[i] = latest'
      BY <3>1, <1>1, <1>4 DEF NothingUnrecorded
    <3> QED BY <3>2 DEF LatestIsSomewhere, OnItsWay
  <2> QED BY <1>1, <2>1, <2>2 DEF LatestIsSomewhere, OnItsWay
<1>7. OneLoad' /\ NotOverwritten' /\ AnswerIsNewer'
  BY <1>1 DEF OneLoad, NotOverwritten, AnswerIsNewer
<1> QED BY <1>5, <1>6, <1>7

\* The head of the events, and what its going leaves.
LEMMA HeadOfEvents ==
  ASSUME NothingUnrecorded, events # <<>>, events' = Tail(events)
  PROVE /\ Head(events) \in 0 .. latest /\ events' \in Seq(Nat)
        /\ \A i \in 1 .. Len(events') : events'[i] <= latest
        /\ \A i \in 1 .. Len(events) :
             events[i] = Head(events) \/ \E j \in 1 .. Len(events') : events'[j] = events[i]
<1>1. /\ events' \in Seq(Nat) /\ Len(events') = Len(events) - 1 /\ Head(events) = events[1]
      /\ 1 \in 1 .. Len(events) /\ \A i \in 1 .. Len(events') : events'[i] = events[i + 1]
  BY DEF NothingUnrecorded
<1>2. ASSUME NEW i \in 1 .. Len(events), i # 1
      PROVE \E j \in 1 .. Len(events') : events'[j] = events[i]
  <2>1. i - 1 \in 1 .. Len(events') /\ events'[i - 1] = events[i]
    BY <1>1, <1>2 DEF NothingUnrecorded
  <2> QED BY <2>1
<1>3. \A i \in 1 .. Len(events') : i + 1 \in 1 .. Len(events)
  BY <1>1 DEF NothingUnrecorded
<1> QED BY <1>1, <1>2, <1>3 DEF NothingUnrecorded

LEMMA BeginsTyped ==
  ASSUME NothingUnrecorded, NEW id \in 0 .. latest, NEW taken \in BOOLEAN, S!Begins(id, taken),
         latest' = latest
  PROVE /\ loading' \in [id : 0 .. latest, taken : BOOLEAN] /\ offer' \in Recorded'
        /\ pull' \in [at : {"idle", "walk", "answered"}, current : BOOLEAN, id : Recorded]'
        /\ loading'.id = id /\ pull'.at = pull.at /\ ~pull'.current /\ pull'.id = pull.id
<1>1. Recorded' = Recorded
  BY DEF Recorded
<1>2. pull' = [pull EXCEPT !.current = FALSE] /\ loading' = [id |-> id, taken |-> taken]
  BY DEF S!Begins
<1>3. offer' \in {offer, S!Nothing}
  BY DEF S!Begins
<1> QED BY <1>1, <1>2, <1>3 DEF NothingUnrecorded, Recorded

LEMMA HandleScanKeeps == ASSUME ScansKept, S!HandleScan PROVE ScansKept'
<1> USE DEF ScansKept, Excused
<1> DEFINE id == Head(events)
<1>1. UNCHANGED <<latest, told, shown>> /\ events # <<>> /\ events' = Tail(events)
      /\ excused' = IF id < latest THEN excused \cup {latest} ELSE excused
  BY DEF S!HandleScan, S!native
<1>2. \/ offer' = id /\ UNCHANGED <<loading, pull>>
      \/ S!Begins(id, FALSE)
  BY DEF S!HandleScan, S!Handed
<1>3. /\ id \in 0 .. latest /\ events' \in Seq(Nat)
      /\ \A i \in 1 .. Len(events') : events'[i] <= latest
      /\ \A i \in 1 .. Len(events) :
           events[i] = id \/ \E j \in 1 .. Len(events') : events'[j] = events[i]
  BY <1>1, HeadOfEvents
<1> HIDE DEF id
<1>4. NothingUnrecorded'
  <2>1. CASE offer' = id /\ UNCHANGED <<loading, pull>>
    BY <1>1, <1>3, <2>1 DEF NothingUnrecorded, Recorded
  <2>2. CASE S!Begins(id, FALSE)
    BY <1>1, <1>3, <2>2, BeginsTyped DEF NothingUnrecorded, Recorded
  <2> QED BY <1>2, <2>1, <2>2
<1>5. CASE id < latest
  <2>1. Excused' /\ OneLoad'
    BY <1>1, <1>2, <1>5, <1>4 DEF OneLoad, S!Begins, NothingUnrecorded
  <2> QED BY <1>4, <2>1 DEF LatestIsSomewhere, NotOverwritten, AnswerIsNewer
<1>6. CASE id = latest
  <2>1. offer' = latest' \/ loading'.id = latest'
    BY <1>1, <1>2, <1>6 DEF S!Begins
  <2>2. LatestIsSomewhere'
    BY <2>1 DEF LatestIsSomewhere, OnItsWay
  <2>3. OneLoad' /\ NotOverwritten' /\ AnswerIsNewer'
    BY <1>1, <1>2, <1>6 DEF OneLoad, NotOverwritten, AnswerIsNewer, NothingUnrecorded, S!Begins
  <2> QED BY <1>4, <2>2, <2>3
<1> QED BY <1>3, <1>5, <1>6 DEF NothingUnrecorded

LEMMA LoadKeeps == ASSUME ScansKept, S!Load PROVE ScansKept'
<1> USE DEF ScansKept, Excused
<1>1. UNCHANGED <<latest, told, events, pull>> /\ loading # S!NoLoad /\ loading' = S!NoLoad
  BY DEF S!Load, S!native
<1>2. \/ /\ shown' = loading.id /\ excused' = excused
         /\ \/ offer' = offer \/ (offer' = S!Nothing /\ (offer = loading.id \/ offer <= loading.id))
      \/ /\ excused' = excused \cup {loading.id} /\ shown' = shown
         /\ offer' = offer \/ (offer' = S!Nothing /\ offer = loading.id)
  BY DEF S!Load
<1>3. NothingUnrecorded'
  BY <1>1, <1>2 DEF NothingUnrecorded, Recorded, S!NoLoad, S!Nothing
<1>4. LatestIsSomewhere'
  <2>1. loading.id \in 0 .. latest
    BY <1>1 DEF NothingUnrecorded
  <2>2. Excused \/ latest \in {shown', offer'} \/ latest \in excused' \/ OnItsWay'
    <3>1. CASE latest = shown
      BY <1>1, <1>2, <3>1 DEF NotOverwritten
    <3>2. CASE latest = offer
      BY <1>1, <1>2, <2>1, <3>2 DEF NothingUnrecorded
    <3>3. CASE OnItsWay
      BY <1>1, <1>2, <3>3 DEF OnItsWay
    <3> QED BY <1>2, <3>1, <3>2, <3>3 DEF LatestIsSomewhere
  <2> QED BY <1>1, <1>2, <2>2 DEF LatestIsSomewhere
<1>5. OneLoad' /\ NotOverwritten'
  BY <1>1 DEF OneLoad, NotOverwritten
<1>6. AnswerIsNewer'
  BY <1>1, <1>2 DEF AnswerIsNewer, OneLoad, NothingUnrecorded
<1> QED BY <1>3, <1>4, <1>5, <1>6

LEMMA OfferKeeps == ASSUME ScansKept, S!Offer PROVE ScansKept'
<1> USE DEF ScansKept, Excused
<1>1. UNCHANGED <<latest, told, shown, events>> /\ offer # S!Nothing
  BY DEF S!Offer, S!native
<1>2. CASE S!Begins(offer, TRUE) /\ excused' = IF offer < latest THEN excused \cup {latest} ELSE excused
  <2>1. /\ loading' \in [id : 0 .. latest, taken : BOOLEAN] /\ offer' \in Recorded'
        /\ pull' \in [at : {"idle", "walk", "answered"}, current : BOOLEAN, id : Recorded]'
        /\ loading'.id = offer /\ pull'.at = pull.at /\ ~pull'.current /\ pull'.id = pull.id
    <3>1. offer \in 0 .. latest /\ latest' = latest
      BY <1>1 DEF NothingUnrecorded, Recorded
    <3> QED BY <1>2, <3>1, BeginsTyped
  <2>2. NothingUnrecorded'
    BY <1>1, <2>1 DEF NothingUnrecorded, Recorded
  <2>3. OneLoad' /\ AnswerIsNewer'
    BY <2>1 DEF OneLoad, AnswerIsNewer
  <2>4. CASE offer < latest
    BY <1>1, <1>2, <2>2, <2>3, <2>4 DEF LatestIsSomewhere, NotOverwritten
  <2>5. CASE offer = latest
    BY <1>1, <1>2, <2>1, <2>2, <2>3, <2>5 DEF LatestIsSomewhere, OnItsWay, NotOverwritten
  <2> QED BY <1>1, <2>4, <2>5 DEF NothingUnrecorded, Recorded
<1>3. CASE offer' = S!Nothing /\ excused' = excused \cup {offer} /\ UNCHANGED <<loading, pull>>
  <2>1. NothingUnrecorded'
    BY <1>1, <1>3 DEF NothingUnrecorded, Recorded
  <2>2. LatestIsSomewhere'
    BY <1>1, <1>3 DEF LatestIsSomewhere, OnItsWay
  <2>3. OneLoad' /\ NotOverwritten' /\ AnswerIsNewer'
    BY <1>1, <1>3 DEF OneLoad, NotOverwritten, AnswerIsNewer
  <2> QED BY <2>1, <2>2, <2>3
<1> QED BY <1>2, <1>3 DEF S!Offer

LEMMA ReloadKeeps == ASSUME ScansKept, S!Reload PROVE ScansKept'
<1> USE DEF ScansKept, Excused
<1>1. /\ UNCHANGED <<latest, told, shown>> /\ offer' = S!Nothing /\ loading' = S!NoLoad
      /\ events' = <<>> /\ latest' \in excused'
      /\ pull' = [at |-> IF pull.at = "walk" THEN "walk" ELSE "idle", current |-> FALSE,
                  id |-> S!Nothing]
  BY DEF S!Reload, S!native
<1>2. NothingUnrecorded'
  BY <1>1 DEF NothingUnrecorded, Recorded, S!NoLoad, S!Nothing
<1>3. LatestIsSomewhere' /\ OneLoad' /\ NotOverwritten' /\ AnswerIsNewer'
  BY <1>1 DEF LatestIsSomewhere, OneLoad, NotOverwritten, AnswerIsNewer
<1> QED BY <1>2, <1>3

\* The user's own scan: begun, walked, answered.
LEMMA PullKeeps == ASSUME ScansKept, S!Pull PROVE ScansKept'
<1> USE DEF ScansKept, Excused
<1>1. UNCHANGED <<told, shown, events>>
  BY DEF S!Pull
<1>2. ASSUME pull.at = "idle", UNCHANGED latest,
             pull' \in {pull, [at |-> "walk", current |-> TRUE, id |-> S!Nothing]},
             loading' = S!NoLoad, offer' = IF loading.taken /\ offer = loading.id THEN S!Nothing ELSE offer,
             excused' = IF loading = S!NoLoad THEN excused ELSE excused \cup {loading.id}
      PROVE ScansKept'
  <2>1. NothingUnrecorded'
    <3>1. /\ pull' \in [at : {"idle", "walk", "answered"}, current : BOOLEAN, id : Recorded]
          /\ pull'.at # "answered"
      <4>1. CASE pull' = pull
        BY <1>2, <4>1 DEF NothingUnrecorded
      <4>2. CASE pull' = [at |-> "walk", current |-> TRUE, id |-> S!Nothing]
        BY <4>2 DEF Recorded
      <4> QED BY <1>2, <4>1, <4>2
    <3> QED BY <1>1, <1>2, <3>1 DEF NothingUnrecorded, Recorded
  <2>2. latest = loading.id => Excused'
    BY <1>2 DEF S!NoLoad, S!Nothing, NothingUnrecorded
  <2>3. pull'.at # "answered"
    BY <1>2
  <2>4. LatestIsSomewhere'
    BY <1>1, <1>2, <2>2 DEF LatestIsSomewhere, OnItsWay
  <2>5. OneLoad' /\ NotOverwritten' /\ AnswerIsNewer'
    BY <1>2, <2>3 DEF OneLoad, NotOverwritten, AnswerIsNewer
  <2> QED BY <2>1, <2>4, <2>5
<1>3. ASSUME pull.at = "walk", UNCHANGED <<latest, loading, offer, excused>>,
             pull' = [pull EXCEPT !.at = "idle"]
      PROVE ScansKept'
  <2>1. pull'.at = "idle" /\ pull' \in [at : {"idle", "walk", "answered"}, current : BOOLEAN, id : Recorded]
    BY <1>3 DEF NothingUnrecorded
  <2>2. NothingUnrecorded'
    BY <1>1, <1>3, <2>1 DEF NothingUnrecorded, Recorded
  <2>3. LatestIsSomewhere'
    BY <1>1, <1>3 DEF LatestIsSomewhere, OnItsWay
  <2>4. OneLoad' /\ NotOverwritten' /\ AnswerIsNewer'
    BY <1>1, <1>3, <2>1 DEF OneLoad, NotOverwritten, AnswerIsNewer
  <2> QED BY <2>2, <2>3, <2>4
<1>4. ASSUME NEW id \in 0 .. MaxSnapshots, pull.at = "walk", UNCHANGED <<loading, offer>>, S!Recorded(id),
             pull' = [pull EXCEPT !.at = "answered", !.id = id]
      PROVE ScansKept'
  <2>1. /\ latest' \in Nat /\ latest <= latest'
        /\ \/ id = latest + 1 /\ latest' = id /\ excused' = excused
           \/ id = 0 /\ excused' = excused \cup {latest'}
    BY <1>4, RecordingIsNewer
  <2>2. /\ pull'.at = "answered" /\ pull'.id = id /\ pull'.current = pull.current
        /\ pull' \in [at : {"idle", "walk", "answered"}, current : BOOLEAN, id : Recorded']
        /\ id \in 0 .. latest'
    <3>1. pull' = [at |-> "answered", current |-> pull.current, id |-> id] /\ pull.current \in BOOLEAN
      BY <1>4 DEF NothingUnrecorded
    <3>2. id \in 0 .. latest' /\ id \in Recorded'
      BY <2>1 DEF Recorded, NothingUnrecorded
    <3> QED BY <3>1, <3>2
  <2>3. NothingUnrecorded'
    BY <1>1, <1>4, <2>1, <2>2 DEF NothingUnrecorded, Recorded, S!Nothing
  <2>4. LatestIsSomewhere'
    BY <2>1, <2>2 DEF LatestIsSomewhere, OnItsWay
  <2>5. OneLoad'
    BY <1>4, <2>2 DEF OneLoad
  <2>6. NotOverwritten' /\ AnswerIsNewer'
    BY <1>1, <1>4, <2>1 DEF NotOverwritten, AnswerIsNewer, NothingUnrecorded
  <2> QED BY <2>3, <2>4, <2>5, <2>6
<1>5. ASSUME pull.at = "answered", pull.current, UNCHANGED <<latest, excused>>,
             pull' = [at |-> "idle", current |-> TRUE, id |-> S!Nothing],
             loading' = [id |-> pull.id, taken |-> FALSE],
             offer' = IF loading.taken /\ offer = loading.id THEN S!Nothing ELSE offer
      PROVE ScansKept'
  <2>1. loading = S!NoLoad /\ offer' = offer
    BY <1>5 DEF OneLoad, S!NoLoad
  <2>2. NothingUnrecorded'
    BY <1>1, <1>5, <2>1 DEF NothingUnrecorded, Recorded, S!Nothing
  <2>3. LatestIsSomewhere'
    BY <1>1, <1>5, <2>1 DEF LatestIsSomewhere, OnItsWay, S!NoLoad, S!Nothing, NothingUnrecorded
  <2>4. OneLoad' /\ NotOverwritten' /\ AnswerIsNewer'
    BY <1>1, <1>5 DEF OneLoad, NotOverwritten, AnswerIsNewer
  <2> QED BY <2>2, <2>3, <2>4
<1>6. ASSUME pull.at = "answered", ~pull.current, UNCHANGED <<latest, loading, offer>>,
             pull' = [at |-> "idle", current |-> TRUE, id |-> S!Nothing],
             excused' = excused \cup {pull.id}
      PROVE ScansKept'
  <2>1. NothingUnrecorded'
    BY <1>1, <1>6 DEF NothingUnrecorded, Recorded, S!Nothing
  <2>2. LatestIsSomewhere'
    BY <1>1, <1>6 DEF LatestIsSomewhere, OnItsWay
  <2>3. OneLoad' /\ NotOverwritten' /\ AnswerIsNewer'
    BY <1>1, <1>6 DEF OneLoad, NotOverwritten, AnswerIsNewer
  <2> QED BY <2>1, <2>2, <2>3
<1> QED BY <1>2, <1>3, <1>4, <1>5, <1>6 DEF S!Pull, S!Fault

LEMMA ScansStep == ScansKept /\ [S!Next]_S!vars => ScansKept'
<1> SUFFICES ASSUME ScansKept, [S!Next]_S!vars PROVE ScansKept'
  OBVIOUS
<1> USE DEF S!loop, S!native, S!webview, S!outside, Placed
<1>1. ASSUME S!Tick \/ S!Try \/ S!Claim \/ S!Walk \/ S!Judge PROVE ScansKept'
  BY <1>1, NothingMoves DEF S!Tick, S!Try, S!Claim, S!Walk, S!Judge
<1>2. ASSUME S!Record PROVE ScansKept'
  BY <1>2, RecordedInNative DEF S!Record
<1>3. ASSUME S!Publish("loop") \/ S!Publish("tray") PROVE ScansKept'
  BY <1>3, PublishKeeps
<1>4. ASSUME S!TrayScan PROVE ScansKept'
  BY <1>4, RecordedInNative, NothingMoves DEF S!TrayScan
<1>5. ASSUME S!HandleScan PROVE ScansKept'
  BY <1>5, HandleScanKeeps
<1>6. ASSUME S!Load PROVE ScansKept'
  BY <1>6, LoadKeeps
<1>7. ASSUME S!Pull PROVE ScansKept'
  BY <1>7, PullKeeps
<1>8. ASSUME S!Offer PROVE ScansKept'
  BY <1>8, OfferKeeps
<1>9. ASSUME S!Reload PROVE ScansKept'
  BY <1>9, ReloadKeeps
<1>10. ASSUME S!Flow \/ S!SetHold \/ S!Outside PROVE ScansKept'
  BY <1>10, NothingMoves DEF S!Flow, S!SetHold, S!Outside
<1>11. CASE UNCHANGED S!vars
  BY <1>11, NothingMoves DEF S!vars
<1> QED BY <1>1, <1>2, <1>3, <1>4, <1>5, <1>6, <1>7, <1>8, <1>9, <1>10, <1>11
        DEF S!Next, S!Scan, S!User

(* LatestIsAtHand: a scan is handed over, offered or loaded once it is       *)
(* recorded, and whatever takes its place is newer or says so.               *)
THEOREM NewestScanIsAtHand == S!Spec => []LatestIsAtHand
<1>1. ScansKept => LatestIsAtHand
  <2> SUFFICES ASSUME ScansKept, S!Quiet PROVE latest \in {0, shown, offer} \cup excused
    BY DEF LatestIsAtHand, S!LatestIsAtHand
  <2>1. latest # S!Nothing /\ Len(events) = 0
    BY DEF ScansKept, NothingUnrecorded, S!Nothing, S!Quiet
  <2>2. ~OnItsWay
    BY <2>1 DEF OnItsWay, S!Quiet, S!NoLoad
  <2> QED BY <2>2 DEF ScansKept, LatestIsSomewhere, Excused
<1> QED BY <1>1, ScansStart, ScansStep, PTL DEF S!Spec
=============================================================================
