----------------------------- MODULE AlertProofs -----------------------------
(***************************************************************************)
(* AlertsSpaced, for any number of watches, copies, restarts and failures  *)
(* and any re-arm time.                                                    *)
(***************************************************************************)
EXTENDS Alerts, TLAPS

LEMMA OlderIsAge == \A age \in W!Age : W!Older(age) \in W!Age /\ age <= W!Older(age)
  BY PeriodsAndBounds DEF W!Age, W!Older

LEMMA AgedIsCopy ==
  \A w \in W!Copy : /\ W!Aged(w) \in W!Copy
                    /\ W!Aged(w).id = w.id /\ W!Aged(w).serial = w.serial
  BY OlderIsAge DEF W!Copy, W!Aged

LEMMA PrefixesAreSubsets == \A ws : W!Newest(ws) \subseteq ws /\ W!Cut(ws) \subseteq ws
  BY DEF W!Newest, W!Cut

LEMMA Zeros == 0 \in 0 .. 2 /\ 0 \in W!Age
  BY PeriodsAndBounds DEF W!Age

\* The states the pass and the stream take up when they copy the table, or give it back.
LEMMA PassTakes ==
  \A ws \in SUBSET W!Copy :
    [phase |-> "asking", todo |-> ws, saw |-> {}, lag |-> 0, fired |-> FALSE] \in W!PassStates
  BY Zenon, Zeros DEF W!PassStates
LEMMA PassRests == W!Resting \in W!PassStates
  BY Zenon, Zeros DEF W!Resting, W!PassStates
LEMMA StreamTakes ==
  \A ws \in SUBSET W!Copy :
    /\ [phase |-> "up", cache |-> ws, old |-> 0, hold |-> None, lag |-> 0, fired |-> FALSE]
         \in W!StreamStates
    /\ \A st \in W!StreamStates, age \in 0 .. 2 :
         [st EXCEPT !.cache = ws, !.old = age] \in W!StreamStates
  BY Zenon, Zeros DEF W!StreamStates
LEMMA StreamHolds ==
  \A st \in W!StreamStates, w \in W!Copy :
    [st EXCEPT !.phase = "notify", !.cache = {}, !.old = 0, !.hold = w] \in W!StreamStates
  BY Zenon, Zeros DEF W!StreamStates

\* What record_watch_check leaves: the rows, some with another age.
SameRows == \A q \in rows' : \E r \in rows : q.id = r.id /\ q.serial = r.serial

LEMMA RecordKeepsRows ==
  ASSUME W!TypeOK, NEW w \in W!Copy, NEW fired \in BOOLEAN, NEW lag \in W!Age,
         W!Record(w, fired, lag)
  PROVE  rows' \subseteq W!Copy /\ SameRows /\ events' \in 0 .. MaxEvents
<1>1. CASE W!RecordCheck(w, fired, lag) /\ UNCHANGED events
  <2>1. \A r \in rows : [r EXCEPT !.fired = lag] \in W!Copy
                        /\ [r EXCEPT !.fired = lag].id = r.id
                        /\ [r EXCEPT !.fired = lag].serial = r.serial
    BY DEF W!TypeOK, W!Copy
  <2>2. \A q \in rows' : q \in rows \/ \E r \in rows : q = [r EXCEPT !.fired = lag]
    BY <1>1 DEF W!RecordCheck
  <2>3. rows' \subseteq W!Copy
    BY <2>1, <2>2 DEF W!TypeOK
  <2>4. SameRows
    <3> SUFFICES ASSUME NEW q \in rows' PROVE \E r \in rows : q.id = r.id /\ q.serial = r.serial
      BY DEF SameRows
    <3> QED
      BY <2>1, <2>2
  <2> QED
    BY <1>1, <2>3, <2>4 DEF W!TypeOK
<1>2. CASE W!Event /\ UNCHANGED rows
  BY <1>2, PeriodsAndBounds DEF W!Event, SameRows, W!TypeOK
<1> QED
  BY <1>1, <1>2 DEF W!Record

\* What an announcement does to the checkpoint and the ear: nothing, or it claims the
\* checkpoint of a watch that may be announced, and is heard only then.
NotifyMoves(w) ==
  /\ events' \in 0 .. MaxEvents
  /\ \/ UNCHANGED <<mark, heard, nagged>>
     \/ /\ mark[w.id] = Rearm /\ mark' = [mark EXCEPT ![w.id] = 0]
        /\ \/ UNCHANGED <<heard, nagged>>
           \/ /\ heard' = [heard EXCEPT ![w.serial] = 0]
              /\ nagged' = IF heard[w.serial] < Rearm THEN nagged \cup {w.serial} ELSE nagged

LEMMA NotifyDoes ==
  ASSUME W!TypeOK, NEW w \in W!Copy, NEW fired \in BOOLEAN, W!NotifyWatch(w, fired)
  PROVE  NotifyMoves(w)
  BY PeriodsAndBounds
  DEF W!NotifyWatch, W!MayClaim, W!Claim, W!Alert, W!told, W!Event, NotifyMoves, W!TypeOK

LEMMA NotifyTyped ==
  ASSUME W!TypeOK, NEW w \in W!Copy, NotifyMoves(w)
  PROVE  mark' \in [W!Ids -> W!Age] /\ heard' \in [W!Serials -> W!Age] /\ nagged' \subseteq W!Serials
<1>1. 0 \in W!Age /\ w.id \in W!Ids /\ w.serial \in W!Serials
  BY PeriodsAndBounds DEF W!Age, W!Copy
<1> QED
  BY <1>1 DEF NotifyMoves, W!TypeOK

LEMMA AlertsStart == W!Init => AlertsKept
  BY PeriodsAndBounds
  DEF W!Init, AlertsKept, W!TypeOK, W!PassStates, W!StreamStates, CopiesAgree, AllWereAdded, MarkHolds, AlertsSpaced,
      W!AlertsSpaced, Copies, W!Resting, W!Down, W!Ids, W!Serials, W!Age

----------------------------------------------------------------------------
\* The copies there are after a step are copies of what there was, but for the row of
\* a watch that is added.
SameCopies == \A q \in Copies' : \E v \in Copies : q.id = v.id /\ q.serial = v.serial

\* The three ways the ages move.
LEMMA QuietKeeps ==
  ASSUME AlertsKept, W!TypeOK', SameCopies, UNCHANGED <<mark, heard, nagged, added>>
  PROVE  AlertsKept'
  BY DEF AlertsKept, CopiesAgree, AllWereAdded, MarkHolds, AlertsSpaced, W!AlertsSpaced, SameCopies

\* An alert goes out only with a checkpoint of full age, so by MarkHolds the watch was
\* last heard of that long ago.
LEMMA NotifyKeeps ==
  ASSUME AlertsKept, W!TypeOK', SameCopies, UNCHANGED added, NEW w \in Copies, NotifyMoves(w)
  PROVE  AlertsKept'
<1>1. w \in W!Copy /\ Copies \subseteq W!Copy
  BY DEF AlertsKept, W!TypeOK, W!PassStates, W!StreamStates, Copies
<1>2. CASE UNCHANGED <<mark, heard, nagged>>
  BY <1>2, QuietKeeps
<1>3. CASE /\ mark[w.id] = Rearm /\ mark' = [mark EXCEPT ![w.id] = 0]
           /\ UNCHANGED <<heard, nagged>>
  BY <1>1, <1>3, PeriodsAndBounds
  DEF AlertsKept, CopiesAgree, AllWereAdded, MarkHolds, AlertsSpaced, W!AlertsSpaced, SameCopies,
      W!TypeOK, W!Copy, W!Age
<1>4. CASE /\ mark[w.id] = Rearm /\ mark' = [mark EXCEPT ![w.id] = 0]
           /\ heard' = [heard EXCEPT ![w.serial] = 0]
           /\ nagged' = IF heard[w.serial] < Rearm THEN nagged \cup {w.serial} ELSE nagged
  <2>1. heard[w.serial] = Rearm
    BY <1>1, <1>4, PeriodsAndBounds DEF AlertsKept, MarkHolds, W!TypeOK, W!Copy, W!Age
  <2>2. AlertsSpaced'
    BY <1>4, <2>1, PeriodsAndBounds DEF AlertsKept, AlertsSpaced, W!AlertsSpaced
  <2>3. CopiesAgree'
    BY DEF AlertsKept, CopiesAgree, SameCopies
  <2>4. AllWereAdded'
    BY <1>1, <1>4 DEF AlertsKept, AllWereAdded, SameCopies, W!TypeOK, W!Copy, W!Serials
  <2>5. MarkHolds'
    <3> SUFFICES ASSUME NEW q \in Copies' PROVE heard'[q.serial] = Rearm \/ mark'[q.id] <= heard'[q.serial]
      BY DEF MarkHolds
    <3>1. PICK v \in Copies : q.id = v.id /\ q.serial = v.serial
      BY DEF SameCopies
    <3>2. CASE v.serial = w.serial
      BY <1>1, <1>4, <3>1, <3>2 DEF AlertsKept, CopiesAgree, W!TypeOK, W!Copy
    <3>3. CASE v.serial # w.serial
      BY <1>1, <1>4, <3>1, <3>3, PeriodsAndBounds DEF AlertsKept, MarkHolds, W!TypeOK, W!Copy, W!Age
    <3> QED
      BY <3>2, <3>3
  <2> QED
    BY <2>2, <2>3, <2>4, <2>5 DEF AlertsKept
<1> QED
  BY <1>2, <1>3, <1>4 DEF NotifyMoves

LEMMA TickKeeps ==
  ASSUME AlertsKept, W!TypeOK', SameCopies, UNCHANGED <<nagged, added>>,
         mark' = [i \in W!Ids |-> W!Older(mark[i])], heard' = [s \in W!Serials |-> W!Older(heard[s])]
  PROVE  AlertsKept'
<1>1. Copies \subseteq W!Copy
  BY DEF AlertsKept, W!TypeOK, W!PassStates, W!StreamStates, Copies
<1>2. CopiesAgree' /\ AlertsSpaced'
  BY DEF AlertsKept, CopiesAgree, SameCopies, AlertsSpaced, W!AlertsSpaced
<1>3. AllWereAdded'
  BY <1>1 DEF AlertsKept, AllWereAdded, SameCopies, W!Older, W!Serials
<1>4. MarkHolds'
  BY <1>1, PeriodsAndBounds DEF AlertsKept, MarkHolds, SameCopies, W!Older, W!TypeOK, W!Copy, W!Age
<1> QED
  BY <1>2, <1>3, <1>4 DEF AlertsKept

LEMMA AlertsStep == AlertsKept /\ [W!Next]_W!vars => AlertsKept'
<1> SUFFICES ASSUME AlertsKept, [W!Next]_W!vars PROVE AlertsKept'
  OBVIOUS
<1> USE DEF W!table, W!told
<1>0. W!TypeOK
  BY DEF AlertsKept
<1>1. CASE W!PassStarts
  <2>1. W!Cut(rows) \subseteq rows /\ W!Cut(rows) \in SUBSET W!Copy
    BY <1>0, PrefixesAreSubsets DEF W!TypeOK
  <2>2. pass' = [phase |-> "asking", todo |-> W!Cut(rows), saw |-> {}, lag |-> 0, fired |-> FALSE]
    BY <1>1 DEF W!PassStarts, W!Resting
  <2>3. W!TypeOK'
    BY <1>0, <1>1, <2>1, <2>2, PassTakes DEF W!PassStarts, W!TypeOK
  <2>4. SameCopies
    BY <1>1, <2>1, <2>2 DEF W!PassStarts, SameCopies, Copies
  <2> QED
    BY <1>1, <2>3, <2>4, QuietKeeps DEF W!PassStarts
<1>2. CASE W!PassFails
  <2>1. W!TypeOK' /\ SameCopies
    BY <1>0, <1>2, PeriodsAndBounds DEF W!PassFails, W!Event, W!TypeOK, W!PassStates, W!StreamStates, SameCopies, Copies, W!Resting, W!Age
  <2> QED
    BY <1>2, <2>1, QuietKeeps DEF W!PassFails
<1>3. CASE W!PassAnswered
  <2>1. W!TypeOK' /\ SameCopies
    BY <1>0, <1>3 DEF W!PassAnswered, W!TypeOK, W!PassStates, W!StreamStates, SameCopies, Copies
  <2> QED
    BY <1>3, <2>1, QuietKeeps DEF W!PassAnswered
<1>4. CASE W!Judge
  <2>1. PICK w \in W!Newest(pass.todo), fired \in BOOLEAN :
          /\ W!NotifyWatch(w, fired) \/ UNCHANGED <<mark, heard, nagged, events>>
          /\ pass' = [pass EXCEPT !.phase = "recording", !.fired = fired]
    BY <1>4 DEF W!Judge
  <2>2. w \in Copies /\ w \in W!Copy
    BY <1>0, <2>1, PrefixesAreSubsets DEF Copies, W!TypeOK, W!PassStates, W!StreamStates
  <2>3. NotifyMoves(w)
    BY <1>0, <2>1, <2>2, NotifyDoes DEF NotifyMoves, W!TypeOK
  <2>4. SameCopies
    BY <1>0, <1>4, <2>1 DEF W!Judge, W!TypeOK, SameCopies, Copies
  <2>5. mark' \in [W!Ids -> W!Age] /\ heard' \in [W!Serials -> W!Age] /\ nagged' \subseteq W!Serials
    BY <1>0, <2>2, <2>3, NotifyTyped
  <2>6. W!TypeOK'
    BY <1>0, <1>4, <2>1, <2>3, <2>5 DEF W!Judge, NotifyMoves, W!TypeOK, W!PassStates, W!StreamStates
  <2> QED
    BY <1>4, <2>2, <2>3, <2>4, <2>6, NotifyKeeps DEF W!Judge
<1>5. CASE W!PassRecords
  <2>1. PICK w \in W!Newest(pass.todo) :
          /\ W!Record(w, pass.fired, pass.lag)
          /\ pass' = IF pass.todo = {w} THEN W!Resting
                     ELSE [pass EXCEPT !.phase = "judging", !.todo = @ \ {w}, !.fired = FALSE,
                                       !.saw = @ \ {w.serial}]
    BY <1>5 DEF W!PassRecords
  <2>2. rows' \subseteq W!Copy /\ SameRows /\ events' \in 0 .. MaxEvents
    BY <1>0, <2>1, PrefixesAreSubsets, RecordKeepsRows DEF W!TypeOK, W!PassStates, W!StreamStates
  <2>3. /\ pass' \in W!PassStates
        /\ pass'.todo \subseteq pass.todo
    <3>1. CASE pass' = W!Resting
      BY <3>1, PassRests DEF W!Resting
    <3>2. CASE pass' = [pass EXCEPT !.phase = "judging", !.todo = @ \ {w}, !.fired = FALSE,
                                    !.saw = @ \ {w.serial}]
      <4>1. pass.todo \ {w} \in SUBSET W!Copy /\ pass.saw \ {w.serial} \in SUBSET W!Serials
        BY <1>0 DEF W!TypeOK, W!PassStates, W!StreamStates
      <4> QED
        BY <1>0, <3>2, <4>1 DEF W!TypeOK, W!PassStates, W!StreamStates
    <3> QED
      BY <2>1, <3>1, <3>2
  <2>4. W!TypeOK'
    BY <1>0, <1>5, <2>2, <2>3 DEF W!PassRecords, W!TypeOK
  <2>5. SameCopies
    BY <1>5, <2>2, <2>3 DEF W!PassRecords, SameCopies, SameRows, Copies
  <2> QED
    BY <1>5, <2>4, <2>5, QuietKeeps DEF W!PassRecords
<1>6. CASE W!Connect
  <2>1. stream' = [phase |-> "up", cache |-> rows, old |-> 0, hold |-> None, lag |-> 0, fired |-> FALSE]
    BY <1>6 DEF W!Connect, W!Down
  <2> rows \in SUBSET W!Copy
    BY <1>0 DEF W!TypeOK
  <2>2. W!TypeOK'
    BY <1>0, <1>6, <2>1, StreamTakes DEF W!Connect, W!TypeOK
  <2>3. SameCopies
    BY <1>6, <2>1 DEF W!Connect, SameCopies, Copies
  <2> QED
    BY <1>6, <2>2, <2>3, QuietKeeps DEF W!Connect
<1>7. CASE W!Drops
  <2>1. W!TypeOK' /\ SameCopies
    BY <1>0, <1>7, PeriodsAndBounds DEF W!Drops, W!TypeOK, W!PassStates, W!StreamStates, SameCopies, Copies, W!Down, W!Age
  <2> QED
    BY <1>7, <2>1, QuietKeeps DEF W!Drops
<1>8. CASE W!OtherOrder
  <2>1. stream'.cache = rows /\ stream'.phase = "up"
    BY <1>0, <1>8 DEF W!OtherOrder, W!TypeOK, W!StreamStates
  <2>2. stream' \in W!StreamStates
    <3>1. rows \in SUBSET W!Copy
      BY <1>0 DEF W!TypeOK
    <3> QED
      BY <1>0, <1>8, <3>1, StreamTakes, Zeros DEF W!OtherOrder, W!TypeOK
  <2>3. W!TypeOK'
    BY <1>0, <1>8, <2>1, <2>2 DEF W!OtherOrder, W!TypeOK
  <2>4. SameCopies
    BY <1>8, <2>1 DEF W!OtherOrder, SameCopies, Copies
  <2> QED
    BY <1>8, <2>3, <2>4, QuietKeeps DEF W!OtherOrder
<1>9. CASE W!Order
  <2>1. UNION W!Caches \subseteq rows \cup stream.cache
    BY DEF W!Caches
  <2>2. PICK w \in rows \cup stream.cache :
          stream' = [stream EXCEPT !.phase = "notify", !.cache = {}, !.old = 0, !.hold = w]
    BY <1>9, <2>1 DEF W!Order
  <2>3. w \in W!Copy
    BY <1>0, <2>2 DEF W!TypeOK, W!PassStates, W!StreamStates
  <2>4. stream'.cache = {} /\ stream'.hold = w
    BY <1>0, <2>2 DEF W!TypeOK, W!StreamStates
  <2>5. W!TypeOK'
    BY <1>0, <1>9, <2>2, <2>3, <2>4, StreamHolds DEF W!Order, W!TypeOK
  <2>6. SameCopies
    BY <1>9, <2>2, <2>4 DEF W!Order, SameCopies, Copies
  <2> QED
    BY <1>9, <2>5, <2>6, QuietKeeps DEF W!Order
<1>10. CASE W!StreamNotifies
  <2>1. PICK fired \in BOOLEAN : /\ W!NotifyWatch(stream.hold, fired)
                                 /\ stream' = [stream EXCEPT !.phase = "record", !.fired = fired]
    BY <1>10 DEF W!StreamNotifies
  <2>2. stream.hold \in Copies /\ stream.hold \in W!Copy
    BY <1>0, <1>10 DEF W!StreamNotifies, Copies, W!TypeOK
  <2>3. NotifyMoves(stream.hold)
    BY <1>0, <2>1, <2>2, NotifyDoes
  <2>4. SameCopies
    BY <1>0, <1>10, <2>1 DEF W!StreamNotifies, W!TypeOK, SameCopies, Copies
  <2>5. mark' \in [W!Ids -> W!Age] /\ heard' \in [W!Serials -> W!Age] /\ nagged' \subseteq W!Serials
    BY <1>0, <2>2, <2>3, NotifyTyped
  <2>6. W!TypeOK'
    BY <1>0, <1>10, <2>1, <2>2, <2>3, <2>5 DEF W!StreamNotifies, NotifyMoves, W!TypeOK, W!PassStates, W!StreamStates
  <2> QED
    BY <1>10, <2>2, <2>3, <2>4, <2>6, NotifyKeeps DEF W!StreamNotifies
<1>11. CASE W!StreamRecords
  <2>1. rows' \subseteq W!Copy /\ SameRows /\ events' \in 0 .. MaxEvents
    BY <1>0, <1>11, RecordKeepsRows DEF W!StreamRecords, W!TypeOK, W!PassStates, W!StreamStates
  <2>2. stream' = [phase |-> "up", cache |-> rows', old |-> 0, hold |-> None, lag |-> 0, fired |-> FALSE]
    BY <1>11 DEF W!StreamRecords, W!Down
  <2> rows' \in SUBSET W!Copy
    BY <2>1
  <2>3. W!TypeOK'
    BY <1>0, <1>11, <2>1, <2>2, StreamTakes DEF W!StreamRecords, W!TypeOK
  <2>4. SameCopies
    BY <1>11, <2>1, <2>2 DEF W!StreamRecords, SameCopies, SameRows, Copies
  <2> QED
    BY <1>11, <2>3, <2>4, QuietKeeps DEF W!StreamRecords
<1>12. CASE W!AddWatch
  <2>1. PICK i \in W!Ids : rows' = rows \cup {[id |-> i, serial |-> added + 1, fired |-> Rearm]}
    BY <1>12 DEF W!AddWatch
  <2> DEFINE new == [id |-> i, serial |-> added + 1, fired |-> Rearm]
  <2>2. new \in W!Copy /\ new.id = i /\ new.serial = added + 1
    BY <1>0, <1>12, PeriodsAndBounds DEF W!AddWatch, W!Copy, W!Serials, W!Age, W!TypeOK
  <2>3. W!TypeOK'
    BY <1>0, <1>12, <2>1, <2>2, PeriodsAndBounds DEF W!AddWatch, W!TypeOK
  <2>4. Copies' = Copies \cup {new}
    BY <1>12, <2>1 DEF W!AddWatch, Copies
  <2>5. \A w \in Copies : w.serial \in Nat /\ w.serial # new.serial
    BY <1>0, <2>2 DEF AlertsKept, AllWereAdded, W!TypeOK, W!PassStates, W!StreamStates, W!Copy, W!Serials, Copies
  <2> HIDE DEF new
  <2>6. CopiesAgree'
    BY <2>4, <2>5 DEF AlertsKept, CopiesAgree
  <2>7. heard[new.serial] = Rearm
    BY <1>0, <1>12, <2>2, PeriodsAndBounds DEF AlertsKept, AllWereAdded, W!AddWatch, W!TypeOK, W!Serials
  <2>8. AllWereAdded'
    BY <1>0, <1>12, <2>2, <2>4 DEF AlertsKept, AllWereAdded, W!AddWatch, W!TypeOK, W!PassStates, W!StreamStates, W!Serials, Copies, W!Copy
  <2>9. MarkHolds' /\ AlertsSpaced'
    BY <1>12, <2>4, <2>7 DEF AlertsKept, MarkHolds, AlertsSpaced, W!AlertsSpaced, W!AddWatch
  <2> QED
    BY <2>3, <2>6, <2>8, <2>9 DEF AlertsKept
<1>13. CASE W!DeleteWatch
  <2>1. W!TypeOK' /\ SameCopies
    BY <1>0, <1>13, PeriodsAndBounds DEF W!DeleteWatch, W!Event, W!TypeOK, SameCopies, Copies
  <2> QED
    BY <1>13, <2>1, QuietKeeps DEF W!DeleteWatch
<1>14. CASE W!SetPreferences
  <2>1. W!TypeOK' /\ SameCopies
    BY <1>0, <1>14, PeriodsAndBounds DEF W!SetPreferences, W!Event, W!TypeOK, SameCopies, Copies
  <2> QED
    BY <1>14, <2>1, QuietKeeps DEF W!SetPreferences
<1>15. CASE W!Book
  <2>1. W!TypeOK' /\ SameCopies
    BY <1>0, <1>15, PeriodsAndBounds DEF W!Book, W!TypeOK, SameCopies, Copies, W!Serials
  <2> QED
    BY <1>15, <2>1, QuietKeeps DEF W!Book
<1>16. CASE W!Tick
  <2>1. W!TypeOK'
    <3>1. /\ rows' \subseteq W!Copy
          /\ {W!Aged(w) : w \in pass.todo} \in SUBSET W!Copy
          /\ {W!Aged(w) : w \in stream.cache} \in SUBSET W!Copy
      BY <1>0, <1>16, AgedIsCopy DEF W!Tick, W!TypeOK, W!PassStates, W!StreamStates
    <3>2. mark' \in [W!Ids -> W!Age] /\ heard' \in [W!Serials -> W!Age]
      BY <1>0, <1>16, OlderIsAge DEF W!Tick, W!TypeOK
    <3>3. pass' \in W!PassStates
      BY <1>0, <1>16, <3>1, OlderIsAge DEF W!Tick, W!TypeOK, W!PassStates, W!StreamStates
    <3>4. /\ stream' \in W!StreamStates
          /\ stream'.phase = stream.phase /\ stream'.hold = stream.hold
      <4>1. CASE stream.phase = "up"
        <5>1. stream.old \in 0 .. 2 /\ (IF stream.old = 2 THEN 2 ELSE stream.old + 1) \in 0 .. 2
          BY <1>0 DEF W!TypeOK, W!StreamStates
        <5>2. stream' = [stream EXCEPT !.cache = {W!Aged(w) : w \in stream.cache},
                                       !.old = IF stream.old = 2 THEN 2 ELSE stream.old + 1]
          BY <1>16, <4>1 DEF W!Tick
        <5>3. stream' \in W!StreamStates
          BY <1>0, <3>1, <5>1, <5>2, StreamTakes DEF W!TypeOK
        <5> QED
          BY <1>0, <5>2, <5>3 DEF W!TypeOK, W!StreamStates
      <4>2. CASE stream.phase # "up"
        BY <1>0, <1>16, <4>2, OlderIsAge DEF W!Tick, W!TypeOK, W!StreamStates
      <4> QED
        BY <4>1, <4>2
    <3> QED
      BY <1>0, <1>16, <3>1, <3>2, <3>3, <3>4 DEF W!Tick, W!TypeOK
  <2>2. SameCopies
    BY <1>0, <1>16, AgedIsCopy DEF W!Tick, W!TypeOK, W!PassStates, W!StreamStates, SameCopies, Copies
  <2> QED
    BY <1>16, <2>1, <2>2, TickKeeps DEF W!Tick
<1>17. CASE W!Restart
  <2>1. W!TypeOK' /\ SameCopies
    BY <1>0, <1>17, PeriodsAndBounds
    DEF W!Restart, W!Event, W!TypeOK, W!PassStates, W!StreamStates, SameCopies, Copies, W!Resting, W!Down, W!Age
  <2> QED
    BY <1>17, <2>1, QuietKeeps DEF W!Restart
<1>18. CASE UNCHANGED W!vars
  <2>1. W!TypeOK' /\ SameCopies
    BY <1>0, <1>18 DEF W!vars, W!TypeOK, SameCopies, Copies
  <2> QED
    BY <1>18, <2>1, QuietKeeps DEF W!vars
<1> QED
  BY <1>1, <1>2, <1>3, <1>4, <1>5, <1>6, <1>7, <1>8, <1>9, <1>10, <1>11, <1>12, <1>13, <1>14,
     <1>15, <1>16, <1>17, <1>18
  DEF W!Next, W!PassMoves, W!StreamMoves, W!User, W!Others

(* AlertsSpaced: whoever announces claims the checkpoint of the row in the    *)
(* same transaction, and a fresh alert has a fresh checkpoint.                *)
THEOREM AnnouncedOncePerRearm == W!Spec => []AlertsSpaced
<1>1. AlertsKept => AlertsSpaced
  BY DEF AlertsKept
<1> QED
  BY AlertsStart, AlertsStep, <1>1, PTL DEF W!Spec
=============================================================================
