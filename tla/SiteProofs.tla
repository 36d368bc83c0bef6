----------------------------- MODULE SiteProofs -----------------------------
(***************************************************************************)
(* Proofs about what the program keeps in step with a server: the files of *)
(* its own site kept with their entity tags, for any number of refreshers, *)
(* readers, versions, restarts and refused writes; the price reports, for  *)
(* any number of trades, changes of mind, failures and restarts and any    *)
(* sizes of a pass and of a batch; and the user's status, for any settings *)
(* and any number of commands, games and upsets.                           *)
(***************************************************************************)
EXTENDS Clients, Reports, WellFoundedInduction, TLAPS

LEMMA SnapshotStarts == A!Init => SnapshotKept
  BY NobodyIsNobody, BoundsAreNumbers
  DEF A!Init, SnapshotKept, A!TypeOK, A!Files, LockHeld, NothingUnmade, HandsAreRight,
      A!Replaces, StampsArePast, A!TagNamesWhatIsHeld, A!ParsedIsTheFile

\* The lock's holder is the only one at work: what it finds in the body is what
\* it left there.
LEMMA SnapshotStep == SnapshotKept /\ [A!Next]_A!vars => SnapshotKept'
<1> SUFFICES ASSUME SnapshotKept, [A!Next]_A!vars PROVE SnapshotKept'
  OBVIOUS
<1> USE NobodyIsNobody, BoundsAreNumbers
    DEF SnapshotKept, A!TypeOK, A!Files, LockHeld, NothingUnmade, HandsAreRight,
        A!Replaces, StampsArePast, A!TagNamesWhatIsHeld, A!ParsedIsTheFile,
        A!site, A!market, A!memory, A!Goto, A!Released, A!Return, A!TakesLock, A!Fault
<1>1. ASSUME A!Publish PROVE SnapshotKept'
  BY <1>1 DEF A!Publish
<1>2. ASSUME NEW t \in Refreshers, A!Begin(t) PROVE SnapshotKept'
  BY <1>2 DEF A!Begin
<1>3. ASSUME NEW t \in Refreshers, A!Fetch(t) PROVE SnapshotKept'
  BY <1>3 DEF A!Fetch
<1>4. ASSUME NEW t \in Refreshers, A!Verify(t) PROVE SnapshotKept'
  BY <1>4 DEF A!Verify
<1>5. ASSUME NEW t \in Refreshers, A!WriteBody(t) PROVE SnapshotKept'
  BY <1>5 DEF A!WriteBody
<1>6. ASSUME NEW t \in Refreshers, A!WriteTag(t) PROVE SnapshotKept'
  BY <1>6 DEF A!WriteTag
<1>7. ASSUME NEW r \in Readers, A!Stat(r) PROVE SnapshotKept'
  BY <1>7 DEF A!Stat
<1>8. ASSUME NEW r \in Readers, A!Parse(r) PROVE SnapshotKept'
  BY <1>8 DEF A!Parse, A!Parsed
<1>9. ASSUME A!Restart PROVE SnapshotKept'
  BY <1>9 DEF A!Restart
<1>10. ASSUME UNCHANGED A!vars PROVE SnapshotKept'
  BY <1>10 DEF A!vars
<1> QED
  BY <1>1, <1>2, <1>3, <1>4, <1>5, <1>6, <1>7, <1>8, <1>9, <1>10
  DEF A!Next, A!Refresh, A!Writes

(* ParsedIsTheFile, whatever the readers and the refreshers interleave: a     *)
(* parse is kept under the stamp taken before the body was read, and no stamp *)
(* is of a file yet to come.                                                  *)
THEOREM ParsedNeverMistaken == A!Spec => []ParsedIsTheFile
<1>1. SnapshotKept => ParsedIsTheFile
  BY DEF SnapshotKept, ParsedIsTheFile
<1> QED
  BY SnapshotStarts, SnapshotStep, <1>1, PTL DEF A!Spec

\* The body is written by the holder of REFRESH_LOCK alone, with the version it
\* verified against the body that is still there.
LEMMA ForwardStep ==
  SnapshotKept /\ [A!Next]_A!vars /\ body' # body /\ body \notin {0} \cup ahead
    => body' \in ahead \/ body' > body
<1> SUFFICES ASSUME SnapshotKept, [A!Next]_A!vars, body' # body, body \notin {0} \cup ahead
             PROVE body' \in ahead \/ body' > body
  OBVIOUS
<1>1. PICK t \in Refreshers : A!WriteBody(t)
  BY DEF A!Next, A!vars, A!site, A!market, A!memory, A!Refresh, A!Writes, A!Publish, A!Restart,
         A!Begin, A!Fetch, A!Verify, A!WriteTag, A!Stat, A!Parse
<1>2. pc[t] = "body" /\ body' = got[t] /\ body \in Nat /\ got[t] \in Nat
  BY <1>1, BoundsAreNumbers DEF A!WriteBody, SnapshotKept, A!TypeOK, A!Files
<1> QED
  BY <1>2 DEF SnapshotKept, HandsAreRight, A!Replaces

(* SnapshotsMoveForward: stamp_replaces judges by the body that is there when *)
(* it is written over, since the lock is held from the one to the other.      *)
THEOREM SnapshotsOnlyForward == A!Spec => SnapshotsMoveForward
<1>1. SnapshotKept /\ [A!Next]_A!vars
        => [body' # body /\ body \notin {0} \cup ahead => body' \in ahead \/ body' > body]_A!vars
  BY ForwardStep
<1> QED
  BY SnapshotStarts, SnapshotStep, <1>1, PTL
  DEF A!Spec, SnapshotsMoveForward, A!SnapshotsMoveForward

----------------------------------------------------------------------------
LEMMA DraftStarts == D!Init => DraftKept
  BY BoundsAreNumbers
  DEF D!Init, DraftKept, D!TypeOK, D!Qualities, FetchedIsNewest, D!TagNamesTheDraft

LEMMA DraftStep == DraftKept /\ [D!Next]_D!vars => DraftKept'
<1> SUFFICES ASSUME DraftKept, [D!Next]_D!vars PROVE DraftKept'
  OBVIOUS
<1> USE BoundsAreNumbers
    DEF DraftKept, D!TypeOK, D!Qualities, FetchedIsNewest, D!TagNamesTheDraft
<1>1. CASE D!Push
  BY <1>1 DEF D!Push
<1>2. CASE D!DFetch
  BY <1>2 DEF D!DFetch
<1>3. CASE D!DWrite
  <2>1. CASE starting = "body" /\ draft' = fetched /\ found' = "clean" /\ lost' = lost \ {fetched} /\ UNCHANGED blocked
    BY <1>3, <2>1 DEF D!DWrite
  <2>2. CASE starting = "body" /\ D!Fault /\ lost' = lost \cup {fetched}
    BY <1>3, <2>2 DEF D!DWrite, D!Fault
  <2>3. CASE starting = "tag" /\ draftTag' \in {fetched, 0} /\ UNCHANGED blocked
    BY <1>3, <2>3 DEF D!DWrite
  <2>4. CASE starting = "tag" /\ D!Fault /\ UNCHANGED draftTag
    BY <1>3, <2>4 DEF D!DWrite, D!Fault
  <2> QED
    BY <1>3, <2>1, <2>2, <2>3, <2>4 DEF D!DWrite
<1>4. CASE D!DCached
  BY <1>4 DEF D!DCached
<1>5. CASE D!Reset
  BY <1>5 DEF D!Reset, D!TagDropped, D!TagLeft, D!Fault
<1>6. CASE D!Install
  BY <1>6 DEF D!Install
<1>7. CASE D!Restart
  BY <1>7 DEF D!Restart
<1>8. CASE UNCHANGED D!vars
  BY <1>8 DEF D!vars
<1> QED
  BY <1>1, <1>2, <1>3, <1>4, <1>5, <1>6, <1>7, <1>8 DEF D!Next

(* TagsNameWhatIsHeld over both files, whatever writes are refused: the tag   *)
(* is written last, by the task that wrote the body.  A definitions' tag that *)
(* outlives its body is that of a version whose body was refused or removed,  *)
(* and no other, and stays so until that very version's body is written.      *)
THEOREM TagsNeverHideTheNewer == A!Spec /\ D!Spec => []TagsNameWhatIsHeld
<1>1. SnapshotKept /\ DraftKept => TagsNameWhatIsHeld
  BY DEF SnapshotKept, DraftKept, TagsNameWhatIsHeld
<1> QED
  BY SnapshotStarts, SnapshotStep, DraftStarts, DraftStep, <1>1, PTL DEF A!Spec, D!Spec
----------------------------------------------------------------------------
(* Price reports.                                                           *)

LEMMA MinIsLeast == ASSUME NEW S, S # {}, S \subseteq Nat PROVE R!Min(S) \in S /\ \A x \in S : R!Min(S) <= x
<1>1. PICK i \in S : \A j \in S : ~(<<j, i>> \in OpToRel(<, Nat))
  BY WFMin, NatLessThanWellFounded
<1>2. \A j \in S : ~(j < i)
  BY <1>1 DEF OpToRel
<1>3. i \in S /\ \A j \in S : i <= j
  BY <1>2
<1> QED
  BY <1>3 DEF R!Min

\* Whatever a pass reads, its batches hold sales past the mark it started from and
\* settle at a trade between that mark and the last one recorded.
LEMMA BatchesRead ==
  ASSUME R!TypeOK, NEW k \in Nat
  PROVE  /\ R!Part(k) \subseteq sellable /\ \A t \in R!Part(k) : t > from
         /\ R!Through(k) \in from .. ledger
<1> TRADES_PER_PASS \in Nat \ {0}
  BY ReportBounds
<1>0. ledger \in Nat /\ from \in 0 .. ledger /\ sellable \subseteq 1 .. ledger
  BY ReportBounds DEF R!TypeOK
<1>1. R!Sales \subseteq sellable /\ \A t \in R!Sales : t > from /\ t <= ledger /\ t \in Nat
  BY <1>0 DEF R!Sales, R!Read
<1>2. \A n : R!Part(n) \subseteq R!Sales
  BY DEF R!Part
<1>3. ASSUME R!Part(k + 1) = {} PROVE R!Through(k) \in from .. ledger
  <2>1. /\ R!Min({ledger, from + TRADES_PER_PASS}) \in {ledger, from + TRADES_PER_PASS}
        /\ R!Min({ledger, from + TRADES_PER_PASS}) <= ledger
    <3>1. {ledger, from + TRADES_PER_PASS} \subseteq Nat
      BY <1>0
    <3> QED
      BY <3>1, MinIsLeast
  <2>2. R!Through(k) = R!Min({ledger, from + TRADES_PER_PASS})
    BY <1>3 DEF R!Through, R!LastRead
  <2> QED
    BY <1>0, <2>1, <2>2
<1>4. ASSUME R!Part(k + 1) # {} PROVE R!Through(k) \in from .. ledger
  <2>1. R!Min(R!Part(k + 1)) \in R!Part(k + 1)
    BY <1>1, <1>2, <1>4, MinIsLeast
  <2>2. R!Min(R!Part(k + 1)) \in Nat /\ R!Min(R!Part(k + 1)) > from /\ R!Min(R!Part(k + 1)) <= ledger
    BY <1>1, <1>2, <2>1
  <2>3. R!Through(k) = R!Min(R!Part(k + 1)) - 1
    BY <1>4 DEF R!Through
  <2> QED
    BY <1>0, <2>2, <2>3
<1> QED
  BY <1>1, <1>2, <1>3, <1>4

LEMMA ReportsStart == R!Init => ReportsKept
<1> SUFFICES ASSUME R!Init PROVE ReportsKept
  OBVIOUS
<1>1. plan = <<>> /\ plan \in Seq(R!Uploads) /\ Len(plan) = 0
  BY DEF R!Init
<1>2. dbConsent \in BOOLEAN /\ consent \in BOOLEAN /\ unseen \in BOOLEAN /\ late \subseteq SUBSET R!Trades
  BY Zenon DEF R!Init
<1>3. R!TypeOK
  BY <1>1, <1>2, ReportBounds DEF R!Init, R!TypeOK
<1>4. ~consent /\ ~dbConsent
  BY Zenon DEF R!Init
<1> QED
  BY <1>1, <1>3, <1>4
  DEF R!Init, ReportsKept, OneHolder, R!Passing, R!Erasing, BatchesPastFrom, ConsentIsLater,
      ErasureIsLater, RemovedIsPast, PrivateIsPast, MarkPast, PassPast, SharingOff

\* The batch in hand, and what is left when it is settled.
LEMMA BatchInHand ==
  ASSUME ReportsKept, task \in {"deliver", "posting", "settle"}
  PROVE  /\ R!Batch.sales \in SUBSET R!Trades /\ R!Batch.sales \subseteq sellable
         /\ \A t \in R!Batch.sales : t > from
         /\ R!Batch.through \in from .. ledger
         /\ Tail(plan) \in Seq(R!Uploads) /\ Len(Tail(plan)) = Len(plan) - 1
         /\ \A i \in 1 .. Len(Tail(plan)) : Tail(plan)[i] = plan[i + 1] /\ i + 1 \in 1 .. Len(plan)
<1>1. plan \in Seq(R!Uploads) /\ plan # <<>>
  BY DEF ReportsKept, R!TypeOK, BatchesPastFrom
<1>2. R!Batch = plan[1] /\ 1 \in 1 .. Len(plan) /\ R!Batch \in R!Uploads
  BY <1>1 DEF R!Batch
<1>3. /\ Tail(plan) \in Seq(R!Uploads) /\ Len(Tail(plan)) = Len(plan) - 1
      /\ \A i \in 1 .. Len(Tail(plan)) : Tail(plan)[i] = plan[i + 1] /\ i + 1 \in 1 .. Len(plan)
  BY <1>1
<1> QED
  BY <1>2, <1>3 DEF ReportsKept, BatchesPastFrom, R!Uploads

LEMMA ReportsStep == ReportsKept /\ [R!Next]_R!vars => ReportsKept'
<1> SUFFICES ASSUME ReportsKept, [R!Next]_R!vars PROVE ReportsKept'
  OBVIOUS
<1>0. <<>> \in Seq(R!Uploads) /\ Len(<<>>) = 0
  OBVIOUS
<1> USE ReportBounds, <1>0
    DEF ReportsKept, R!TypeOK, OneHolder, R!Passing, R!Erasing, BatchesPastFrom, ConsentIsLater,
        ErasureIsLater, RemovedIsPast, PrivateIsPast, MarkPast, PassPast, SharingOff,
        R!db, R!channel, R!sender, R!user, R!counts, R!tale, R!Rests
<1>1. CASE R!RecordTrade
  <2>1. R!TypeOK'
    BY <1>1 DEF R!RecordTrade
  <2>2. OneHolder' /\ BatchesPastFrom'
    BY <1>1 DEF R!RecordTrade
  <2>3. ConsentIsLater' /\ ErasureIsLater'
    BY <1>1 DEF R!RecordTrade
  <2>4. RemovedIsPast'
    BY <1>1 DEF R!RecordTrade
  <2>5. PrivateIsPast'
    BY <1>1 DEF R!RecordTrade
  <2> QED
    BY <2>1, <2>2, <2>3, <2>4, <2>5
<1>2. CASE R!Loop
  <2>1. CASE consent /\ dbConsent
    BY <1>2, <2>1, ZenonT(40) DEF R!Loop
  <2>2. CASE ~(consent /\ dbConsent)
    BY <1>2, <2>2, ZenonT(40) DEF R!Loop
  <2> QED
    BY <1>2, <2>1, <2>2 DEF R!Loop
<1>3. CASE R!Wakes
  BY <1>3, ZenonT(40) DEF R!Wakes
<1>4. CASE R!Locks
  BY <1>4 DEF R!Locks
<1>5. CASE R!ReadsMark
  <2>1. CASE dbMark = None
    BY <1>5, <2>1 DEF R!ReadsMark
  <2>2. CASE dbMark # None
    <3>1. R!TypeOK'
      BY <1>5, <2>2 DEF R!ReadsMark
    <3>2. OneHolder'
      BY <1>5, <2>2 DEF R!ReadsMark
    <3>3. BatchesPastFrom'
      BY <1>5, <2>2 DEF R!ReadsMark
    <3>4. ConsentIsLater'
      BY <1>5, <2>2 DEF R!ReadsMark
    <3>5. RemovedIsPast'
      BY <1>5, <2>2 DEF R!ReadsMark
    <3>6. PrivateIsPast'
      BY <1>5, <2>2 DEF R!ReadsMark
    <3>7. ErasureIsLater'
      BY <1>5, <2>2 DEF R!ReadsMark
    <3> QED
      BY <3>1, <3>2, <3>3, <3>4, <3>5, <3>6, <3>7
  <2> QED
    BY <1>5, <2>1, <2>2 DEF R!ReadsMark
<1>6. CASE R!Deliver
  <2>1. CASE consent
    <3>1. R!TypeOK'
      BY BatchInHand, <1>6, <2>1 DEF R!Deliver
    <3>2. OneHolder'
      BY BatchInHand, <1>6, <2>1 DEF R!Deliver
    <3>3. BatchesPastFrom'
      BY BatchInHand, <1>6, <2>1 DEF R!Deliver
    <3>4. ConsentIsLater'
      BY BatchInHand, <1>6, <2>1 DEF R!Deliver
    <3>5. RemovedIsPast'
      BY BatchInHand, <1>6, <2>1 DEF R!Deliver
    <3>6. PrivateIsPast'
      BY BatchInHand, <1>6, <2>1 DEF R!Deliver
    <3>7. ErasureIsLater'
      BY BatchInHand, <1>6, <2>1 DEF R!Deliver
    <3> QED
      BY <3>1, <3>2, <3>3, <3>4, <3>5, <3>6, <3>7
  <2>2. CASE ~consent
    <3>1. R!TypeOK'
      <4>1. unseen' \in BOOLEAN /\ consent' \in BOOLEAN /\ dbConsent' \in BOOLEAN
        BY Zenon, <1>6 DEF R!Deliver
      <4>2. task' = "wait" /\ from' = 0 /\ plan' = <<>> /\ UNCHANGED <<request, posted>>
        BY <1>6, <2>2 DEF R!Deliver
      <4> QED
        BY <1>6, <4>1, <4>2 DEF R!Deliver
    <3>2. OneHolder'
      BY BatchInHand, <1>6, <2>2 DEF R!Deliver
    <3>3. BatchesPastFrom'
      BY BatchInHand, <1>6, <2>2 DEF R!Deliver
    <3>4. ConsentIsLater'
      BY BatchInHand, <1>6, <2>2 DEF R!Deliver
    <3>5. RemovedIsPast'
      BY BatchInHand, <1>6, <2>2 DEF R!Deliver
    <3>6. PrivateIsPast'
      BY BatchInHand, <1>6, <2>2 DEF R!Deliver
    <3>7. ErasureIsLater'
      BY BatchInHand, <1>6, <2>2 DEF R!Deliver
    <3> QED
      BY <3>1, <3>2, <3>3, <3>4, <3>5, <3>6, <3>7
  <2> QED
    BY <1>6, <2>1, <2>2 DEF R!Deliver
<1>7. CASE R!GivesUp
  BY BatchInHand, <1>7, SMTT(20) DEF R!GivesUp, R!Abandoned
<1>8. CASE R!Fails
  BY BatchInHand, <1>8 DEF R!Fails, R!Abandoned, R!Upset
<1>9. CASE R!Answered
  BY BatchInHand, <1>9, ZenonT(40) DEF R!Answered
<1>10. CASE R!Settle
  <2>1. CASE dbMark' = R!Batch.through /\ Len(plan) = 1 /\ R!Rests /\ UNCHANGED upsets
    BY BatchInHand, <1>10, <2>1 DEF R!Settle, R!Upset
  <2>2. CASE dbMark' = R!Batch.through /\ Len(plan) # 1 /\ task' = "deliver" /\ plan' = Tail(plan) /\ UNCHANGED <<from, upsets>>
    <3>1. R!TypeOK'
      BY BatchInHand, <1>10, <2>2 DEF R!Settle, R!Upset
    <3>2. OneHolder'
      BY BatchInHand, <1>10, <2>2 DEF R!Settle, R!Upset
    <3>3. BatchesPastFrom'
      <4>1. /\ plan' = Tail(plan) /\ UNCHANGED <<from, ledger, sellable>> /\ task = "settle"
            /\ task' = "deliver" /\ Len(plan) # 1
        BY <1>10, <2>2 DEF R!Settle
      <4>2. \A i \in 1 .. Len(plan') : plan'[i] = plan[i + 1] /\ i + 1 \in 1 .. Len(plan)
        BY <4>1, BatchInHand
      <4>3. plan' # <<>>
        <5>1. Len(plan) \in Nat /\ plan # <<>> /\ Len(plan) # 0
          BY <4>1
        <5>2. Len(plan') = Len(plan) - 1
          BY <4>1, BatchInHand
        <5>3. Len(plan') # 0
          BY <4>1, <5>1, <5>2
        <5> QED
          BY <5>3, <1>0
      <4> QED
        BY <4>1, <4>2, <4>3
    <3>4. ConsentIsLater'
      BY BatchInHand, <1>10, <2>2 DEF R!Settle, R!Upset
    <3>5. RemovedIsPast'
      BY BatchInHand, <1>10, <2>2 DEF R!Settle, R!Upset
    <3>6. PrivateIsPast'
      BY BatchInHand, <1>10, <2>2 DEF R!Settle, R!Upset
    <3>7. ErasureIsLater'
      BY BatchInHand, <1>10, <2>2 DEF R!Settle, R!Upset
    <3> QED
      BY <3>1, <3>2, <3>3, <3>4, <3>5, <3>6, <3>7
  <2>3. CASE R!Upset /\ R!Rests /\ UNCHANGED dbMark
    BY BatchInHand, <1>10, <2>3 DEF R!Settle, R!Upset
  <2> QED
    BY <1>10, <2>1, <2>2, <2>3 DEF R!Settle
<1>11. CASE R!Collect
  <2>1. CASE held' = held \cup R!Batch.sales /\ request' = "done" /\ UNCHANGED upsets
    BY BatchInHand, <1>11, <2>1, ZenonT(40) DEF R!Collect, R!Upset
  <2>2. CASE R!Upset /\ request' = "refused" /\ UNCHANGED held
    BY BatchInHand, <1>11, <2>2 DEF R!Collect, R!Upset
  <2> QED
    BY <1>11, <2>1, <2>2 DEF R!Collect
<1>12. CASE R!CollectLate
  <2>1. held' \subseteq R!Trades /\ late' \subseteq SUBSET R!Trades
    BY <1>12 DEF R!CollectLate
  <2> QED
    BY <1>12, <2>1 DEF R!CollectLate
<1>13. CASE R!EraseRows
  BY <1>13 DEF R!EraseRows
<1>14. CASE R!OptOut
  BY <1>14, ZenonT(40) DEF R!OptOut, R!Click
<1>15. CASE R!SaveOut
  <2>1. CASE dbConsent' = FALSE /\ UNCHANGED upsets
    <3>1. R!TypeOK'
      BY <1>15, <2>1 DEF R!SaveOut, R!Upset
    <3>2. OneHolder'
      BY <1>15, <2>1 DEF R!SaveOut, R!Upset
    <3>3. BatchesPastFrom'
      BY <1>15, <2>1 DEF R!SaveOut, R!Upset
    <3>4. ConsentIsLater'
      BY <1>15, <2>1 DEF R!SaveOut, R!Upset
    <3>5. RemovedIsPast'
      BY <1>15, <2>1 DEF R!SaveOut, R!Upset
    <3>6. PrivateIsPast'
      BY <1>15, <2>1 DEF R!SaveOut, R!Upset
    <3>7. ErasureIsLater'
      BY <1>15, <2>1 DEF R!SaveOut, R!Upset
    <3> QED
      BY <3>1, <3>2, <3>3, <3>4, <3>5, <3>6, <3>7
  <2>2. CASE R!Upset /\ UNCHANGED dbConsent
    BY <1>15, <2>2 DEF R!SaveOut, R!Upset
  <2> QED
    BY <1>15, <2>1, <2>2 DEF R!SaveOut
<1>16. CASE R!OptIn
  BY <1>16 DEF R!OptIn, R!Click
<1>17. CASE R!SaveMark
  BY <1>17 DEF R!SaveMark, R!MarkNow
<1>18. CASE R!SaveIn
  BY <1>18 DEF R!SaveIn
<1>19. CASE R!TellIn
  BY <1>19 DEF R!TellIn
<1>20. CASE R!OptInFails
  BY <1>20 DEF R!OptInFails, R!Upset
<1>21. CASE R!Erase
  BY <1>21 DEF R!Erase, R!Click
<1>22. CASE R!EraseLocks
  BY <1>22 DEF R!EraseLocks, R!PassFinished
<1>23. CASE R!EraseMarks
  BY <1>23 DEF R!EraseMarks, R!EraseMark
<1>29. CASE R!EraseReads
  BY <1>29 DEF R!EraseReads
<1>24. CASE R!EraseConfirmed
  BY <1>24 DEF R!EraseConfirmed
<1>25. CASE R!EraseFails
  BY <1>25 DEF R!EraseFails, R!Upset
<1>26. CASE R!Restart
  <2>1. CASE task = "posting"
    <3>1. R!TypeOK'
      <4>1. unseen' \in BOOLEAN /\ consent' \in BOOLEAN /\ dbConsent' \in BOOLEAN
        BY Zenon, <1>26 DEF R!Restart
      <4>2. late' \subseteq SUBSET R!Trades
        <5>1. late' \in {late, late \cup {R!Batch.sales}}
          BY <1>26, <2>1 DEF R!Restart, R!Abandoned
        <5>2. R!Batch.sales \in SUBSET R!Trades /\ late \subseteq SUBSET R!Trades
          BY BatchInHand, <2>1
        <5> QED
          BY Zenon, <5>1, <5>2
      <4>3. /\ task' = "loop" /\ from' = 0 /\ plan' = <<>> /\ request' = None /\ opting' = "idle"
            /\ newest' = 0 /\ eraser' = "idle" /\ through' = 0
        BY <1>26, <2>1 DEF R!Restart, R!Abandoned
      <4> QED
        BY <1>26, <4>1, <4>2, <4>3 DEF R!Restart
    <3>2. OneHolder'
      BY BatchInHand, <1>26, <2>1 DEF R!Restart, R!Upset, R!Abandoned
    <3>3. BatchesPastFrom'
      BY BatchInHand, <1>26, <2>1 DEF R!Restart, R!Upset, R!Abandoned
    <3>4. ConsentIsLater'
      BY BatchInHand, <1>26, <2>1 DEF R!Restart, R!Upset, R!Abandoned
    <3>5. RemovedIsPast'
      BY BatchInHand, <1>26, <2>1 DEF R!Restart, R!Upset, R!Abandoned
    <3>6. PrivateIsPast'
      BY BatchInHand, <1>26, <2>1 DEF R!Restart, R!Upset, R!Abandoned
    <3>7. ErasureIsLater'
      BY BatchInHand, <1>26, <2>1 DEF R!Restart, R!Upset, R!Abandoned
    <3> QED
      BY <3>1, <3>2, <3>3, <3>4, <3>5, <3>6, <3>7
  <2>2. CASE task # "posting"
    <3>1. R!TypeOK'
      <4>1. unseen' \in BOOLEAN /\ consent' \in BOOLEAN /\ dbConsent' \in BOOLEAN
        BY Zenon, <1>26 DEF R!Restart
      <4>2. late' \subseteq SUBSET R!Trades
        BY BatchInHand, <1>26, <2>2 DEF R!Restart, R!Abandoned
      <4>3. /\ task' = "loop" /\ from' = 0 /\ plan' = <<>> /\ request' = None /\ opting' = "idle"
            /\ newest' = 0 /\ eraser' = "idle" /\ through' = 0
        BY <1>26, <2>2 DEF R!Restart, R!Abandoned
      <4> QED
        BY <1>26, <4>1, <4>2, <4>3 DEF R!Restart
    <3>2. OneHolder'
      BY BatchInHand, <1>26, <2>2 DEF R!Restart, R!Upset, R!Abandoned
    <3>3. BatchesPastFrom'
      BY BatchInHand, <1>26, <2>2 DEF R!Restart, R!Upset, R!Abandoned
    <3>4. ConsentIsLater'
      BY BatchInHand, <1>26, <2>2 DEF R!Restart, R!Upset, R!Abandoned
    <3>5. RemovedIsPast'
      BY BatchInHand, <1>26, <2>2 DEF R!Restart, R!Upset, R!Abandoned
    <3>6. PrivateIsPast'
      BY BatchInHand, <1>26, <2>2 DEF R!Restart, R!Upset, R!Abandoned
    <3>7. ErasureIsLater'
      BY BatchInHand, <1>26, <2>2 DEF R!Restart, R!Upset, R!Abandoned
    <3> QED
      BY <3>1, <3>2, <3>3, <3>4, <3>5, <3>6, <3>7
  <2> QED
    BY <1>26, <2>1, <2>2 DEF R!Restart
<1>27. CASE R!ReadsTrades
  <2>1. CASE R!Sales = {} /\ task' = "settle" /\ plan' = <<[sales |-> {}, through |-> R!LastRead]>>
             /\ UNCHANGED from
    <3>1. R!LastRead \in {ledger, from + TRADES_PER_PASS} /\ R!LastRead <= ledger
      <4>1. {ledger, from + TRADES_PER_PASS} \subseteq Nat /\ ledger \in Nat
        OBVIOUS
      <4> QED
        BY <4>1, MinIsLeast DEF R!LastRead
    <3>2. R!LastRead \in from .. ledger /\ R!LastRead \in 0 .. MaxTrades
      BY <3>1
    <3> DEFINE b == [sales |-> {}, through |-> R!LastRead]
    <3>3. b \in R!Uploads /\ b.sales = {} /\ b.through = R!LastRead
      BY <3>2 DEF R!Uploads
    <3> HIDE DEF b
    <3>4. plan' = <<b>>
      BY <2>1 DEF b
    <3>5. plan' \in Seq(R!Uploads) /\ plan' # <<>> /\ Len(plan') = 1 /\ plan'[1] = b
      BY <3>3, <3>4
    <3>6. R!TypeOK'
      BY <1>27, <2>1, <3>5 DEF R!ReadsTrades
    <3>7. BatchesPastFrom'
      BY <1>27, <2>1, <3>2, <3>3, <3>5 DEF R!ReadsTrades
    <3> QED
      BY <1>27, <2>1, <3>6, <3>7 DEF R!ReadsTrades
  <2>2. CASE \E n \in 1 .. TRADES_PER_PASS :
               /\ R!Part(n) # {} /\ R!Part(n + 1) = {} /\ plan' = R!Planned(n)
               /\ task' = "deliver" /\ UNCHANGED from
    <3>1. PICK n \in 1 .. TRADES_PER_PASS :
               /\ R!Part(n) # {} /\ R!Part(n + 1) = {} /\ plan' = R!Planned(n)
               /\ task' = "deliver" /\ UNCHANGED from
      BY <2>2
    <3>2. \A k \in 1 .. n :
            /\ R!Part(k) \subseteq sellable /\ \A t \in R!Part(k) : t > from
            /\ R!Through(k) \in from .. ledger
      <4>1. \A k \in 1 .. n : k \in Nat
        OBVIOUS
      <4>2. R!TypeOK
        OBVIOUS
      <4> HIDE DEF R!TypeOK
      <4> QED
        BY <4>1, <4>2, BatchesRead
    <3>3. \A k \in 1 .. n : [sales |-> R!Part(k), through |-> R!Through(k)] \in R!Uploads
      <4> SUFFICES ASSUME NEW k \in 1 .. n
                   PROVE  [sales |-> R!Part(k), through |-> R!Through(k)] \in R!Uploads
        OBVIOUS
      <4>1. R!Part(k) \in SUBSET R!Trades /\ R!Through(k) \in 0 .. MaxTrades
        <5>1. ledger \in 0 .. MaxTrades /\ sellable \subseteq 1 .. ledger /\ from \in 0 .. ledger
          OBVIOUS
        <5>2. R!Part(k) \subseteq sellable /\ R!Through(k) \in from .. ledger
          BY <3>2
        <5>3. R!Through(k) \in 0 .. MaxTrades
          BY <5>1, <5>2, ReportBounds
        <5>4. 1 .. ledger \subseteq 1 .. MaxTrades
          BY <5>1, ReportBounds
        <5>5. R!Part(k) \subseteq 1 .. MaxTrades
          BY <5>1, <5>2, <5>4
        <5> QED
          BY <5>3, <5>5 DEF R!Trades
      <4> QED
        BY Zenon, <4>1 DEF R!Uploads
    <3>4. plan' \in Seq(R!Uploads) /\ Len(plan') = n /\ plan' # <<>>
      <4>1. n \in Nat \ {0} /\ plan' = [k \in 1 .. n |-> [sales |-> R!Part(k), through |-> R!Through(k)]]
        BY <3>1 DEF R!Planned
      <4>2. plan' \in Seq(R!Uploads) /\ Len(plan') = n
        BY <3>3, <4>1
      <4> QED
        BY <4>1, <4>2
    <3>5. \A k \in 1 .. n : plan'[k].sales = R!Part(k) /\ plan'[k].through = R!Through(k)
      BY <3>1 DEF R!Planned
    <3>6. R!TypeOK'
      BY <1>27, <3>1, <3>4 DEF R!ReadsTrades
    <3>7. BatchesPastFrom'
      BY <1>27, <3>1, <3>2, <3>4, <3>5 DEF R!ReadsTrades
    <3> QED
      BY <1>27, <3>1, <3>6, <3>7 DEF R!ReadsTrades
  <2>3. CASE R!Rests
    BY <1>27, <2>3 DEF R!ReadsTrades
  <2> QED
    BY <1>27, <2>1, <2>2, <2>3 DEF R!ReadsTrades
<1>28. CASE UNCHANGED R!vars
  BY <1>28 DEF R!vars
<1> QED
  BY <1>1, <1>2, <1>3, <1>4, <1>5, <1>6, <1>7, <1>8, <1>9, <1>10, <1>11, <1>12, <1>13, <1>14, <1>15, <1>16, <1>17, <1>18, <1>19, <1>20, <1>21, <1>22, <1>23, <1>24, <1>25, <1>26, <1>27, <1>28, <1>29
  DEF R!Next, R!Sending, R!Choosing, R!Removing, R!Collector

(* RemovedNotSentAgain: an erasure moves the mark past everything posted, and *)
(* whatever moves it back - a pass that began before, a consent - moves it no *)
(* further than the trades that had been posted by then.                      *)
THEOREM ErasedNeverSentAgain == R!Spec => RemovedNotSentAgain
<1>1. ReportsKept /\ [R!Next]_R!vars
        => [task = "deliver" /\ task' = "posting" => R!Batch.sales \cap removed = {}]_R!vars
  <2> SUFFICES ASSUME ReportsKept, task = "deliver" PROVE R!Batch.sales \cap removed = {}
    OBVIOUS
  <2>1. \A t \in R!Batch.sales : t > from
    BY BatchInHand
  <2>2. \A t \in removed : t <= from /\ t \in Nat /\ from \in Nat
    BY ReportBounds DEF ReportsKept, RemovedIsPast, PassPast, R!TypeOK
  <2> QED
    BY <2>1, <2>2
<1> QED
  BY ReportsStart, ReportsStep, <1>1, PTL DEF R!Spec, RemovedNotSentAgain, R!RemovedNotSentAgain

(* PrivateStaysLocal: a trade made with sharing off lies behind the mark of   *)
(* the next consent, if nothing that could move the mark back was under way:  *)
(* no pass begun, and no erasure that has read the ledger's newest id and not *)
(* yet made it the mark.                                                      *)
THEOREM PrivateNeverLeaves == R!Spec => []PrivateStaysLocal
<1>1. ReportsKept => PrivateStaysLocal
  BY DEF ReportsKept, PrivateIsPast, PrivateStaysLocal, R!PrivateStaysLocal
<1> QED
  BY ReportsStart, ReportsStep, <1>1, PTL DEF R!Spec

-----------------------------------------------------------------------------
(* The user's status.                                                       *)

\* A sequence is one over its own elements.
LEMMA OverItsOwn == ASSUME NEW S, NEW s \in Seq(S) PROVE s \in Seq(ToSet(s))
<1>1. \A i \in 1 .. Len(s) : s[i] \in ToSet(s)
  BY DEF ToSet
<1> QED BY <1>1

\* A step that hears nothing and is told nothing, or loses the socket.
LEMMA NothingHeard ==
  ASSUME StatusKept, inbox' \in {inbox, <<>>}, UNCHANGED <<own, market, misheard>>
  PROVE StatusKept'
<1> USE DEF StatusKept, RevisionsAreNumbers, AnsweredFirst, P!OwnChangeKept, ToSet
<1>1. CASE inbox' = inbox BY <1>1
<1>2. CASE inbox' = <<>> BY <1>2
<1> QED BY <1>1, <1>2

\* Heard(i) says of a place in the inbox what AnsweredFirst says of them all.
Heard(i) ==
  inbox[i].kind \in {"changed", "first"} /\ inbox[i].own =>
    \/ inbox[i].rev <= own
    \/ \E j \in 1 .. i - 1 : inbox[j].kind = "ok" /\ inbox[j].rev = inbox[i].rev
Numbered(i) == inbox[i].kind # "no" => inbox[i].rev \in Nat

LEMMA ByPlace ==
  StatusKept <=> /\ market.rev \in Nat /\ own \in Nat /\ inbox \in Seq(ToSet(inbox)) /\ ~misheard
                 /\ \A i \in 1 .. Len(inbox) : Heard(i) /\ Numbered(i)
  BY DEF StatusKept, RevisionsAreNumbers, AnsweredFirst, P!OwnChangeKept, Heard, Numbered
LEMMA ByPlaceNext ==
  StatusKept' <=> /\ market.rev' \in Nat /\ own' \in Nat /\ inbox' \in Seq(ToSet(inbox')) /\ ~misheard'
                  /\ \A i \in 1 .. Len(inbox') : Heard(i)' /\ Numbered(i)'
  BY DEF StatusKept, RevisionsAreNumbers, AnsweredFirst, P!OwnChangeKept, Heard, Numbered

\* A place that stays is heard of still.
LEMMA StaysHeard ==
  ASSUME NEW i \in Nat, Heard(i), Numbered(i), own' = own,
         \A j \in 1 .. i : inbox'[j] = inbox[j], i > 0
  PROVE Heard(i)' /\ Numbered(i)'
<1>1. inbox'[i] = inbox[i]
  OBVIOUS
<1>2. Numbered(i)'
  BY <1>1 DEF Numbered
<1>3. ASSUME inbox'[i].kind \in {"changed", "first"}, inbox'[i].own, ~(inbox'[i].rev <= own')
      PROVE \E j \in 1 .. i - 1 : inbox'[j].kind = "ok" /\ inbox'[j].rev = inbox'[i].rev
  <2>1. PICK j \in 1 .. i - 1 : inbox[j].kind = "ok" /\ inbox[j].rev = inbox[i].rev
    BY <1>1, <1>3 DEF Heard
  <2>2. inbox'[j] = inbox[j]
    BY <2>1
  <2> QED BY <1>1, <2>1, <2>2
<1> QED BY <1>2, <1>3 DEF Heard

\* What the server says reaches a socket that is open, behind what is there.
LEMMA ChangeArrives ==
  ASSUME StatusKept, market'.rev = market.rev + 1, UNCHANGED <<own, misheard>>,
         P!Frames(<<>> \o <<[kind |-> "changed", rev |-> market'.rev, own |-> FALSE]>>)
  PROVE StatusKept'
<1> DEFINE g == [kind |-> "changed", rev |-> market'.rev, own |-> FALSE]
           S == ToSet(inbox) \cup {g}
<1>1. CASE inbox' = inbox
  <2>1. inbox' \in Seq(ToSet(inbox'))
    BY <1>1, ByPlace DEF ToSet
  <2> QED BY <1>1, <2>1 DEF StatusKept, RevisionsAreNumbers, AnsweredFirst, P!OwnChangeKept
<1>2. CASE inbox' = inbox \o <<g>>
  <2>1. inbox \in Seq(S) /\ <<g>> \in Seq(S)
    BY ByPlace
  <2>2. /\ inbox' \in Seq(S) /\ Len(inbox') = Len(inbox) + 1 /\ inbox'[Len(inbox) + 1] = g
        /\ \A i \in 1 .. Len(inbox) : inbox'[i] = inbox[i]
    BY <2>1, <1>2
  <2>3. inbox' \in Seq(ToSet(inbox'))
    BY <2>2, OverItsOwn
  <2>4. g.kind = "changed" /\ ~g.own /\ g.rev \in Nat
    BY ByPlace
  <2> HIDE DEF S, g
  <2>5. ASSUME NEW i \in 1 .. Len(inbox') PROVE Heard(i)' /\ Numbered(i)'
    <3>1. CASE i \in 1 .. Len(inbox)
      BY <3>1, <2>2, ByPlace, StaysHeard, SMTT(20)
    <3>2. CASE i = Len(inbox) + 1
      BY <3>2, <2>2, <2>4 DEF Heard, Numbered
    <3> QED BY <3>1, <3>2, <2>2
  <2> QED BY <2>3, <2>5, ByPlace, ByPlaceNext
<1> QED BY <1>1, <1>2 DEF P!Frames

LEMMA AnswerArrives ==
  ASSUME StatusKept, market'.rev = market.rev + 1, UNCHANGED <<own, misheard>>, NEW id,
         P!Frames(   <<[kind |-> "ok", id |-> id, rev |-> market.rev + 1]>>
                  \o <<[kind |-> "changed", rev |-> market'.rev, own |-> TRUE]>>)
  PROVE StatusKept'
<1> DEFINE f == [kind |-> "ok", id |-> id, rev |-> market.rev + 1]
           g == [kind |-> "changed", rev |-> market'.rev, own |-> TRUE]
           S == ToSet(inbox) \cup {f, g}
<1>1. CASE inbox' = inbox
  <2>1. inbox' \in Seq(ToSet(inbox'))
    BY <1>1, ByPlace DEF ToSet
  <2> QED BY <1>1, <2>1 DEF StatusKept, RevisionsAreNumbers, AnsweredFirst, P!OwnChangeKept
<1>2. CASE inbox' = inbox \o (<<f>> \o <<g>>)
  <2>0. inbox \in Seq(S) /\ <<f>> \in Seq(S) /\ <<g>> \in Seq(S)
    BY ByPlace
  <2>4. f.kind = "ok" /\ g.kind = "changed" /\ f.rev = g.rev /\ f.rev \in Nat
    BY ByPlace
  <2> HIDE DEF S, f, g
  <2>1. /\ <<f>> \o <<g>> \in Seq(S) /\ Len(<<f>> \o <<g>>) = 2
        /\ (<<f>> \o <<g>>)[1] = f /\ (<<f>> \o <<g>>)[2] = g
    BY <2>0
  <2>2. /\ inbox' \in Seq(S) /\ Len(inbox') = Len(inbox) + 2
        /\ inbox'[Len(inbox) + 1] = f /\ inbox'[Len(inbox) + 2] = g
        /\ \A i \in 1 .. Len(inbox) : inbox'[i] = inbox[i]
    BY <2>0, <2>1, <1>2
  <2>3. inbox' \in Seq(ToSet(inbox'))
    BY <2>2, OverItsOwn
  <2>5. ASSUME NEW i \in 1 .. Len(inbox') PROVE Heard(i)' /\ Numbered(i)'
    <3>1. CASE i \in 1 .. Len(inbox)
      BY <3>1, <2>2, ByPlace, StaysHeard, SMTT(20)
    <3>2. CASE i = Len(inbox) + 1
      BY <3>2, <2>2, <2>4 DEF Heard, Numbered
    <3>3. CASE i = Len(inbox) + 2
      <4>1. Len(inbox) + 1 \in 1 .. i - 1
        BY <3>3, <2>2
      <4> QED BY <4>1, <3>3, <2>2, <2>4 DEF Heard, Numbered
    <3> QED BY <3>1, <3>2, <3>3, <2>2
  <2> QED BY <2>3, <2>5, ByPlace, ByPlaceNext
<1> QED BY <1>1, <1>2 DEF P!Frames

LEMMA RefusalArrives ==
  ASSUME StatusKept, UNCHANGED <<own, market, misheard>>, NEW id,
         P!Frames(<<[kind |-> "no", id |-> id]>>)
  PROVE StatusKept'
<1> DEFINE g == [kind |-> "no", id |-> id]
           S == ToSet(inbox) \cup {g}
<1>1. CASE inbox' = inbox
  BY <1>1, NothingHeard
<1>2. CASE inbox' = inbox \o <<g>>
  <2>1. inbox \in Seq(S) /\ <<g>> \in Seq(S)
    BY ByPlace
  <2>2. /\ inbox' \in Seq(S) /\ Len(inbox') = Len(inbox) + 1 /\ inbox'[Len(inbox) + 1] = g
        /\ \A i \in 1 .. Len(inbox) : inbox'[i] = inbox[i]
    BY <2>1, <1>2
  <2>3. inbox' \in Seq(ToSet(inbox'))
    BY <2>2, OverItsOwn
  <2>4. g.kind = "no"
    OBVIOUS
  <2> HIDE DEF S, g
  <2>5. ASSUME NEW i \in 1 .. Len(inbox') PROVE Heard(i)' /\ Numbered(i)'
    <3>1. CASE i \in 1 .. Len(inbox)
      BY <3>1, <2>2, ByPlace, StaysHeard, SMTT(20)
    <3>2. CASE i = Len(inbox) + 1
      BY <3>2, <2>2, <2>4 DEF Heard, Numbered
    <3> QED BY <3>1, <3>2, <2>2
  <2> QED BY <2>3, <2>5, ByPlace, ByPlaceNext
<1> QED BY <1>1, <1>2 DEF P!Frames

\* A frame is taken off, and own_revision is no lower.
LEMMA FrameTaken ==
  ASSUME StatusKept, inbox # <<>>, inbox' = Tail(inbox), UNCHANGED market, ~misheard',
         own' \in Nat, own <= own', Head(inbox).kind = "ok" => Head(inbox).rev <= own'
  PROVE StatusKept'
<1>1. /\ inbox' \in Seq(ToSet(inbox)) /\ Len(inbox') = Len(inbox) - 1 /\ Head(inbox) = inbox[1]
      /\ \A i \in 1 .. Len(inbox') : inbox'[i] = inbox[i + 1]
  BY ByPlace
<1>2. inbox' \in Seq(ToSet(inbox'))
  BY <1>1, OverItsOwn
<1>3. ASSUME NEW i \in 1 .. Len(inbox') PROVE Heard(i)' /\ Numbered(i)'
  <2>1. inbox'[i] = inbox[i + 1] /\ i + 1 \in 1 .. Len(inbox) /\ i \in Nat /\ i > 0
    BY <1>1, ByPlace
  <2>2. Heard(i + 1) /\ Numbered(i + 1)
    BY <2>1, ByPlace
  <2>3. Numbered(i)'
    BY <2>1, <2>2 DEF Numbered
  <2>4. ASSUME inbox'[i].kind \in {"changed", "first"}, inbox'[i].own, ~(inbox'[i].rev <= own')
        PROVE \E j \in 1 .. i - 1 : inbox'[j].kind = "ok" /\ inbox'[j].rev = inbox'[i].rev
    <3>1. ~(inbox[i + 1].rev <= own)
      BY <2>1, <2>3, <2>4, ByPlace DEF Numbered
    <3>2. PICK j \in 1 .. i : inbox[j].kind = "ok" /\ inbox[j].rev = inbox[i + 1].rev
      BY <2>1, <2>2, <2>4, <3>1 DEF Heard
    <3>3. j # 1
      BY <3>2, <1>1, <2>1, <2>4
    <3>4. j - 1 \in 1 .. i - 1 /\ j - 1 \in 1 .. Len(inbox') /\ inbox'[j - 1] = inbox[j]
      BY <3>2, <3>3, <1>1, <2>1
    <3> QED BY <3>2, <3>4, <2>1
  <2> QED BY <2>3, <2>4 DEF Heard
<1> QED BY <1>2, <1>3, ByPlace, ByPlaceNext

LEMMA StatusStarts == P!Init => StatusKept
<1>1. <<>> \in Seq(ToSet(<<>>))
  OBVIOUS
<1> QED BY <1>1 DEF P!Init, StatusKept, RevisionsAreNumbers, AnsweredFirst, P!OwnChangeKept

\* own_revision is at least what the socket told of when it was opened.
LEMMA ConnectKeeps == ASSUME StatusKept, P!Connect PROVE StatusKept'
<1> DEFINE first == [kind |-> "first", rev |-> market.rev, own |-> FALSE]
<1>1. CASE own' = P!OwnAfterSet(market.rev) /\ inbox' = <<>>
  <2>1. own' \in Nat /\ inbox' \in Seq(ToSet(inbox'))
    BY <1>1, ByPlace DEF P!OwnAfterSet
  <2> QED BY <1>1, <2>1, ByPlace, ByPlaceNext DEF P!Connect
<1>2. CASE own' = own /\ inbox' = <<first>>
  <2>1. inbox' \in Seq({first}) /\ Len(inbox') = 1 /\ inbox'[1] = first
    BY <1>2
  <2>2. inbox' \in Seq(ToSet(inbox'))
    BY <2>1, OverItsOwn
  <2>3. first.kind = "first" /\ first.rev \in Nat /\ ~first.own
    BY ByPlace
  <2> HIDE DEF first
  <2>4. ASSUME NEW i \in 1 .. Len(inbox') PROVE Heard(i)' /\ Numbered(i)'
    BY <2>1, <2>3 DEF Heard, Numbered
  <2> QED BY <1>2, <2>2, <2>4, ByPlace, ByPlaceNext DEF P!Connect
<1> QED BY <1>1, <1>2 DEF P!Connect

LEMMA StatusStep == StatusKept /\ [P!Next]_P!vars => StatusKept'
<1> SUFFICES ASSUME StatusKept, [P!Next]_P!vars PROVE StatusKept'
  OBVIOUS
<1> USE DEF P!loop, P!net, P!world
\* The frames the thread hears.
<1>1. ASSUME P!StatusSet PROVE StatusKept'
  <2>1. Head(inbox) = inbox[1] /\ 1 \in 1 .. Len(inbox) /\ Head(inbox).kind = "ok"
    BY <1>1, ByPlace DEF P!StatusSet, P!Hears
  <2>2. Head(inbox).rev \in Nat
    BY <2>1, ByPlace DEF Numbered
  <2> QED BY <1>1, <2>2, ByPlace, FrameTaken DEF P!StatusSet, P!Hears, P!OwnAfterSet, P!Frame
<1>2. ASSUME P!StatusRefused PROVE StatusKept'
  BY <1>2, ByPlace, FrameTaken DEF P!StatusRefused, P!Hears
<1>3. ASSUME P!StatusChanged PROVE StatusKept'
  <2>1. /\ Head(inbox) = inbox[1] /\ 1 \in 1 .. Len(inbox)
        /\ Head(inbox).kind \in {"changed", "first"}
    BY <1>3, ByPlace DEF P!StatusChanged, P!Hears
  <2>2. Head(inbox).rev \in Nat /\ Heard(1)
    BY <2>1, ByPlace DEF Numbered
  <2>3. P!Frame.rev > own => ~P!Frame.own
    BY <2>1, <2>2, ByPlace DEF P!Frame, Heard
  <2>4. ~misheard'
    BY <1>3, <2>3, ByPlace DEF P!StatusChanged
  <2> QED BY <1>3, <2>1, <2>2, <2>4, ByPlace, FrameTaken DEF P!StatusChanged, P!Hears, P!Frame
<1>4. ASSUME P!Connect PROVE StatusKept'
  BY <1>4, ConnectKeeps
\* The server.
<1>5. ASSUME P!Commit PROVE StatusKept'
  BY <1>5, AnswerArrives DEF P!Commit, P!Announce
<1>6. ASSUME P!Refuse PROVE StatusKept'
  BY <1>6, RefusalArrives DEF P!Refuse
<1>7. ASSUME P!Website PROVE StatusKept'
  <2>1. PICK s \in {"online", "invisible"} : P!Announce(s, "none", "site", <<>>)
    BY <1>7 DEF P!Website
  <2>2. UNCHANGED <<own, misheard>>
    BY <1>7 DEF P!Website
  <2>3. /\ market'.rev = market.rev + 1
        /\ P!Frames(<<>> \o <<[kind |-> "changed", rev |-> market'.rev, own |-> FALSE]>>)
    BY <2>1 DEF P!Announce
  <2> QED
    BY <2>2, <2>3, ChangeArrives
<1>8. ASSUME P!Expire PROVE StatusKept'
  BY <1>8, ChangeArrives DEF P!Expire, P!Announce
\* No other step touches what is heard, except to lose it with the socket.
<1>9. ASSUME P!Wait \/ P!Try \/ P!Unavailable \/ P!Turn \/ P!Silence \/ P!Dropped \/ P!Closed
               \/ P!RefuseStray
      PROVE StatusKept'
  BY <1>9, NothingHeard
  DEF P!Wait, P!Try, P!Offline, P!Unavailable, P!Turn, P!Silence, P!Dropped, P!Closed,
      P!RefuseStray
<1>10. ASSUME P!User PROVE StatusKept'
  BY <1>10, NothingHeard
  DEF P!User, P!Pick, P!FollowGameNow, P!Set, P!Quit, P!Ask, P!SignOut, P!SignIn, P!Pause, P!Resume
<1>11. ASSUME P!Outside PROVE StatusKept'
  BY <1>11, NothingHeard
  DEF P!Outside, P!GameStarts, P!GameSays, P!GameEnds, P!RenewalDue, P!Crash, P!Elsewhere
<1>12. ASSUME P!CommitStray PROVE StatusKept'
  BY <1>12, ChangeArrives DEF P!CommitStray, P!Announce
<1>13. CASE UNCHANGED P!vars
  BY <1>13, NothingHeard DEF P!vars
<1> QED BY <1>1, <1>2, <1>3, <1>4, <1>5, <1>6, <1>7, <1>8, <1>9, <1>10, <1>11, <1>12, <1>13
        DEF P!Next, P!Thread, P!Server

(* OwnChangeKept: the answer that names a change's revision is in the inbox  *)
(* before the announcement that names it again, revisions are not forgotten  *)
(* when the socket is, and what a dropped socket left under way is answered  *)
(* to nobody and announced as no change of this socket's.                    *)
THEOREM OwnChangeNeverMisheard == P!Spec => []OwnChangeKept
<1>1. StatusKept => OwnChangeKept
  BY DEF StatusKept, OwnChangeKept
<1> QED BY <1>1, StatusStarts, StatusStep, PTL DEF P!Spec

-----------------------------------------------------------------------------
(* What the program sends of its own accord.                                *)

\* The commands, sends, messages and frames there are.
Words == {"asked", "renew", "reconnect"}
Keeps == {"managed", "timed", "none"}
Changes == [status : P!Statuses, keep : Keeps, why : Words]
Calls == 1 .. MaxEvents \cup {NoStatus}
Commands ==
  [kind : {"set"}, status : P!Statuses, call : 1 .. MaxEvents]
  \cup [kind : {"follow", "quit"}]
  \cup [kind : {"settings"}, set : UserSettings]
  \cup [kind : {"line"}, started : BOOLEAN]
Sends == [change : Changes, call : Calls]
Messages == [id : Nat, change : Changes, call : Calls, knew : Nat]
Replies ==
  [kind : {"ok"}, id : Nat, rev : Nat]
  \cup [kind : {"no"}, id : Nat \cup {NoStatus}]
  \cup [kind : {"changed", "first"}, rev : Nat, own : BOOLEAN]
Markets == [status : P!Statuses, keep : Keeps, by : {"start", "app", "site", "expiry"}, rev : Nat]
Answered == \A c \in DOMAIN answers : answers[c] \in {"none", "wait", "done", "refused", "failed"}
Typed ==
  /\ queue \in Seq(Commands) /\ todo \in Seq(Sends)
  /\ wire \in Seq(Messages) /\ inbox \in Seq(Replies)
  /\ ended \in Calls /\ pid \in Calls /\ phase \in P!Phases
  /\ socket \in [gen : Nat, id : Nat] /\ gen \in Nat /\ own \in Nat
  /\ market \in Markets
  /\ events \in 0 .. MaxEvents
  /\ Answered

\* A brain as it should be: it follows the game, and a renewal is due of what it keeps.
Sane(b) ==
  /\ b \in P!Brains
  /\ P!Following(b) /\ b.game => b.keeps \in {"ingame", NoStatus}
  /\ b.due => b.keeps # NoStatus

\* What is heard of is past, and an answer to a newest change is one of the program's.
HeardIsPast ==
  /\ own <= market.rev
  /\ \A i \in 1 .. Len(inbox) :
       /\ inbox[i].kind # "no" => inbox[i].rev <= market.rev
       /\ inbox[i].kind = "ok" /\ inbox[i].rev = market.rev => market.by = "app"

\* The website's change is the newest and the program has heard of it.
SiteHeard == market.by = "site" /\ own >= market.rev
\* With a socket open the program then keeps something up only if it has just sent
\* or is about to send it, or a refusal is on its way.
Yields ==
  P!Connected /\ SiteHeard /\ brain.keeps # NoStatus =>
    todo # <<>> \/ wire # <<>> \/ \E i \in 1 .. Len(inbox) : inbox[i].kind = "no"
\* A renewal falls due when nothing else is under way, and nothing overtakes it.
DueAlone ==
  brain.due => todo = <<>> /\ (P!Connected => wire = <<>> /\ ~SiteHeard)
RenewalsLead ==
  /\ \A i \in 1 .. Len(todo) : todo[i].change.why # "renew"
  /\ \A i \in 1 .. Len(wire) : 
       wire[i].change.why = "renew" =>
         i = 1 /\ wire[i].knew <= market.rev /\ (market.by = "site" => wire[i].knew < market.rev)
\* Neither does a message of a socket that is gone, whenever the server takes it.
Outrun(m) ==
  m.change.why = "renew" => m.knew <= market.rev /\ (market.by = "site" => m.knew < market.rev)
StrayYields == stray \in Seq(Messages) /\ \A i \in 1 .. Len(stray) : Outrun(stray[i])
LoopKept == Typed /\ Sane(brain) /\ HeardIsPast /\ Yields /\ DueAlone /\ RenewalsLead

\* What a decision may come to, from a brain b.
Decides(b, r, why) ==
  /\ Sane(r.brain)
  /\ r.send \in Seq(Changes) /\ \A i \in 1 .. Len(r.send) : r.send[i].why = why
  /\ r.send = <<>> => r.brain.keeps = b.keeps /\ r.brain.due = b.due
  /\ r.send # <<>> => ~r.brain.due

LEMMA BrainIs ==
  ASSUME NEW b \in P!Brains
  PROVE  /\ b.set \in P!Settings /\ b.set \in UserSettings /\ b.game \in BOOLEAN /\ b.paused \in BOOLEAN
         /\ b.keeps \in P!Statuses \cup {NoStatus} /\ b.due \in BOOLEAN /\ b.over \in BOOLEAN
         /\ b.set.follow \in BOOLEAN /\ b.set.closed \in {"online", "invisible"}
BY SettingsAreChosen DEF P!Brains, P!Settings

LEMMA MaintainDecides ==
  ASSUME NEW b, NEW c \in P!Brains, NEW s \in P!Statuses, NEW why \in Words,
         P!Following(c) /\ c.game => s = "ingame"
  PROVE  Decides(b, P!Maintain(c, s, why), why)
<1> DEFINE d == P!Maintain(c, s, why).brain
<1>1. /\ d \in P!Brains /\ d.set = c.set /\ d.game = c.game /\ d.paused = c.paused
      /\ d.keeps = s /\ ~d.due
  BY DEF P!Maintain, P!Brains
<1>2. P!Maintain(c, s, why).send = <<P!Change(s, "managed", why)>> /\ P!Change(s, "managed", why) \in Changes
  BY DEF P!Maintain, P!Change, Changes, Keeps
<1>3. P!Change(s, "managed", why).why = why
  BY DEF P!Change
<1> HIDE DEF d
<1>4. Sane(d)
  BY <1>1, BrainIs DEF Sane, P!Following
<1> QED
  BY <1>1, <1>2, <1>3, <1>4 DEF Decides, d

LEMMA ReleaseDecides ==
  ASSUME NEW b, NEW c \in P!Brains, NEW s \in P!Statuses, NEW keep \in Keeps
  PROVE  Decides(b, P!Release(c, s, keep), "asked")
<1> DEFINE d == P!Release(c, s, keep).brain
<1>1. d \in P!Brains /\ d.keeps = NoStatus /\ ~d.due
  BY DEF P!Release, P!Brains
<1>2. P!Release(c, s, keep).send = <<P!Change(s, keep, "asked")>> /\ P!Change(s, keep, "asked") \in Changes
  BY DEF P!Release, P!Change, Changes, Words
<1>3. P!Change(s, keep, "asked").why = "asked"
  BY DEF P!Change
<1> HIDE DEF d
<1>4. Sane(d)
  BY <1>1 DEF Sane
<1> QED
  BY <1>1, <1>2, <1>3, <1>4 DEF Decides, d

LEMMA QuietDecides ==
  ASSUME NEW b, NEW c, Sane(c), c.keeps = b.keeps, c.due = b.due, NEW why
  PROVE  Decides(b, P!Quiet(c), why)
BY DEF Decides, P!Quiet

\* A change of what Brain knows leaves it sane if the game is not followed then.
LEMMA SaneBut ==
  ASSUME NEW b, Sane(b), NEW c \in P!Brains, c.keeps = b.keeps, c.due = b.due,
         P!Following(c) /\ c.game => P!Following(b) /\ b.game
  PROVE  Sane(c)
BY DEF Sane

\* Brain::game, manual, follow_now, settings_changed, due, reconnected, leaving.
LEMMA GameDecides ==
  ASSUME NEW b, Sane(b), NEW running \in BOOLEAN
  PROVE  Decides(b, P!Game(b, running), "asked")
<1> DEFINE g == [b EXCEPT !.game = running]
           r == [g EXCEPT !.paused = FALSE]
<1>1. b \in P!Brains
  BY DEF Sane
<1>2. /\ g \in P!Brains /\ g.game = running /\ g.keeps = b.keeps /\ g.due = b.due
      /\ r \in P!Brains /\ r.keeps = b.keeps /\ r.due = b.due
  BY <1>1 DEF P!Brains
<1>3. P!Game(b, running) =
        IF running = b.game THEN P!Quiet(b)
        ELSE IF running THEN IF P!Following(r) THEN P!Maintain(r, "ingame", "asked") ELSE P!Quiet(r)
        ELSE IF ~P!Following(g) THEN P!Quiet(g)
        ELSE IF g.set.closed = "online" THEN P!Maintain(g, "online", "asked")
        ELSE P!Release(g, "invisible", "none")
  BY DEF P!Game
<1> HIDE DEF g, r
<1>5. CASE running = b.game
  BY <1>3, <1>5, QuietDecides
<1>6. CASE running # b.game /\ running
  <2>1. CASE P!Following(r)
    BY <1>3, <1>2, <1>6, <2>1, MaintainDecides DEF P!Statuses, Words
  <2>2. CASE ~P!Following(r)
    <3>1. Sane(r)
      BY <1>2, <2>2, SaneBut
    <3> QED
      BY <1>2, <1>3, <1>6, <2>2, <3>1, QuietDecides
  <2> QED
    BY <2>1, <2>2
<1>7. CASE running # b.game /\ ~running
  <2>1. ~g.game
    BY <1>2, <1>7
  <2>2. Decides(b, P!Quiet(g), "asked")
    BY <1>2, <2>1, SaneBut, QuietDecides
  <2>3. Decides(b, P!Maintain(g, "online", "asked"), "asked")
    BY <1>2, <2>1, MaintainDecides DEF P!Statuses, Words
  <2>4. Decides(b, P!Release(g, "invisible", "none"), "asked")
    BY <1>2, ReleaseDecides DEF P!Statuses, Keeps
  <2> QED
    BY <1>3, <1>7, <2>2, <2>3, <2>4
<1> QED
  BY <1>5, <1>6, <1>7

LEMMA ManualDecides ==
  ASSUME NEW b, Sane(b), NEW s \in P!Statuses
  PROVE  Decides(b, P!Manual(b, s), "asked")
<1> DEFINE m == [b EXCEPT !.paused = @ \/ b.set.follow]
<1>1. b \in P!Brains
  BY DEF Sane
<1>2. m \in P!Brains /\ m.set = b.set /\ m.paused = (b.paused \/ b.set.follow)
  BY <1>1 DEF P!Brains
<1>3. P!Manual(b, s) =
        IF s = "invisible" THEN P!Release(m, s, "none")
        ELSE IF b.set.timed THEN P!Release(m, s, "timed")
        ELSE P!Maintain(m, s, "asked")
  BY DEF P!Manual
<1> HIDE DEF m
<1>5. ~P!Following(m)
  BY <1>2 DEF P!Following
<1>6. Decides(b, P!Release(m, s, "none"), "asked") /\ Decides(b, P!Release(m, s, "timed"), "asked")
  BY <1>2, ReleaseDecides DEF Keeps
<1>7. Decides(b, P!Maintain(m, s, "asked"), "asked")
  BY <1>2, <1>5, MaintainDecides DEF Words
<1> QED
  BY <1>3, <1>6, <1>7

LEMMA FollowNowDecides ==
  ASSUME NEW b, Sane(b)
  PROVE  Decides(b, P!FollowNow(b), "asked")
<1> DEFINE f == [b EXCEPT !.paused = FALSE]
<1>1. b \in P!Brains
  BY DEF Sane
<1>2. f \in P!Brains /\ f.keeps = b.keeps /\ f.due = b.due
  BY <1>1 DEF P!Brains
<1>3. P!FollowNow(b) = IF f.set.follow /\ f.game THEN P!Maintain(f, "ingame", "asked") ELSE P!Quiet(f)
  BY DEF P!FollowNow
<1> HIDE DEF f
<1>5. Decides(b, P!Maintain(f, "ingame", "asked"), "asked")
  BY <1>2, MaintainDecides DEF P!Statuses, Words
<1>6. ASSUME ~(f.set.follow /\ f.game) PROVE Decides(b, P!Quiet(f), "asked")
  BY <1>2, <1>6, SaneBut, QuietDecides DEF P!Following
<1> QED
  BY <1>3, <1>5, <1>6

LEMMA SettingsDecides ==
  ASSUME NEW b, Sane(b), NEW s \in UserSettings
  PROVE  Decides(b, P!SettingsChanged(b, s), "asked")
<1> DEFINE c == [b EXCEPT !.set = s, !.paused = @ /\ s.follow]
<1>1. b \in P!Brains
  BY DEF Sane
<1>2. c \in P!Brains /\ c.game = b.game /\ c.keeps = b.keeps /\ c.due = b.due
  BY <1>1 DEF P!Brains
<1>3. P!SettingsChanged(b, s) =
        IF ~P!Following(b) /\ P!Following(c) /\ c.game THEN P!Maintain(c, "ingame", "asked") ELSE P!Quiet(c)
  BY DEF P!SettingsChanged
<1> HIDE DEF c
<1>5. Decides(b, P!Maintain(c, "ingame", "asked"), "asked")
  BY <1>2, MaintainDecides DEF P!Statuses, Words
<1>6. ASSUME ~(~P!Following(b) /\ P!Following(c) /\ c.game) PROVE Decides(b, P!Quiet(c), "asked")
  <2>1. P!Following(c) /\ c.game => P!Following(b) /\ b.game
    BY <1>2, <1>6
  <2> QED
    BY <1>2, <2>1, SaneBut, QuietDecides
<1> QED
  BY <1>3, <1>5, <1>6

LEMMA LeavingDecides ==
  ASSUME NEW b, Sane(b)
  PROVE  Decides(b, P!Leaving(b), "asked")
<1>1. Decides(b, P!Release(b, "invisible", "none"), "asked")
  BY ReleaseDecides DEF Sane, P!Statuses, Keeps
<1> QED
  BY <1>1, QuietDecides DEF P!Leaving

LEMMA DueDecides ==
  ASSUME NEW b, Sane(b)
  PROVE  /\ Decides(b, P!Due(b), "renew") /\ ~P!Due(b).brain.due
         /\ P!Due(b).send # <<>> => b.due /\ Len(P!Due(b).send) = 1
<1>1. CASE b.keeps # NoStatus /\ b.due
  <2>1. b.keeps \in P!Statuses
    BY <1>1, BrainIs DEF Sane
  <2>2. Decides(b, P!Maintain(b, b.keeps, "renew"), "renew")
    BY <1>1, <2>1, MaintainDecides DEF Sane, Words
  <2>3. P!Due(b) = P!Maintain(b, b.keeps, "renew")
    BY <1>1 DEF P!Due
  <2>4. P!Maintain(b, b.keeps, "renew").send # <<>> /\ Len(P!Maintain(b, b.keeps, "renew").send) = 1
    BY DEF P!Maintain
  <2> QED
    BY <1>1, <2>2, <2>3, <2>4 DEF Decides
<1>2. CASE ~(b.keeps # NoStatus /\ b.due)
  BY <1>2, QuietDecides DEF P!Due, P!Quiet, Sane
<1> QED
  BY <1>1, <1>2

LEMMA ReconnectedDecides ==
  ASSUME NEW b, Sane(b)
  PROVE  /\ Decides(b, P!Reconnected(b), "reconnect") /\ ~P!Reconnected(b).brain.due
         /\ P!Reconnected(b).send = <<>> => b.keeps = NoStatus
<1>1. CASE b.keeps # NoStatus
  <2>1. b.keeps \in P!Statuses
    BY <1>1, BrainIs DEF Sane
  <2>2. Decides(b, P!Maintain(b, b.keeps, "reconnect"), "reconnect")
    BY <1>1, <2>1, MaintainDecides DEF Sane, Words
  <2>3. P!Reconnected(b) = P!Maintain(b, b.keeps, "reconnect")
    BY <1>1 DEF P!Reconnected
  <2>4. P!Maintain(b, b.keeps, "reconnect").send # <<>>
    BY DEF P!Maintain
  <2> QED
    BY <1>1, <2>2, <2>3, <2>4 DEF Decides
<1>2. CASE b.keeps = NoStatus
  BY <1>2, QuietDecides DEF P!Reconnected, P!Quiet, Sane
<1> QED
  BY <1>1, <1>2

\* A refusal and a change made elsewhere.
LEMMA RefusedIsSane ==
  ASSUME NEW b, Sane(b)
  PROVE  /\ Sane(P!Refused(b)) /\ P!Refused(b).keeps = NoStatus /\ ~P!Refused(b).due
         /\ Sane(P!ExternalChange(b)) /\ P!ExternalChange(b).keeps = NoStatus /\ ~P!ExternalChange(b).due
<1>1. b \in P!Brains
  BY DEF Sane
<1>2. P!Refused(b) \in P!Brains /\ P!Refused(b).keeps = NoStatus /\ ~P!Refused(b).due
  BY <1>1 DEF P!Brains, P!Refused
<1>3. /\ P!ExternalChange(b) \in P!Brains /\ P!ExternalChange(b).keeps = NoStatus
      /\ ~P!ExternalChange(b).due
  BY <1>1 DEF P!Brains, P!Refused, P!ExternalChange
<1> QED
  BY <1>2, <1>3 DEF Sane

\* One sequence behind another, by its places.
LEMMA Behind ==
  ASSUME NEW S, NEW s \in Seq(S), NEW t \in Seq(S)
  PROVE  /\ s \o t \in Seq(S) /\ Len(s \o t) = Len(s) + Len(t)
         /\ \A i \in 1 .. Len(s) : (s \o t)[i] = s[i]
         /\ \A i \in 1 .. Len(s \o t) :
              i > Len(s) => i - Len(s) \in 1 .. Len(t) /\ (s \o t)[i] = t[i - Len(s)]
OBVIOUS
LEMMA EmptyIsZero ==
  ASSUME NEW S, NEW s \in Seq(S)
  PROVE  s = <<>> <=> Len(s) = 0
OBVIOUS
LEMMA NoneOfNeither ==
  ASSUME NEW m \in Nat, NEW n \in Nat, m + n = 0
  PROVE  m = 0 /\ n = 0
OBVIOUS

\* The loop in the middle of a turn, with the sends it has decided on so far.
InTurn(l) ==
  /\ l \in [brain : P!Brains, ended : Calls, out : Seq(Sends), looked : BOOLEAN, quit : BOOLEAN]
  /\ Sane(l.brain)
  /\ l.out = <<>> => todo = <<>> /\ l.brain.keeps = brain.keeps /\ l.brain.due = brain.due
  /\ l.out # <<>> => ~l.brain.due
NoRenewal(l) == \A i \in 1 .. Len(l.out) : l.out[i].change.why # "renew"

\* A decision of Brain joins them.
Joins(l, r, why, a) ==
  /\ InTurn(a) /\ a.brain = r.brain
  /\ why # "renew" /\ NoRenewal(l) => NoRenewal(a)
  /\ a.out = <<>> => l.out = <<>> /\ r.send = <<>>
  /\ Len(a.out) = Len(l.out) + Len(r.send)
  /\ \A i \in 1 .. Len(l.out) : a.out[i] = l.out[i]
  /\ \A i \in 1 .. Len(a.out) : i > Len(l.out) => a.out[i].change.why = why
LEMMA AfterJoins ==
  ASSUME NEW l, InTurn(l), NEW r, NEW why, Decides(l.brain, r, why), NEW call \in Calls
  PROVE  Joins(l, r, why, P!After(l, r, call))
<1> DEFINE s == [i \in 1 .. Len(r.send) |-> [change |-> r.send[i], call |-> call]]
           a == P!After(l, r, call)
<1>1. /\ l.out \in Seq(Sends) /\ r.send \in Seq(Changes) /\ Len(l.out) \in Nat /\ Len(r.send) \in Nat
      /\ l.brain \in P!Brains /\ r.brain \in P!Brains
  BY DEF InTurn, Decides, Sane
<1>2. s \in Seq(Sends) /\ Len(s) = Len(r.send) /\ \A i \in 1 .. Len(s) : s[i].change = r.send[i]
  <2>1. \A i \in 1 .. Len(r.send) : r.send[i] \in Changes
    BY <1>1
  <2>2. \A i \in 1 .. Len(r.send) : [change |-> r.send[i], call |-> call] \in Sends
    BY <2>1 DEF Sends
  <2> QED
    BY <1>1, <2>2
<1>3. a.brain = r.brain /\ a.out = l.out \o s
      /\ a \in [brain : P!Brains, ended : Calls, out : Seq(Sends), looked : BOOLEAN, quit : BOOLEAN]
  <2>1. l.out \o s \in Seq(Sends)
    BY <1>1, <1>2
  <2>2. P!After(l, r, call) = [l EXCEPT !.brain = r.brain, !.out = @ \o s]
    BY DEF P!After
  <2> HIDE DEF s, a
  <2>3. l \in [brain : P!Brains, ended : Calls, out : Seq(Sends), looked : BOOLEAN, quit : BOOLEAN]
    BY DEF InTurn
  <2> QED
    BY <1>1, <2>1, <2>2, <2>3 DEF a
<1> HIDE DEF s, a
<1>4. /\ Len(a.out) = Len(l.out) + Len(r.send)
      /\ \A i \in 1 .. Len(l.out) : a.out[i] = l.out[i]
      /\ \A i \in 1 .. Len(a.out) :
           i > Len(l.out) => i - Len(l.out) \in 1 .. Len(s) /\ a.out[i] = s[i - Len(l.out)]
  <2> DEFINE o == l.out
  <2>1. o \in Seq(Sends) /\ a.out = o \o s
    BY <1>1, <1>3
  <2> HIDE DEF o
  <2>2. /\ Len(o \o s) = Len(o) + Len(s)
        /\ \A i \in 1 .. Len(o) : (o \o s)[i] = o[i]
        /\ \A i \in 1 .. Len(o \o s) :
             i > Len(o) => i - Len(o) \in 1 .. Len(s) /\ (o \o s)[i] = s[i - Len(o)]
    <3>1. s \in Seq(Sends)
      BY <1>2
    <3> QED
      BY <2>1, <3>1, Behind, Zenon
  <2> QED
    BY <1>2, <2>1, <2>2, Zenon DEF o
<1>5. \A i \in 1 .. Len(a.out) : i > Len(l.out) => a.out[i].change.why = why
  <2> SUFFICES ASSUME NEW i \in 1 .. Len(a.out), i > Len(l.out) PROVE a.out[i].change.why = why
    OBVIOUS
  <2>1. i - Len(l.out) \in 1 .. Len(s) /\ a.out[i] = s[i - Len(l.out)]
    BY <1>4
  <2>2. a.out[i].change = r.send[i - Len(l.out)] /\ i - Len(l.out) \in 1 .. Len(r.send)
    BY <1>2, <2>1
  <2> QED
    BY <2>2 DEF Decides
<1>6. a.out = <<>> => l.out = <<>> /\ r.send = <<>>
  <2>1. a.out \in Seq(Sends)
    BY <1>3
  <2>2. a.out = <<>> => Len(l.out) + Len(r.send) = 0
    BY <1>4, <2>1, EmptyIsZero
  <2>3. a.out = <<>> => Len(l.out) = 0 /\ Len(r.send) = 0
    BY <1>1, <2>2, NoneOfNeither, Zenon
  <2> QED
    BY <1>1, <2>3, EmptyIsZero
<1>7. InTurn(a)
  <2>1. Sane(r.brain) /\ (r.send = <<>> => r.brain.keeps = l.brain.keeps /\ r.brain.due = l.brain.due)
        /\ (r.send # <<>> => ~r.brain.due)
    BY DEF Decides
  <2>2. /\ l.out = <<>> => todo = <<>> /\ l.brain.keeps = brain.keeps /\ l.brain.due = brain.due
        /\ l.out # <<>> => ~l.brain.due
    BY DEF InTurn
  <2>3. a.out # <<>> => l.out # <<>> \/ r.send # <<>>
    BY <1>1, <1>2, <1>3, <1>4
  <2>4. a.out = <<>> => todo = <<>> /\ a.brain.keeps = brain.keeps /\ a.brain.due = brain.due
    BY <1>3, <1>6, <2>1, <2>2
  <2>5. a.out # <<>> => ~a.brain.due
    BY <1>3, <2>1, <2>2, <2>3
  <2> QED
    BY <1>3, <2>1, <2>4, <2>5 DEF InTurn
<1>8. ASSUME why # "renew", NoRenewal(l) PROVE NoRenewal(a)
  <2> SUFFICES ASSUME NEW i \in 1 .. Len(a.out) PROVE a.out[i].change.why # "renew"
    BY DEF NoRenewal
  <2>1. CASE i > Len(l.out)
    BY <1>5, <1>8, <2>1
  <2>2. CASE ~(i > Len(l.out))
    <3>1. i \in 1 .. Len(l.out)
      BY <1>1, <2>2
    <3> QED
      BY <1>4, <1>8, <3>1 DEF NoRenewal
  <2> QED
    BY <2>1, <2>2
<1> QED
  BY <1>3, <1>4, <1>5, <1>6, <1>7, <1>8 DEF a, Joins

LEMMA BeginInTurn ==
  ASSUME Typed, Sane(brain), DueAlone, RenewalsLead
  PROVE  InTurn(P!Begin) /\ NoRenewal(P!Begin)
BY DEF Typed, Sane, DueAlone, RenewalsLead, InTurn, NoRenewal, P!Begin

\* What GameWatch is told of does not change what was decided.
LEMMA ToldInTurn ==
  ASSUME NEW l, InTurn(l), NEW e \in Calls, NEW looked \in BOOLEAN
  PROVE  LET t == [l EXCEPT !.ended = e, !.looked = looked] 
             u == [l EXCEPT !.ended = e] IN
         /\ InTurn(t) /\ t.brain = l.brain /\ t.out = l.out
         /\ InTurn(u) /\ u.brain = l.brain /\ u.out = l.out
<1>1. l \in [brain : P!Brains, ended : Calls, out : Seq(Sends), looked : BOOLEAN, quit : BOOLEAN]
  BY DEF InTurn
<1>2. l.ended \in Calls /\ l.looked \in BOOLEAN
  BY <1>1
<1> DEFINE t == [l EXCEPT !.ended = e, !.looked = looked]
           u == [l EXCEPT !.ended = e]
<1>3. /\ t \in [brain : P!Brains, ended : Calls, out : Seq(Sends), looked : BOOLEAN, quit : BOOLEAN]
      /\ t.brain = l.brain /\ t.out = l.out
  BY <1>1
<1>4. /\ u \in [brain : P!Brains, ended : Calls, out : Seq(Sends), looked : BOOLEAN, quit : BOOLEAN]
      /\ u.brain = l.brain /\ u.out = l.out
  BY <1>1
<1> HIDE DEF t, u
<1> QED
  BY <1>3, <1>4 DEF InTurn, t, u

\* A look for the game adds at most a change.
LEMMA LookInTurn ==
  ASSUME pid \in Calls, NEW l, InTurn(l)
  PROVE  /\ InTurn(P!Look(l)) /\ (P!Look(l).out = <<>> => l.out = <<>>)
         /\ NoRenewal(l) => NoRenewal(P!Look(l))
<1> DEFINE e == P!Told(pid, l.ended)
           t == [l EXCEPT !.ended = e]
           r == P!Game(l.brain, P!Now(pid, l.ended))
<1>1. l.ended \in Calls
  BY DEF InTurn
<1>2. e \in Calls /\ P!Now(pid, l.ended) \in BOOLEAN
  BY <1>1 DEF P!Told, P!Now, Calls
<1>3. P!Look(l) = P!After(t, r, NoStatus) /\ NoStatus \in Calls
  BY DEF P!Look, Calls
<1>4. Decides(l.brain, r, "asked")
  BY <1>2, GameDecides DEF InTurn
<1> HIDE DEF e, r
<1>5. InTurn(t) /\ t.brain = l.brain /\ t.out = l.out
  BY <1>2, ToldInTurn
<1> HIDE DEF t
<1>6. NoRenewal(l) => NoRenewal(t)
  BY <1>5 DEF NoRenewal
<1>7. Joins(t, r, "asked", P!Look(l))
  BY <1>3, <1>4, <1>5, AfterJoins
<1> QED
  BY <1>5, <1>6, <1>7 DEF Joins

\* Loop::handle: so does a command.
LEMMA HandleInTurn ==
  ASSUME pid \in Calls, NEW l, InTurn(l), NoRenewal(l), NEW c \in Commands
  PROVE  InTurn(P!Handle(l, c)) /\ NoRenewal(P!Handle(l, c))
<1>1. Sane(l.brain) /\ NoStatus \in Calls /\ l.ended \in Calls
  BY DEF InTurn, Calls
<1>2. CASE c \in [kind : {"set"}, status : P!Statuses, call : 1 .. MaxEvents]
  <2>1. c.kind = "set" /\ c.status \in P!Statuses /\ c.call \in Calls
    BY <1>2 DEF Calls
  <2>2. P!Handle(l, c) = P!After(l, P!Manual(l.brain, c.status), c.call)
    BY <2>1 DEF P!Handle
  <2>3. Decides(l.brain, P!Manual(l.brain, c.status), "asked")
    BY <1>1, <2>1, ManualDecides
  <2>4. Joins(l, P!Manual(l.brain, c.status), "asked", P!Handle(l, c))
    BY <2>1, <2>2, <2>3, AfterJoins
  <2> QED
    BY <2>4 DEF Joins
<1>3. CASE c \in [kind : {"follow", "quit"}] /\ c.kind = "follow"
  <2>1. P!Handle(l, c) = P!After(l, P!FollowNow(l.brain), NoStatus)
    BY <1>3 DEF P!Handle
  <2>2. Joins(l, P!FollowNow(l.brain), "asked", P!Handle(l, c))
    BY <1>1, <2>1, FollowNowDecides, AfterJoins
  <2> QED
    BY <2>2 DEF Joins
<1>4. CASE c \in [kind : {"settings"}, set : UserSettings]
  <2>1. c.kind = "settings" /\ c.set \in UserSettings
    BY <1>4
  <2>2. P!Handle(l, c) = P!After(l, P!SettingsChanged(l.brain, c.set), NoStatus)
    BY <2>1 DEF P!Handle
  <2>3. Joins(l, P!SettingsChanged(l.brain, c.set), "asked", P!Handle(l, c))
    BY <1>1, <2>1, <2>2, SettingsDecides, AfterJoins
  <2> QED
    BY <2>3 DEF Joins
<1>5. CASE c \in [kind : {"line"}, started : BOOLEAN]
  <2>1. c.kind = "line" /\ c.started \in BOOLEAN
    BY <1>5
  <2> DEFINE over == IF c.started THEN NoStatus ELSE pid
             e == P!Told(pid, over)
             t == [l EXCEPT !.ended = e, !.looked = TRUE]
             r == P!Game(l.brain, P!Now(pid, over))
  <2>2. P!Handle(l, c) = P!After(t, r, NoStatus)
    BY <2>1 DEF P!Handle, P!GameLine
  <2>3. e \in Calls /\ P!Now(pid, over) \in BOOLEAN
    BY <1>1 DEF P!Told, P!Now
  <2>4. Decides(l.brain, r, "asked")
    BY <1>1, <2>3, GameDecides
  <2> HIDE DEF e, r
  <2>5. InTurn(t) /\ t.brain = l.brain /\ t.out = l.out
    BY <2>3, ToldInTurn
  <2> HIDE DEF t
  <2>6. NoRenewal(t)
    BY <2>5 DEF NoRenewal
  <2>7. Joins(t, r, "asked", P!Handle(l, c))
    BY <1>1, <2>2, <2>4, <2>5, AfterJoins
  <2> QED
    BY <2>6, <2>7 DEF Joins
<1>6. CASE c \in [kind : {"follow", "quit"}] /\ c.kind = "quit"
  <2> DEFINE a == P!After(l, P!Leaving(l.brain), NoStatus)
             q == [a EXCEPT !.quit = TRUE]
  <2>1. P!Handle(l, c) = q
    BY <1>6 DEF P!Handle
  <2>2. InTurn(a) /\ NoRenewal(a)
    <3>1. Joins(l, P!Leaving(l.brain), "asked", a)
      BY <1>1, LeavingDecides, AfterJoins
    <3> QED
      BY <3>1 DEF Joins
  <2> HIDE DEF a
  <2>3. /\ q \in [brain : P!Brains, ended : Calls, out : Seq(Sends), looked : BOOLEAN, quit : BOOLEAN]
        /\ q.brain = a.brain /\ q.out = a.out
    BY <2>2 DEF InTurn
  <2> HIDE DEF q
  <2>4. InTurn(q) /\ NoRenewal(q)
    BY <2>2, <2>3 DEF InTurn, NoRenewal
  <2> QED
    BY <2>1, <2>4
<1> QED
  BY <1>2, <1>3, <1>4, <1>5, <1>6 DEF Commands

\* A set of numbers has a least one.
LEMMA Foremost ==
  ASSUME NEW W, W # {}, W \subseteq Nat
  PROVE  \E n \in W : \A m \in W : n <= m
<1>1. PICK n \in W : \A m \in W : ~(<<m, n>> \in OpToRel(<, Nat))
  BY WFMin, NatLessThanWellFounded
<1>2. \A m \in W : ~(m < n)
  BY <1>1 DEF OpToRel
<1> QED
  BY <1>2

\* The commands of a turn, one after the other ...
Drains(f, n) ==
  f = [i \in 0 .. n |-> IF i = 0 THEN P!Begin ELSE P!Handle(f[i - 1], queue[i])]

LEMMA DrainsExists ==
  ASSUME NEW n \in Nat
  PROVE  \E f : Drains(f, n)
<1> DEFINE Bad == {k \in Nat : ~\E f : Drains(f, k)}
<1>1. SUFFICES ASSUME Bad # {} PROVE FALSE
  OBVIOUS
<1>2. PICK k \in Bad : \A j \in Bad : k <= j
  <2>1. Bad \subseteq Nat
    OBVIOUS
  <2> HIDE DEF Bad
  <2> QED
    BY <1>1, <2>1, Foremost
<1>3. k \in Nat /\ ~\E f : Drains(f, k)
  OBVIOUS
<1>4. CASE k = 0
  <2> DEFINE g == [i \in 0 .. k |-> P!Begin]
  <2>1. Drains(g, k)
    BY <1>4 DEF Drains
  <2> QED
    BY <1>3, <2>1
<1>5. CASE k # 0
  <2>1. k - 1 \in Nat /\ ~(k <= k - 1)
    BY <1>3, <1>5
  <2>2. k - 1 \notin Bad
    BY <1>2, <2>1
  <2>3. PICK f : Drains(f, k - 1)
    BY <2>1, <2>2
  <2> DEFINE g == [i \in 0 .. k |-> IF i = k THEN P!Handle(f[k - 1], queue[k]) ELSE f[i]]
  <2>4. 0 .. k = (0 .. k - 1) \cup {k} /\ k \notin 0 .. k - 1 /\ k - 1 \in 0 .. k - 1
    BY <2>1
  <2>5. \A i \in 0 .. k - 1 : g[i] = f[i]
    BY <2>4
  <2>6. g[k] = P!Handle(f[k - 1], queue[k])
    BY <2>4
  <2>7. g = [i \in 0 .. k |-> g[i]]
    OBVIOUS
  <2>8. \A i \in 0 .. k - 1 : f[i] = IF i = 0 THEN P!Begin ELSE P!Handle(f[i - 1], queue[i])
    BY <2>3 DEF Drains
  <2> HIDE DEF g, Bad
  <2>9. ASSUME NEW i \in 0 .. k PROVE g[i] = IF i = 0 THEN P!Begin ELSE P!Handle(g[i - 1], queue[i])
    <3>1. CASE i = k
      BY <1>5, <2>4, <2>5, <2>6, <3>1
    <3>2. CASE i # k
      <4>1. i \in 0 .. k - 1 /\ (i # 0 => i - 1 \in 0 .. k - 1)
        BY <1>3, <2>1, <3>2
      <4> QED
        BY <2>5, <2>8, <4>1
    <3> QED
      BY <3>1, <3>2
  <2>10. Drains(g, k)
    BY <2>7, <2>9 DEF Drains
  <2> QED
    BY <1>3, <2>10
<1> QED
  BY <1>4, <1>5

\* ... leave the brain as it should be and renew nothing.
LEMMA DrainedInTurn ==
  ASSUME Typed, Sane(brain), DueAlone, RenewalsLead
  PROVE  InTurn(P!Drained) /\ NoRenewal(P!Drained)
<1> DEFINE f == CHOOSE f : Drains(f, Len(queue))
           Good(l) == InTurn(l) /\ NoRenewal(l)
           Bad == {n \in 0 .. Len(queue) : ~Good(f[n])}
<1>1. Len(queue) \in Nat /\ pid \in Calls /\ \A i \in 1 .. Len(queue) : queue[i] \in Commands
  BY DEF Typed
<1>2. Drains(f, Len(queue))
  BY <1>1, DrainsExists
<1>3. P!Drained = f[Len(queue)]
  BY DEF P!Drained, Drains
<1> HIDE DEF f
<1>4. \A i \in 0 .. Len(queue) : f[i] = IF i = 0 THEN P!Begin ELSE P!Handle(f[i - 1], queue[i])
  BY <1>2 DEF Drains
<1>5. SUFFICES ASSUME Bad # {} PROVE FALSE
  BY <1>1, <1>3
<1>6. PICK n \in Bad : \A m \in Bad : n <= m
  <2>1. Bad \subseteq Nat
    BY <1>1
  <2> HIDE DEF Bad
  <2> QED
    BY <1>5, <2>1, Foremost
<1>7. n \in 0 .. Len(queue) /\ ~Good(f[n])
  OBVIOUS
<1>8. CASE n = 0
  BY <1>1, <1>4, <1>7, <1>8, BeginInTurn
<1>9. CASE n # 0
  <2>1. n - 1 \in 0 .. Len(queue) /\ ~(n <= n - 1) /\ n \in 1 .. Len(queue)
    BY <1>1, <1>7, <1>9
  <2>2. Good(f[n - 1])
    BY <1>6, <2>1
  <2>3. f[n] = P!Handle(f[n - 1], queue[n]) /\ queue[n] \in Commands
    BY <1>1, <1>4, <1>7, <1>9, <2>1
  <2> HIDE DEF Bad
  <2>4. Good(P!Handle(f[n - 1], queue[n]))
    BY <1>1, <2>2, <2>3, HandleInTurn
  <2> QED
    BY <1>7, <2>3, <2>4
<1> QED
  BY <1>8, <1>9

\* What a turn with a socket comes to: a renewal is sent only when one was due, and then first.
Settled(l) ==
  /\ InTurn(l) /\ ~l.brain.due
  /\ \A i \in 1 .. Len(l.out) : l.out[i].change.why = "renew" => i = 1 /\ brain.due
LEMMA DecidedSettled ==
  ASSUME Typed, Sane(brain), DueAlone, RenewalsLead, NEW look \in BOOLEAN
  PROVE  Settled(P!Decided(look))
<1> DEFINE k == IF look THEN P!Look(P!Drained) ELSE P!Drained
           r == P!After(k, P!Due(k.brain), NoStatus)
           v == P!After(r, P!Leaving(r.brain), NoStatus)
<1>1. P!Decided(look) = IF P!SignedOut THEN v ELSE r
  BY DEF P!Decided
<1>2. NoStatus \in Calls /\ pid \in Calls
  BY DEF Typed, Calls
<1>3. InTurn(k) /\ NoRenewal(k)
  BY <1>2, DrainedInTurn, LookInTurn
<1> HIDE DEF k
<1>4. /\ Decides(k.brain, P!Due(k.brain), "renew") /\ ~P!Due(k.brain).brain.due
      /\ P!Due(k.brain).send # <<>> => k.brain.due /\ Len(P!Due(k.brain).send) = 1
  BY <1>3, DueDecides DEF InTurn
<1>5. Joins(k, P!Due(k.brain), "renew", r)
  BY <1>2, <1>3, <1>4, AfterJoins
<1>6. Settled(r)
  <2> DEFINE s == P!Due(k.brain).send
  <2>1. k.out \in Seq(Sends) /\ s \in Seq(Changes) /\ Len(k.out) \in Nat /\ Len(s) \in Nat
    BY <1>3, <1>4 DEF InTurn, Decides
  <2>2. s # <<>> => k.out = <<>> /\ Len(k.out) = 0 /\ Len(s) = 1 /\ brain.due
    BY <1>3, <1>4, <2>1, EmptyIsZero DEF InTurn
  <2>3. s = <<>> => Len(s) = 0
    OBVIOUS
  <2>4. Len(r.out) = Len(k.out) + Len(s) /\ \A i \in 1 .. Len(k.out) : r.out[i] = k.out[i]
    BY <1>5 DEF Joins
  <2> HIDE DEF s
  <2>5. ASSUME NEW i \in 1 .. Len(r.out), r.out[i].change.why = "renew" PROVE i = 1 /\ brain.due
    <3>1. CASE s # <<>>
      <4>1. Len(r.out) = 0 + 1
        BY <2>2, <2>4, <3>1, Zenon
      <4>2. \A j \in 1 .. 0 + 1 : j = 1
        OBVIOUS
      <4> QED
        BY <2>2, <3>1, <4>1, <4>2
    <3>2. CASE s = <<>>
      <4>1. i \in 1 .. Len(k.out)
        BY <2>1, <2>3, <2>4, <3>2
      <4> QED
        BY <1>3, <2>4, <2>5, <4>1 DEF NoRenewal
    <3> QED
      BY <3>1, <3>2
  <2> QED
    BY <1>4, <1>5, <2>5 DEF Settled, Joins
<1> HIDE DEF r
<1>7. Decides(r.brain, P!Leaving(r.brain), "asked")
  BY <1>6, LeavingDecides DEF Settled, InTurn
<1>8. Joins(r, P!Leaving(r.brain), "asked", v)
  BY <1>2, <1>6, <1>7, AfterJoins DEF Settled
<1>9. Settled(v)
  <2>1. ~v.brain.due
    BY <1>6, <1>7, <1>8 DEF Joins, Decides, Settled
  <2>2. ASSUME NEW i \in 1 .. Len(v.out), v.out[i].change.why = "renew" PROVE i = 1 /\ brain.due
    <3>1. r.out \in Seq(Sends) /\ Len(r.out) \in Nat
      BY <1>6 DEF Settled, InTurn
    <3>2. ~(i > Len(r.out))
      BY <1>8, <2>2 DEF Joins
    <3>3. i \in 1 .. Len(r.out)
      BY <3>1, <3>2
    <3>4. v.out[i] = r.out[i]
      BY <1>8, <3>3 DEF Joins
    <3> QED
      BY <1>6, <2>2, <3>3, <3>4 DEF Settled
  <2> QED
    BY <1>8, <2>1, <2>2 DEF Settled, Joins
<1> QED
  BY <1>1, <1>6, <1>9

\* The parts of the invariant, by what they look at.
LEMMA LoopStarts == P!Init => LoopKept
<1> SUFFICES ASSUME P!Init PROVE LoopKept
  OBVIOUS
<1>1. PICK s \in UserSettings :
        brain = [set |-> s, game |-> FALSE, paused |-> FALSE, keeps |-> NoStatus, due |-> FALSE,
                 over |-> FALSE]
  BY DEF P!Init
<1>2. Sane(brain)
  BY <1>1 DEF Sane, P!Brains
<1>3. Typed
  BY BoundsAreNumbers DEF P!Init, Typed, Markets, Answered, Calls, P!Phases, P!Statuses, Keeps
<1>4. HeardIsPast /\ Yields /\ DueAlone /\ RenewalsLead
  BY <1>1 DEF P!Init, HeardIsPast, Yields, DueAlone, RenewalsLead, P!Connected
<1> QED
  BY <1>2, <1>3, <1>4 DEF LoopKept

\* What the user, the session, the policy and the game do leaves the loop as it is.
LEMMA AsideKeeps ==
  ASSUME LoopKept, Typed', UNCHANGED <<brain, todo, wire, inbox, own, market>>,
         P!Connected' => P!Connected
  PROVE  LoopKept'
BY DEF LoopKept, Sane, HeardIsPast, Yields, SiteHeard, DueAlone, RenewalsLead

LEMMA TellKeeps ==
  ASSUME Answered, NEW calls, NEW word \in {"done", "refused", "failed"}, P!Tell(calls, word)
  PROVE  Answered'
BY DEF Answered, P!Tell

LEMMA TakeKeeps ==
  ASSUME Answered, NEW id, NEW word \in {"done", "refused", "failed"}, P!Take(id, word)
  PROVE  Answered'
<1>1. CASE UNCHANGED <<pending, answers>>
  BY <1>1 DEF Answered
<1>2. CASE P!Tell({pending[P!Takes(id)].call}, word)
  BY <1>2, TellKeeps
<1> QED
  BY <1>1, <1>2 DEF P!Take

\* A frame that is taken leaves the others.
LEMMA TailIs ==
  ASSUME NEW S, NEW s \in Seq(S), s # <<>>
  PROVE  /\ Head(s) = s[1] /\ 1 \in 1 .. Len(s) /\ Tail(s) \in Seq(S) /\ Head(s) \in S
         /\ Len(s) \in Nat /\ Len(Tail(s)) = Len(s) - 1
         /\ \A i \in 1 .. Len(Tail(s)) : i + 1 \in 1 .. Len(s) /\ Tail(s)[i] = s[i + 1]
OBVIOUS

LEMMA HearsKeeps ==
  ASSUME LoopKept, NEW kinds, P!Hears(kinds)
  PROVE  /\ inbox # <<>> /\ P!Frame = inbox[1] /\ P!Frame.kind \in kinds /\ P!Frame \in Replies
         /\ inbox' \in Seq(Replies) /\ Len(inbox) \in Nat /\ Len(inbox') = Len(inbox) - 1
         /\ \A i \in 1 .. Len(inbox') : i + 1 \in 1 .. Len(inbox) /\ inbox'[i] = inbox[i + 1]
         /\ 1 \in 1 .. Len(inbox) /\ P!Connected /\ P!Connected' /\ phase' \in P!Phases
<1>1. inbox \in Seq(Replies) /\ inbox # <<>> /\ inbox' = Tail(inbox) /\ P!Frame = Head(inbox)
      /\ P!Frame.kind \in kinds
  BY DEF LoopKept, Typed, P!Hears, P!Frame
<1>2. P!Connected /\ P!Connected' /\ phase' \in P!Phases
  BY DEF P!Hears, P!Polling, P!Connected, P!Phases
<1> QED
  BY <1>1, <1>2, TailIs, Zenon

LEMMA SetKeeps == ASSUME LoopKept, P!StatusSet PROVE LoopKept'
<1>1. /\ P!Hears({"ok"}) /\ own' = P!OwnAfterSet(P!Frame.rev) /\ P!Take(P!Frame.id, "done")
      /\ UNCHANGED <<queue, brain, ended, todo, socket, wire, market, gen, pid, events>>
  BY DEF P!StatusSet, P!Hears, P!world
<1>2. /\ P!Frame = inbox[1] /\ P!Frame.kind = "ok" /\ P!Frame \in Replies /\ 1 \in 1 .. Len(inbox)
      /\ inbox' \in Seq(Replies) /\ Len(inbox) \in Nat /\ Len(inbox') = Len(inbox) - 1
      /\ \A i \in 1 .. Len(inbox') : i + 1 \in 1 .. Len(inbox) /\ inbox'[i] = inbox[i + 1]
      /\ P!Connected /\ P!Connected' /\ phase' \in P!Phases
  BY <1>1, HearsKeeps
<1>3. P!Frame.rev \in Nat
  BY <1>2 DEF Replies
<1>4. own \in Nat /\ market.rev \in Nat
  BY DEF LoopKept, Typed, Markets
<1>5. P!Frame.rev <= market.rev /\ (P!Frame.rev = market.rev => market.by = "app")
  BY <1>2 DEF LoopKept, HeardIsPast
<1>6. own' \in Nat /\ own' <= market.rev /\ (own' >= market.rev /\ market.by = "site" => own >= market.rev)
  BY <1>1, <1>3, <1>4, <1>5 DEF P!OwnAfterSet, LoopKept, HeardIsPast
<1>7. Typed'
  BY <1>1, <1>2, <1>6, TakeKeeps DEF LoopKept, Typed
<1>8. HeardIsPast'
  BY <1>1, <1>2, <1>6 DEF LoopKept, HeardIsPast
<1>9. SiteHeard' => SiteHeard
  BY <1>1, <1>6 DEF SiteHeard
<1>10. Yields'
  <2> SUFFICES ASSUME SiteHeard', brain.keeps # NoStatus, todo = <<>>, wire = <<>>
               PROVE  \E i \in 1 .. Len(inbox') : inbox'[i].kind = "no"
    BY <1>1 DEF Yields
  <2>1. PICK i \in 1 .. Len(inbox) : inbox[i].kind = "no"
    BY <1>2, <1>9 DEF LoopKept, Yields
  <2>2. i # 1
    BY <1>2, <2>1
  <2>3. i - 1 \in 1 .. Len(inbox') /\ (i - 1) + 1 = i
    BY <1>2, <2>2
  <2> QED
    BY <1>2, <2>1, <2>3
<1>11. DueAlone' /\ RenewalsLead' /\ Sane(brain)'
  BY <1>1, <1>2, <1>9 DEF LoopKept, DueAlone, RenewalsLead, Sane
<1> QED
  BY <1>7, <1>8, <1>10, <1>11 DEF LoopKept

LEMMA HeardKeeps == ASSUME LoopKept, P!StatusRefused \/ P!StatusChanged PROVE LoopKept'
<1>1. PICK kinds : P!Hears(kinds) /\ kinds \in {{"no"}, {"changed", "first"}}
  BY DEF P!StatusRefused, P!StatusChanged
<1>2. /\ P!Frame = inbox[1] /\ P!Frame \in Replies /\ 1 \in 1 .. Len(inbox)
      /\ inbox' \in Seq(Replies) /\ Len(inbox) \in Nat /\ Len(inbox') = Len(inbox) - 1
      /\ \A i \in 1 .. Len(inbox') : i + 1 \in 1 .. Len(inbox) /\ inbox'[i] = inbox[i + 1]
      /\ P!Connected /\ P!Connected' /\ phase' \in P!Phases
      /\ UNCHANGED <<queue, ended, todo, socket, wire, market, gen, pid, events>>
  BY <1>1, HearsKeeps DEF P!Hears, P!world
<1>3. own \in Nat /\ market.rev \in Nat /\ own <= market.rev /\ Answered /\ Sane(brain)
  BY DEF LoopKept, Typed, Markets, HeardIsPast
<1>4. CASE P!StatusRefused
  <2>1. brain' = P!Refused(brain) /\ own' = own /\ Answered'
    BY <1>3, <1>4, TakeKeeps DEF P!StatusRefused
  <2>2. Sane(brain') /\ brain'.keeps = NoStatus /\ ~brain'.due
    BY <1>3, <2>1, RefusedIsSane
  <2>3. Typed'
    BY <1>2, <2>1 DEF LoopKept, Typed
  <2>4. HeardIsPast'
    BY <1>2, <2>1 DEF LoopKept, HeardIsPast
  <2>5. RenewalsLead'
    BY <1>2, <2>1 DEF LoopKept, RenewalsLead
  <2> QED
    BY <2>2, <2>3, <2>4, <2>5 DEF LoopKept, Yields, DueAlone
<1>5. CASE P!StatusChanged /\ P!Frame.rev > own
  <2>1. brain' = P!ExternalChange(brain) /\ own' = P!Frame.rev /\ UNCHANGED answers
    BY <1>5 DEF P!StatusChanged
  <2>2. Sane(brain') /\ brain'.keeps = NoStatus /\ ~brain'.due
    BY <1>3, <2>1, RefusedIsSane
  <2>3. P!Frame.kind \in {"changed", "first"}
    BY <1>5, HearsKeeps DEF P!StatusChanged
  <2>4. own' \in Nat /\ own' <= market.rev
    BY <1>2, <2>1, <2>3 DEF LoopKept, HeardIsPast, Replies
  <2>5. Typed'
    BY <1>2, <2>1, <2>4 DEF LoopKept, Typed, Answered
  <2>6. HeardIsPast'
    BY <1>2, <2>4 DEF LoopKept, HeardIsPast
  <2>7. RenewalsLead'
    BY <1>2 DEF LoopKept, RenewalsLead
  <2> QED
    BY <2>2, <2>5, <2>6, <2>7 DEF LoopKept, Yields, DueAlone
<1>6. CASE P!StatusChanged /\ ~(P!Frame.rev > own)
  <2>1. UNCHANGED <<brain, own, answers>>
    BY <1>6 DEF P!StatusChanged
  <2>2. P!Frame.kind \in {"changed", "first"}
    BY <1>6, HearsKeeps DEF P!StatusChanged
  <2>3. Typed'
    BY <1>2, <2>1 DEF LoopKept, Typed, Answered
  <2>4. HeardIsPast'
    BY <1>2, <2>1 DEF LoopKept, HeardIsPast
  <2>5. RenewalsLead' /\ DueAlone' /\ Sane(brain)'
    BY <1>2, <2>1 DEF LoopKept, RenewalsLead, DueAlone, SiteHeard, Sane
  <2>6. Yields'
    <3> SUFFICES ASSUME SiteHeard', brain.keeps # NoStatus, todo = <<>>, wire = <<>>
                 PROVE  \E i \in 1 .. Len(inbox') : inbox'[i].kind = "no"
      BY <1>2, <2>1 DEF Yields
    <3>1. PICK i \in 1 .. Len(inbox) : inbox[i].kind = "no"
      BY <1>2, <2>1 DEF LoopKept, Yields, SiteHeard
    <3>2. i # 1
      BY <1>2, <2>2, <3>1
    <3>3. i - 1 \in 1 .. Len(inbox') /\ (i - 1) + 1 = i
      BY <1>2, <3>2
    <3> QED
      BY <1>2, <3>1, <3>3
  <2> QED
    BY <2>3, <2>4, <2>5, <2>6 DEF LoopKept
<1> QED
  BY <1>4, <1>5, <1>6

\* What the server announces is past when it is heard.
LEMMA Announced ==
  ASSUME LoopKept, own' = own, NEW status \in P!Statuses, NEW keep \in Keeps,
         NEW by \in {"app", "site", "expiry"}, NEW before \in Seq(Replies),
         P!Announce(status, keep, by, before),
         \A i \in 1 .. Len(before) : before[i].kind = "ok" /\ before[i].rev = market.rev + 1 /\ by = "app"
  PROVE  /\ market' \in Markets
         /\ market'.rev = market.rev + 1 /\ market'.by = by
         /\ inbox' \in Seq(Replies) /\ HeardIsPast' /\ ~SiteHeard'
<1> DEFINE c == [kind |-> "changed", rev |-> market'.rev, own |-> before # <<>>]
           t == before \o <<c>>
<1>1. market.rev \in Nat /\ own \in Nat /\ own <= market.rev /\ inbox \in Seq(Replies)
  BY DEF LoopKept, Typed, Markets, HeardIsPast
<1>2. market' = [status |-> status, keep |-> keep, by |-> by, rev |-> market.rev + 1]
  BY DEF P!Announce
<1>3. c \in Replies /\ c.kind = "changed" /\ c.rev = market.rev + 1
  BY <1>1, <1>2 DEF Replies
<1>4. inbox' = inbox \/ inbox' = inbox \o t
  BY DEF P!Announce, P!Frames
<1> HIDE DEF c
<1>5. /\ <<c>> \in Seq(Replies) /\ Len(<<c>>) = 1 /\ <<c>>[1] = c
  BY <1>3
<1>6. /\ t \in Seq(Replies)
      /\ \A i \in 1 .. Len(t) : /\ t[i].kind # "no" /\ t[i].rev = market.rev + 1
                                /\ t[i].kind = "ok" => by = "app"
  <2> DEFINE u == <<c>>
  <2>1. u \in Seq(Replies) /\ Len(u) = 1 /\ u[1] = c /\ t = before \o u
    BY <1>5
  <2> HIDE DEF u, t
  <2>2. /\ before \o u \in Seq(Replies)
        /\ \A i \in 1 .. Len(before) : (before \o u)[i] = before[i]
        /\ \A i \in 1 .. Len(before \o u) :
             i > Len(before) => i - Len(before) \in 1 .. Len(u) /\ (before \o u)[i] = u[i - Len(before)]
    BY <2>1, Behind
  <2>3. Len(before) \in Nat /\ Len(before \o u) \in Nat
    BY <2>2
  <2>4. ASSUME NEW i \in 1 .. Len(before \o u)
        PROVE  i \in 1 .. Len(before) \/ (before \o u)[i] = c
    BY <2>1, <2>2, <2>3
  <2> QED
    BY <1>3, <2>1, <2>2, <2>4
<1> HIDE DEF t
<1>7. inbox' \in Seq(Replies) /\ HeardIsPast'
  <2>1. CASE inbox' = inbox
    BY <1>1, <1>2, <2>1 DEF LoopKept, HeardIsPast, Replies
  <2>2. CASE inbox' = inbox \o t
    <3>1. /\ inbox \o t \in Seq(Replies)
          /\ \A i \in 1 .. Len(inbox) : (inbox \o t)[i] = inbox[i]
          /\ \A i \in 1 .. Len(inbox \o t) :
               i > Len(inbox) => i - Len(inbox) \in 1 .. Len(t) /\ (inbox \o t)[i] = t[i - Len(inbox)]
      <4>1. inbox \in Seq(Replies) /\ t \in Seq(Replies)
        BY <1>1, <1>6
      <4> QED
        BY <4>1, Behind
    <3>2. Len(inbox) \in Nat /\ Len(inbox \o t) \in Nat
      BY <1>1, <3>1
    <3>3. ASSUME NEW i \in 1 .. Len(inbox')
          PROVE  /\ inbox'[i].kind # "no" => inbox'[i].rev <= market'.rev
                 /\ inbox'[i].kind = "ok" /\ inbox'[i].rev = market'.rev => market'.by = "app"
      <4>1. CASE i \in 1 .. Len(inbox)
        <5>1. inbox'[i] = inbox[i] /\ inbox[i] \in Replies
          BY <1>1, <2>2, <3>1, <4>1
        <5>2. inbox[i].kind # "no" => inbox[i].rev \in Nat /\ inbox[i].rev <= market.rev
          BY <4>1, <5>1 DEF LoopKept, HeardIsPast, Replies
        <5> QED
          BY <1>1, <1>2, <5>1, <5>2
      <4>2. CASE i \notin 1 .. Len(inbox)
        <5>1. i - Len(inbox) \in 1 .. Len(t) /\ inbox'[i] = t[i - Len(inbox)]
          BY <2>2, <3>1, <3>2, <4>2
        <5> QED
          BY <1>1, <1>2, <1>6, <5>1
      <4> QED
        BY <4>1, <4>2
    <3>4. own' <= market'.rev
      BY <1>1, <1>2
    <3> QED
      BY <2>2, <3>1, <3>3, <3>4 DEF HeardIsPast
  <2> QED
    BY <1>4, <2>1, <2>2
<1> QED
  BY <1>1, <1>2, <1>7 DEF SiteHeard, Markets

LEMMA CommitKeeps == ASSUME LoopKept, P!Commit PROVE LoopKept'
<1> DEFINE m == Head(wire)
           before == <<[kind |-> "ok", id |-> m.id, rev |-> market.rev + 1]>>
<1>1. /\ wire # <<>> /\ wire' = Tail(wire) /\ P!Announce(m.change.status, m.change.keep, "app", before)
      /\ UNCHANGED <<queue, brain, ended, phase, todo, socket, own, answers, gen, pid, events>>
  BY DEF P!Commit, P!loop, P!world
<1>2. wire \in Seq(Messages) /\ market.rev \in Nat
  BY DEF LoopKept, Typed, Markets
<1>3. /\ m = wire[1] /\ m \in Messages /\ Tail(wire) \in Seq(Messages) /\ Len(Tail(wire)) \in Nat
      /\ \A i \in 1 .. Len(Tail(wire)) : i + 1 \in 1 .. Len(wire) /\ Tail(wire)[i] = wire[i + 1]
  BY <1>1, <1>2, TailIs
<1>4. m.id \in Nat /\ m.change.status \in P!Statuses /\ m.change.keep \in Keeps
  BY <1>3 DEF Messages, Changes
<1>5. /\ before \in Seq(Replies)
      /\ \A i \in 1 .. Len(before) : before[i].kind = "ok" /\ before[i].rev = market.rev + 1
  BY <1>2, <1>4 DEF Replies
<1> HIDE DEF m, before
<1>6. /\ market' \in Markets
      /\ inbox' \in Seq(Replies) /\ HeardIsPast' /\ ~SiteHeard'
  BY <1>1, <1>4, <1>5, Announced
<1>7. Typed'
  BY <1>1, <1>3, <1>6 DEF LoopKept, Typed, Answered
<1>8. RenewalsLead'
  <2>1. ASSUME NEW i \in 1 .. Len(wire') PROVE wire'[i].change.why # "renew"
    <3>1. i + 1 \in 1 .. Len(wire) /\ wire'[i] = wire[i + 1] /\ i + 1 # 1
      BY <1>1, <1>3
    <3> QED
      BY <3>1 DEF LoopKept, RenewalsLead
  <2> QED
    BY <1>1, <2>1 DEF LoopKept, RenewalsLead
<1>9. DueAlone' /\ Yields' /\ Sane(brain)'
  BY <1>1, <1>6 DEF LoopKept, DueAlone, Yields, Sane, P!Connected
<1> QED
  BY <1>6, <1>7, <1>8, <1>9 DEF LoopKept

LEMMA RefuseKeeps == ASSUME LoopKept, P!Refuse PROVE LoopKept'
<1>1. PICK id \in {Head(wire).id, NoStatus} : P!Frames(<<[kind |-> "no", id |-> id]>>)
  BY DEF P!Refuse
<1>2. /\ wire # <<>> /\ wire' = Tail(wire) /\ events' \in 0 .. MaxEvents
      /\ UNCHANGED <<queue, brain, ended, phase, todo, socket, own, answers, market, gen, pid>>
  BY BoundsAreNumbers DEF P!Refuse, P!loop, P!world, P!Upset, P!Event, LoopKept, Typed
<1>3. wire \in Seq(Messages) /\ inbox \in Seq(Replies)
  BY DEF LoopKept, Typed
<1>4. /\ Head(wire) \in Messages /\ Tail(wire) \in Seq(Messages) /\ Len(Tail(wire)) \in Nat
      /\ \A i \in 1 .. Len(Tail(wire)) : i + 1 \in 1 .. Len(wire) /\ Tail(wire)[i] = wire[i + 1]
  BY <1>2, <1>3, TailIs
<1> DEFINE u == <<[kind |-> "no", id |-> id]>>
<1>5. u \in Seq(Replies) /\ Len(u) = 1 /\ u[1].kind = "no"
  BY <1>1, <1>4 DEF Replies, Messages
<1>6. inbox' = IF P!Connected THEN inbox \o u ELSE inbox
  BY <1>1 DEF P!Frames
<1> HIDE DEF u
<1>7. /\ inbox \o u \in Seq(Replies) /\ Len(inbox \o u) = Len(inbox) + Len(u)
      /\ \A i \in 1 .. Len(inbox) : (inbox \o u)[i] = inbox[i]
      /\ \A i \in 1 .. Len(inbox \o u) :
           i > Len(inbox) => i - Len(inbox) \in 1 .. Len(u) /\ (inbox \o u)[i] = u[i - Len(inbox)]
  BY <1>3, <1>5, Behind, Zenon
<1>8. /\ Len(inbox) \in Nat
      /\ \A i \in 1 .. Len(inbox \o u) : i \in 1 .. Len(inbox) \/ (inbox \o u)[i].kind = "no"
  BY <1>3, <1>5, <1>7
<1>9. Typed'
  BY <1>2, <1>3, <1>4, <1>6, <1>7 DEF LoopKept, Typed, Answered
<1>10. HeardIsPast'
  BY <1>2, <1>6, <1>7, <1>8 DEF LoopKept, HeardIsPast
<1>11. RenewalsLead'
  <2>1. ASSUME NEW i \in 1 .. Len(wire') PROVE wire'[i].change.why # "renew"
    <3>1. i + 1 \in 1 .. Len(wire) /\ wire'[i] = wire[i + 1] /\ i + 1 # 1
      BY <1>2, <1>4
    <3> QED
      BY <3>1 DEF LoopKept, RenewalsLead
  <2> QED
    BY <1>2, <2>1 DEF LoopKept, RenewalsLead
<1>12. Yields'
  <2>1. CASE P!Connected
    <3>1. Len(inbox) + 1 \in 1 .. Len(inbox \o u) /\ ~(Len(inbox) + 1 \in 1 .. Len(inbox))
      BY <1>5, <1>7, <1>8
    <3>2. (inbox \o u)[Len(inbox) + 1].kind = "no"
      BY <1>8, <3>1
    <3> QED
      BY <1>6, <2>1, <3>1, <3>2 DEF Yields
  <2>2. CASE ~P!Connected
    BY <1>2, <2>2 DEF Yields, P!Connected
  <2> QED
    BY <2>1, <2>2
<1>13. DueAlone' /\ Sane(brain)'
  BY <1>2 DEF LoopKept, DueAlone, SiteHeard, Sane, P!Connected
<1> QED
  BY <1>9, <1>10, <1>11, <1>12, <1>13 DEF LoopKept

\* Website and Expire.
LEMMA OthersKeep == ASSUME LoopKept, P!Website \/ P!Expire PROVE LoopKept'
<1>1. PICK s \in P!Statuses, by \in {"site", "expiry"} : P!Announce(s, "none", by, <<>>)
  BY DEF P!Website, P!Expire, P!Statuses
<1>2. /\ events' \in 0 .. MaxEvents
      /\ UNCHANGED <<queue, ended, phase, todo, socket, own, answers, wire, gen, pid>>
  BY BoundsAreNumbers DEF P!Website, P!Expire, P!loop, P!world, P!Upset, P!Event, LoopKept, Typed
<1>3. Sane(brain') /\ brain'.keeps = brain.keeps /\ brain'.due = brain.due
  <2>1. Sane(brain)
    BY DEF LoopKept
  <2>2. CASE brain' = brain
    BY <2>1, <2>2
  <2>3. CASE P!Website
    <3> DEFINE o == brain.over \/ (brain.keeps # NoStatus /\ market.by = "app")
    <3>1. brain \in P!Brains /\ brain' = [brain EXCEPT !.over = o] /\ o \in BOOLEAN
      BY <2>1, <2>3, BrainIs DEF P!Website, Sane
    <3> HIDE DEF o
    <3>2. /\ brain' \in P!Brains /\ brain'.set = brain.set /\ brain'.game = brain.game
          /\ brain'.paused = brain.paused /\ brain'.keeps = brain.keeps /\ brain'.due = brain.due
      BY <3>1 DEF P!Brains
    <3> QED
      BY <2>1, <3>2, SaneBut DEF P!Following
  <2> QED
    BY <2>2, <2>3 DEF P!Expire, P!loop
<1>4. /\ <<>> \in Seq(Replies) /\ "none" \in Keeps /\ by \in {"app", "site", "expiry"}
      /\ \A i \in 1 .. Len(<<>>) : <<>>[i].kind = "ok" /\ <<>>[i].rev = market.rev + 1 /\ by = "app"
  BY <1>1 DEF Keeps
<1>5. /\ market' \in Markets
      /\ inbox' \in Seq(Replies) /\ HeardIsPast' /\ ~SiteHeard' /\ market'.rev = market.rev + 1
  BY <1>1, <1>2, <1>4, Announced
<1>6. Typed'
  BY <1>2, <1>5 DEF LoopKept, Typed, Answered
<1>7. RenewalsLead'
  <2>1. wire \in Seq(Messages) /\ market.rev \in Nat
    BY DEF LoopKept, Typed, Markets
  <2>2. \A i \in 1 .. Len(wire) : wire[i].knew \in Nat
    <3> SUFFICES ASSUME NEW i \in 1 .. Len(wire) PROVE wire[i].knew \in Nat
      OBVIOUS
    <3>1. wire[i] \in Messages
      BY <2>1
    <3> QED
      BY <3>1 DEF Messages
  <2> QED
    BY <1>2, <1>5, <2>1, <2>2 DEF LoopKept, RenewalsLead
<1>8. DueAlone' /\ Yields'
  BY <1>2, <1>3, <1>5 DEF LoopKept, DueAlone, Yields, P!Connected
<1> QED
  BY <1>3, <1>5, <1>6, <1>7, <1>8 DEF LoopKept

\* Without a socket.
LEMMA OfflineKeeps == ASSUME LoopKept, P!Wait \/ P!Try PROVE LoopKept'
<1>1. PICK l \in P!Idle : P!Offline(l)
  BY DEF P!Wait, P!Try
<1>2. /\ phase' \in {"offline", "gone", "connecting"} /\ phase' \in P!Phases
      /\ socket' = socket \/ socket' = [gen |-> gen, id |-> 1]
      /\ wire' = wire \/ wire' = <<>>
  BY DEF P!Wait, P!Try, P!Phases
<1>3. /\ brain' = l.brain /\ ended' = l.ended /\ P!Tell(P!Calls(l.out), "failed")
      /\ queue' = IF queue = <<>> THEN queue ELSE Tail(queue)
      /\ UNCHANGED <<todo, own, inbox, market, gen, pid, events>>
  BY <1>1 DEF P!Offline, P!world
<1>4. Typed /\ Sane(brain) /\ DueAlone /\ RenewalsLead /\ pid \in Calls /\ queue \in Seq(Commands)
  BY DEF LoopKept, Typed
<1>5. InTurn(l)
  <2> DEFINE h == IF queue = <<>> THEN P!Begin ELSE P!Handle(P!Begin, Head(queue))
  <2>1. InTurn(h)
    <3>1. InTurn(P!Begin) /\ NoRenewal(P!Begin)
      BY <1>4, BeginInTurn
    <3>2. queue # <<>> => Head(queue) \in Commands
      BY <1>4, TailIs
    <3> QED
      BY <1>4, <3>1, <3>2, HandleInTurn
  <2> HIDE DEF h
  <2>2. InTurn(P!Look(h))
    BY <1>4, <2>1, LookInTurn
  <2>3. l \in P!MayLook(h)
    BY <1>1 DEF P!Idle, h
  <2> QED
    BY <2>1, <2>2, <2>3 DEF P!MayLook
<1>6. queue' \in Seq(Commands)
  BY <1>3, <1>4, TailIs
<1>7. Typed'
  <2>1. Answered'
    BY <1>3, <1>4, TellKeeps DEF Typed
  <2>2. ended' \in Calls
    BY <1>3, <1>5 DEF InTurn
  <2>3. socket' \in [gen : Nat, id : Nat]
    BY <1>2, <1>4 DEF Typed
  <2>4. wire' \in Seq(Messages)
    <3>1. wire \in Seq(Messages) /\ <<>> \in Seq(Messages)
      BY <1>4 DEF Typed
    <3> QED
      BY <1>2, <3>1, Zenon
  <2> QED
    BY <1>2, <1>3, <1>4, <1>6, <2>1, <2>2, <2>3, <2>4 DEF Typed
<1>8. Sane(brain') /\ (brain'.due => todo' = <<>>)
  BY <1>3, <1>5 DEF InTurn
<1>9. ~P!Connected'
  BY <1>2 DEF P!Connected
<1>10. HeardIsPast' /\ RenewalsLead'
  BY <1>2, <1>3 DEF LoopKept, HeardIsPast, RenewalsLead
<1> QED
  BY <1>7, <1>8, <1>9, <1>10 DEF LoopKept, Yields, DueAlone

\* The sign-in's answer: what is kept up is to be sent again.
LEMMA ConnectedKeeps == ASSUME LoopKept, P!Connect PROVE LoopKept'
<1> DEFINE l == P!After(P!Begin, P!Reconnected(brain), NoStatus)
<1>1. PICK m \in P!MayLook(l) : brain' = m.brain /\ ended' = m.ended /\ todo' = m.out
  BY DEF P!Connect
<1>2. /\ phase' = "turn" /\ P!Connected' /\ phase' \in P!Phases
      /\ UNCHANGED <<queue, socket, answers, wire, market, gen, pid>>
  BY DEF P!Connect, P!Connected, P!Phases, P!world
<1>3. Typed /\ Sane(brain) /\ DueAlone /\ RenewalsLead /\ pid \in Calls /\ NoStatus \in Calls
      /\ own \in Nat /\ market.rev \in Nat /\ own <= market.rev
  BY DEF LoopKept, Typed, Markets, Calls, HeardIsPast
<1>4. /\ own' \in Nat /\ own' <= market.rev /\ events' \in 0 .. MaxEvents
      /\ inbox' = <<>> \/ inbox' = <<[kind |-> "first", rev |-> market.rev, own |-> FALSE]>>
  BY <1>3, BoundsAreNumbers DEF P!Connect, P!OwnAfterSet, P!Upset, P!Event, Typed
<1>5. P!Begin.brain = brain /\ InTurn(P!Begin) /\ NoRenewal(P!Begin)
  BY <1>3, BeginInTurn DEF P!Begin
<1>6. /\ Decides(brain, P!Reconnected(brain), "reconnect")
      /\ P!Reconnected(brain).send = <<>> => brain.keeps = NoStatus
  BY <1>3, ReconnectedDecides
<1>7. Joins(P!Begin, P!Reconnected(brain), "reconnect", l)
  BY <1>3, <1>5, <1>6, AfterJoins
<1>8. InTurn(l) /\ NoRenewal(l) /\ (l.out = <<>> => brain.keeps = NoStatus)
  BY <1>5, <1>6, <1>7 DEF Joins
<1> HIDE DEF l
<1>9. InTurn(m) /\ NoRenewal(m) /\ (m.out = <<>> => brain.keeps = NoStatus)
  BY <1>1, <1>3, <1>8, LookInTurn DEF P!MayLook
<1>10. Sane(brain') /\ ~brain'.due /\ (todo' = <<>> => brain'.keeps = NoStatus)
  <2>1. m.out = <<>> => m.brain.keeps = brain.keeps /\ m.brain.due = brain.due
    BY <1>9 DEF InTurn
  <2>2. brain.due => brain.keeps # NoStatus
    BY <1>3 DEF Sane
  <2>3. brain' = m.brain /\ todo' = m.out /\ Sane(m.brain) /\ m.brain.due \in BOOLEAN
        /\ (m.out # <<>> => ~m.brain.due)
    BY <1>1, <1>9, BrainIs DEF InTurn, Sane
  <2> QED
    BY <1>9, <2>1, <2>2, <2>3
<1>11. Typed'
  <2>1. ended' \in Calls /\ todo' \in Seq(Sends)
    BY <1>1, <1>9 DEF InTurn
  <2>2. inbox' \in Seq(Replies)
    <3> DEFINE f == [kind |-> "first", rev |-> market.rev, own |-> FALSE]
    <3>2. f \in Replies
      BY <1>3 DEF Replies
    <3>3. inbox' = <<>> \/ inbox' = <<f>>
      BY <1>4
    <3> HIDE DEF f
    <3>4. <<f>> \in Seq(Replies)
      BY <3>2
    <3>5. CASE inbox' = <<f>>
      BY <3>4, <3>5, Zenon
    <3>6. CASE inbox' = <<>>
      BY <3>6
    <3> QED
      BY <3>3, <3>5, <3>6
  <2> QED
    BY <1>2, <1>3, <1>4, <2>1, <2>2 DEF Typed, Answered
<1>12. HeardIsPast'
  <2>1. \A i \in 1 .. Len(inbox') : inbox'[i].kind = "first" /\ inbox'[i].rev = market.rev
    BY <1>4
  <2> QED
    BY <1>2, <1>3, <1>4, <2>1 DEF HeardIsPast
<1>13. RenewalsLead'
  BY <1>1, <1>2, <1>3, <1>9 DEF RenewalsLead, NoRenewal
<1> QED
  BY <1>10, <1>11, <1>12, <1>13 DEF LoopKept, Yields, DueAlone

\* A turn with a socket.
LEMMA TurnKeeps == ASSUME LoopKept, P!Turn PROVE LoopKept'
<1>1. PICK look, k :
        /\ look \in {FALSE, ~P!Lines} /\ k \in 0 .. Len(P!Decided(look).out)
        /\ ended' = P!Decided(look).ended /\ P!Sent(P!Decided(look), k)
        /\ events' = events \/ P!Upset
        /\ inbox' = IF phase' = "offline" THEN <<>> ELSE inbox
        /\ phase' \in {"quitting", "leaving", "offline", "poll"}
  BY DEF P!Turn
<1> DEFINE l == P!Decided(look)
           s == [i \in 1 .. k |-> P!Message(l.out[i], i)]
<1>2. /\ phase = "turn" /\ P!Connected /\ queue' = <<>> /\ todo' = <<>> /\ phase' \in P!Phases
      /\ UNCHANGED <<own, market, gen, pid>>
  BY <1>1 DEF P!Turn, P!Connected, P!Phases, P!world
<1>3. Typed /\ Sane(brain) /\ DueAlone /\ RenewalsLead /\ own \in Nat /\ own <= market.rev
      /\ wire \in Seq(Messages) /\ inbox \in Seq(Replies) /\ Answered /\ market.rev \in Nat
  BY DEF LoopKept, Typed, Markets, HeardIsPast
<1>4. Settled(l)
  <2>1. look \in BOOLEAN
    BY <1>1 DEF P!Lines
  <2> QED
    BY <1>3, <2>1, DecidedSettled
<1>5. /\ wire' = wire \o s /\ socket' = [socket EXCEPT !.id = @ + k]
      /\ brain' = (IF k < Len(l.out) THEN P!Refused(l.brain) ELSE l.brain)
      /\ P!Tell(P!Calls(SubSeq(l.out, k + 1, Len(l.out))), "failed")
      /\ k \in 0 .. Len(l.out) /\ ended' = l.ended
  BY <1>1 DEF P!Sent
<1> HIDE DEF l
<1>6. l.out \in Seq(Sends) /\ Len(l.out) \in Nat /\ Sane(l.brain) /\ ~l.brain.due /\ l.ended \in Calls
  BY <1>4 DEF Settled, InTurn
<1>7. /\ s \in Seq(Messages) /\ Len(s) = k /\ k \in Nat
      /\ \A i \in 1 .. Len(s) : s[i].change = l.out[i].change /\ s[i].knew = own /\ i \in 1 .. Len(l.out)
  <2>1. ASSUME NEW i \in 1 .. k
        PROVE  /\ P!Message(l.out[i], i) \in Messages /\ i \in 1 .. Len(l.out)
               /\ P!Message(l.out[i], i).change = l.out[i].change /\ P!Message(l.out[i], i).knew = own
    <3>1. i \in 1 .. Len(l.out) /\ i \in Nat
      BY <1>5, <1>6
    <3>2. l.out[i] \in Sends
      BY <1>6, <3>1
    <3>3. l.out[i].change \in Changes /\ l.out[i].call \in Calls
      BY <3>2 DEF Sends
    <3>4. socket.id + i \in Nat
      BY <1>3, <3>1 DEF Typed
    <3> QED
      BY <1>3, <3>1, <3>3, <3>4 DEF P!Message, Messages
  <2>2. k \in Nat
    BY <1>5, <1>6
  <2>3. s \in Seq(Messages) /\ Len(s) = k
    BY <2>1, <2>2
  <2> QED
    BY <2>1, <2>2, <2>3
<1> HIDE DEF s
<1>8. /\ wire \o s \in Seq(Messages) /\ Len(wire \o s) = Len(wire) + Len(s)
      /\ \A i \in 1 .. Len(wire) : (wire \o s)[i] = wire[i]
      /\ \A i \in 1 .. Len(wire \o s) :
           i > Len(wire) => i - Len(wire) \in 1 .. Len(s) /\ (wire \o s)[i] = s[i - Len(wire)]
  <2>1. wire \in Seq(Messages) /\ s \in Seq(Messages)
    BY <1>3, <1>7
  <2> QED
    BY <2>1, Behind
<1>9. Sane(brain') /\ ~brain'.due
  BY <1>5, <1>6, RefusedIsSane
<1>10. Typed'
  <2>1. Answered'
    BY <1>3, <1>5, TellKeeps
  <2>2. socket' \in [gen : Nat, id : Nat]
    <3>1. socket \in [gen : Nat, id : Nat] /\ socket.id + k \in Nat
      BY <1>3, <1>7 DEF Typed
    <3> QED
      BY <1>5, <3>1
  <2>3. events' \in 0 .. MaxEvents
    BY <1>1, <1>3, BoundsAreNumbers DEF P!Upset, P!Event, Typed
  <2>4. inbox' \in Seq(Replies) /\ queue' \in Seq(Commands) /\ todo' \in Seq(Sends)
    BY <1>1, <1>2, <1>3
  <2> QED
    BY <1>2, <1>3, <1>5, <1>6, <1>8, <2>1, <2>2, <2>3, <2>4 DEF Typed
<1>11. HeardIsPast'
  BY <1>1, <1>2 DEF LoopKept, HeardIsPast
<1>12. RenewalsLead'
  <2>1. ASSUME NEW i \in 1 .. Len(wire'), wire'[i].change.why = "renew"
        PROVE  /\ i = 1 /\ wire'[i].knew <= market.rev
               /\ market.by = "site" => wire'[i].knew < market.rev
    <3>1. Len(wire) \in Nat /\ Len(s) \in Nat
      BY <1>3, <1>7
    <3>2. CASE i \in 1 .. Len(wire)
      BY <1>3, <1>5, <1>8, <2>1, <3>2 DEF RenewalsLead
    <3>3. CASE i \notin 1 .. Len(wire)
      <4>1. i - Len(wire) \in 1 .. Len(s) /\ wire'[i] = s[i - Len(wire)]
        BY <1>5, <1>8, <3>1, <3>3
      <4>2. /\ i - Len(wire) \in 1 .. Len(l.out) /\ l.out[i - Len(wire)].change.why = "renew"
            /\ wire'[i].knew = own
        BY <1>7, <2>1, <4>1
      <4>3. i - Len(wire) = 1 /\ brain.due
        BY <1>4, <4>2 DEF Settled
      <4>4. wire = <<>> /\ ~SiteHeard
        BY <1>2, <1>3, <4>3 DEF DueAlone
      <4>5. i = 1
        BY <3>1, <4>3, <4>4
      <4> QED
        BY <1>3, <4>2, <4>4, <4>5 DEF SiteHeard
    <3> QED
      BY <3>2, <3>3
  <2> QED
    BY <1>2, <2>1 DEF RenewalsLead
<1>13. Yields'
  <2> SUFFICES ASSUME P!Connected', SiteHeard', brain'.keeps # NoStatus, wire' = <<>>
               PROVE  \E i \in 1 .. Len(inbox') : inbox'[i].kind = "no"
    BY DEF Yields
  <2>1. inbox' = inbox /\ SiteHeard
    BY <1>1, <1>2 DEF P!Connected, SiteHeard
  <2>2. ~(k < Len(l.out))
    BY <1>5, <1>6, RefusedIsSane
  <2>3. wire = <<>> /\ Len(s) = 0
    <3>1. Len(wire) \in Nat /\ Len(s) \in Nat /\ Len(wire) + Len(s) = 0
      BY <1>3, <1>5, <1>7, <1>8
    <3>2. Len(wire) = 0 /\ Len(s) = 0
      BY <3>1, NoneOfNeither, Zenon
    <3> QED
      BY <1>3, <3>2, EmptyIsZero
  <2>4. Len(l.out) = 0
    BY <1>5, <1>6, <1>7, <2>2, <2>3
  <2>5. l.out = <<>>
    BY <1>6, <2>4, EmptyIsZero
  <2>6. todo = <<>> /\ brain'.keeps = brain.keeps
    BY <1>4, <1>5, <2>2, <2>5 DEF Settled, InTurn
  <2> QED
    BY <1>2, <2>1, <2>3, <2>6 DEF LoopKept, Yields
<1> QED
  BY <1>9, <1>10, <1>11, <1>12, <1>13 DEF LoopKept, DueAlone

\* The rest of what the thread does.
LEMMA PhasesKeep == ASSUME LoopKept, P!Unavailable \/ P!Silence \/ P!Dropped \/ P!Closed PROVE LoopKept'
<1>1. /\ phase' \in P!Phases /\ (P!Connected' => P!Connected /\ UNCHANGED inbox)
      /\ inbox' \in {inbox, <<>>} /\ wire' \in {wire, <<>>} /\ events' \in 0 .. MaxEvents /\ Answered'
      /\ UNCHANGED <<queue, brain, ended, todo, socket, own, market, gen, pid>>
  <2>1. Answered /\ events \in 0 .. MaxEvents
    BY DEF LoopKept, Typed
  <2>2. CASE P!Unavailable
    BY <2>1, <2>2, BoundsAreNumbers
       DEF P!Unavailable, P!Upset, P!Event, P!net, P!world, P!Phases, P!Connected, Answered
  <2>3. CASE P!Silence
    <3>1. Answered'
      BY <2>1, <2>3, TellKeeps DEF P!Silence, Answered
    <3> QED
      BY <2>1, <2>3, <3>1, BoundsAreNumbers
         DEF P!Silence, P!Upset, P!Event, P!net, P!world, P!Phases, P!Connected
  <2>4. CASE P!Dropped
    <3>1. Answered'
      BY <2>1, <2>4, TellKeeps DEF P!Dropped
    <3> QED
      BY <2>1, <2>4, <3>1, BoundsAreNumbers DEF P!Dropped, P!Upset, P!Event, P!world, P!Phases, P!Connected
  <2>5. CASE P!Closed
    BY <2>1, <2>5 DEF P!Closed, P!world, P!Phases, P!Connected, Answered
  <2> QED
    BY <2>2, <2>3, <2>4, <2>5
<1>2. Typed'
  <2>1. wire' \in Seq(Messages) /\ inbox' \in Seq(Replies)
    <3>1. wire \in Seq(Messages) /\ inbox \in Seq(Replies)
      BY DEF LoopKept, Typed
    <3>2. <<>> \in Seq(Messages) /\ <<>> \in Seq(Replies)
      OBVIOUS
    <3>3. (wire' = wire \/ wire' = <<>>) /\ (inbox' = inbox \/ inbox' = <<>>)
      BY <1>1
    <3> QED
      BY <3>1, <3>2, <3>3, Zenon
  <2> QED
    BY <1>1, <2>1 DEF LoopKept, Typed
<1>3. HeardIsPast' /\ RenewalsLead' /\ Sane(brain)'
  BY <1>1 DEF LoopKept, HeardIsPast, RenewalsLead, Sane
<1>5. DueAlone'
  BY <1>1 DEF LoopKept, DueAlone, SiteHeard
<1>6. Yields'
  <2>1. P!Connected' => wire' = wire
    BY DEF P!Unavailable, P!Silence, P!Dropped, P!Closed, P!Connected, P!net
  <2> QED
    BY <1>1, <2>1 DEF LoopKept, Yields, SiteHeard
<1> QED
  BY <1>2, <1>3, <1>5, <1>6 DEF LoopKept

\* A renewal falls due: nothing else is under way.
LEMMA DueKeeps == ASSUME LoopKept, P!RenewalDue PROVE LoopKept'
<1>1. /\ brain.keeps # NoStatus /\ todo = <<>> /\ wire = <<>> /\ inbox = <<>>
      /\ brain' = [brain EXCEPT !.due = TRUE] /\ events' \in 0 .. MaxEvents
      /\ UNCHANGED <<queue, ended, phase, todo, socket, own, answers, wire, inbox, market, gen, pid>>
  BY BoundsAreNumbers DEF P!RenewalDue, P!Event, P!net, P!world, LoopKept, Typed
<1>2. /\ brain' \in P!Brains /\ brain'.set = brain.set /\ brain'.game = brain.game
      /\ brain'.paused = brain.paused /\ brain'.keeps = brain.keeps
  BY <1>1 DEF LoopKept, Sane, P!Brains
<1>3. Sane(brain')
  BY <1>1, <1>2 DEF LoopKept, Sane, P!Following
<1>4. Typed' /\ HeardIsPast' /\ RenewalsLead'
  BY <1>1 DEF LoopKept, Typed, Answered, HeardIsPast, RenewalsLead
<1>5. P!Connected => ~SiteHeard
  BY <1>1 DEF LoopKept, Yields
<1>6. DueAlone' /\ Yields'
  BY <1>1, <1>2, <1>5 DEF LoopKept, DueAlone, Yields, SiteHeard, P!Connected
<1> QED
  BY <1>3, <1>4, <1>6 DEF LoopKept

\* The user asks; the session, the policy and the game move on.
LEMMA AskTypes ==
  ASSUME Typed, NEW c \in Commands, P!Ask(c)
  PROVE  /\ queue' \in Seq(Commands) /\ events' \in 1 .. MaxEvents
         /\ UNCHANGED <<brain, ended, phase, todo, socket, own, wire, inbox, market, gen, pid>>
<1>1. queue \in Seq(Commands) /\ queue' = Append(queue, c)
  BY DEF P!Ask, Typed
<1>2. queue' \in Seq(Commands)
  BY <1>1
<1>3. events' \in 1 .. MaxEvents
  BY BoundsAreNumbers DEF P!Ask, P!Event, Typed
<1> QED
  BY <1>2, <1>3 DEF P!Ask, P!loop, P!net, P!world

LEMMA UserKeeps == ASSUME LoopKept, P!User PROVE LoopKept'
<1>1. Typed /\ Answered /\ gen \in Nat /\ events \in 0 .. MaxEvents
  BY DEF LoopKept, Typed
<1>2. /\ Typed' /\ UNCHANGED <<brain, todo, wire, inbox, own, market, phase>>
  <2>1. CASE P!Pick
    <3>1. PICK s \in P!Statuses : P!Ask([kind |-> "set", status |-> s, call |-> events'])
      BY <2>1 DEF P!Pick
    <3>2. events' \in 1 .. MaxEvents
      BY <1>1, <3>1, BoundsAreNumbers DEF P!Ask, P!Event
    <3>3. [kind |-> "set", status |-> s, call |-> events'] \in Commands
      BY <3>2 DEF Commands
    <3>4. /\ queue' \in Seq(Commands) /\ events' \in 1 .. MaxEvents
          /\ UNCHANGED <<brain, ended, phase, todo, socket, own, wire, inbox, market, gen, pid>>
      BY <1>1, <3>1, <3>3, AskTypes
    <3>5. Answered'
      BY <1>1, <2>1 DEF P!Pick, Answered
    <3> QED
      BY <1>1, <3>4, <3>5, BoundsAreNumbers DEF Typed
  <2>2. CASE P!FollowGameNow \/ P!Set \/ P!Quit
    <3>1. PICK c \in Commands : P!Ask(c)
      <4>1. [kind |-> "follow"] \in Commands /\ [kind |-> "quit"] \in Commands
        BY DEF Commands
      <4>2. \A s \in UserSettings : [kind |-> "settings", set |-> s] \in Commands
        BY DEF Commands
      <4> QED
        BY <2>2, <4>1, <4>2 DEF P!FollowGameNow, P!Set, P!Quit
    <3>2. /\ queue' \in Seq(Commands) /\ events' \in 1 .. MaxEvents
          /\ UNCHANGED <<brain, ended, phase, todo, socket, own, wire, inbox, market, gen, pid>>
      BY <1>1, <3>1, AskTypes
    <3>3. UNCHANGED answers
      BY <2>2 DEF P!FollowGameNow, P!Set, P!Quit
    <3> QED
      BY <1>1, <3>2, <3>3, BoundsAreNumbers DEF Typed, Answered
  <2>3. CASE P!SignOut \/ P!SignIn \/ P!Pause \/ P!Resume
    <3>1. /\ gen' \in Nat /\ events' \in 0 .. MaxEvents
          /\ UNCHANGED <<queue, brain, ended, phase, todo, socket, own, answers, wire, inbox, market, pid>>
      BY <1>1, <2>3, BoundsAreNumbers
         DEF P!SignOut, P!SignIn, P!Pause, P!Resume, P!Upset, P!Event, P!loop, P!net
    <3> QED
      BY <1>1, <3>1 DEF Typed, Answered
  <2> QED
    BY <2>1, <2>2, <2>3 DEF P!User
<1>3. P!Connected' => P!Connected
  BY <1>2 DEF P!Connected
<1> QED
  BY <1>2, <1>3, AsideKeeps

LEMMA OutsideKeeps ==
  ASSUME LoopKept, P!GameStarts \/ P!GameSays \/ P!GameEnds \/ P!Crash PROVE LoopKept'
<1>1. /\ Typed /\ Answered /\ gen \in Nat /\ events \in 0 .. MaxEvents /\ pid \in Calls
      /\ queue \in Seq(Commands)
  BY DEF LoopKept, Typed
<1>2. /\ phase' \in {phase, "gone"} /\ pid' \in Calls /\ events' \in 0 .. MaxEvents
      /\ queue' \in Seq(Commands)
      /\ UNCHANGED <<brain, ended, todo, socket, own, answers, wire, inbox, market, gen>>
  <2>1. CASE P!GameStarts
    BY <1>1, <2>1, BoundsAreNumbers DEF P!GameStarts, P!Elsewhere, P!loop, P!net, P!Event, Calls
  <2>2. CASE P!GameSays
    <3>1. [kind |-> "line", started |-> said = "none"] \in Commands
      BY DEF Commands
    <3>2. queue' \in Seq(Commands)
      BY <1>1, <2>2, <3>1 DEF P!GameSays
    <3> QED
      BY <1>1, <2>2, <3>2, BoundsAreNumbers DEF P!GameSays, P!Elsewhere, P!loop, P!net, P!Event
  <2>3. CASE P!GameEnds
    BY <1>1, <2>3 DEF P!GameEnds, P!Elsewhere, P!loop, P!net, Calls
  <2>4. CASE P!Crash
    BY <1>1, <2>4, BoundsAreNumbers DEF P!Crash, P!Upset, P!Event, P!net, P!world
  <2> QED
    BY <2>1, <2>2, <2>3, <2>4
<1>3. phase' \in P!Phases
  BY <1>1, <1>2 DEF Typed, P!Phases
<1>4. Typed'
  BY <1>1, <1>2, <1>3 DEF Typed, Answered
<1>5. P!Connected' => P!Connected
  BY <1>2 DEF P!Connected
<1> QED
  BY <1>2, <1>4, <1>5, AsideKeeps

\* What a socket that is gone left under way is taken after all, or never.
LEMMA StrayKeeps == ASSUME LoopKept, StrayYields, P!CommitStray \/ P!RefuseStray PROVE LoopKept'
<1>1. /\ stray # <<>> /\ events' \in 0 .. MaxEvents
      /\ UNCHANGED <<queue, brain, ended, phase, todo, socket, own, answers, wire, gen, pid>>
  BY BoundsAreNumbers DEF P!CommitStray, P!RefuseStray, P!loop, P!world, P!Upset, P!Event, LoopKept, Typed
<1>2. CASE P!RefuseStray
  <2>1. UNCHANGED <<market, inbox>>
    BY <1>2 DEF P!RefuseStray
  <2>2. Typed'
    BY <1>1, <2>1 DEF LoopKept, Typed, Answered
  <2> QED
    BY <1>1, <2>1, <2>2, AsideKeeps DEF P!Connected
<1>3. CASE P!CommitStray
  <2> DEFINE m == Head(stray)
  <2>1. m \in Messages
    BY <1>1, TailIs DEF StrayYields
  <2>2. m.change.status \in P!Statuses /\ m.change.keep \in Keeps
    BY <2>1 DEF Messages, Changes
  <2>3. P!Announce(m.change.status, m.change.keep, "app", <<>>)
    BY <1>3 DEF P!CommitStray
  <2> HIDE DEF m
  <2>4. /\ <<>> \in Seq(Replies)
        /\ \A i \in 1 .. Len(<<>>) : <<>>[i].kind = "ok" /\ <<>>[i].rev = market.rev + 1 /\ "app" = "app"
    OBVIOUS
  <2>5. /\ market' \in Markets /\ market'.rev = market.rev + 1 /\ market'.by = "app"
        /\ inbox' \in Seq(Replies) /\ HeardIsPast' /\ ~SiteHeard'
    BY <1>1, <2>2, <2>3, <2>4, Announced
  <2>6. Typed'
    BY <1>1, <2>5 DEF LoopKept, Typed, Answered
  <2>7. RenewalsLead'
    <3>1. wire \in Seq(Messages) /\ market.rev \in Nat
      BY DEF LoopKept, Typed, Markets
    <3>2. \A i \in 1 .. Len(wire) : wire[i].knew \in Nat
      <4> SUFFICES ASSUME NEW i \in 1 .. Len(wire) PROVE wire[i].knew \in Nat
        OBVIOUS
      <4>1. wire[i] \in Messages
        BY <3>1
      <4> QED
        BY <4>1 DEF Messages
    <3> QED
      BY <1>1, <2>5, <3>1, <3>2 DEF LoopKept, RenewalsLead
  <2>8. DueAlone' /\ Yields' /\ Sane(brain)'
    BY <1>1, <2>5 DEF LoopKept, DueAlone, Yields, Sane, P!Connected
  <2> QED
    BY <2>5, <2>6, <2>7, <2>8 DEF LoopKept
<1> QED
  BY <1>2, <1>3

\* A message that a change has outrun stays so: revisions only grow.
LEMMA OutrunStays ==
  ASSUME NEW m \in Messages, Outrun(m), market.rev \in Nat,
         market' = market \/ market'.rev = market.rev + 1
  PROVE  Outrun(m)'
<1>1. m.knew \in Nat
  BY DEF Messages
<1> QED
  BY <1>1 DEF Outrun

LEMMA StrayStep == LoopKept /\ StrayYields /\ [P!Next]_P!vars => StrayYields'
<1> SUFFICES ASSUME LoopKept, StrayYields, [P!Next]_P!vars PROVE StrayYields'
  OBVIOUS
<1>1. \/ UNCHANGED <<market, stray>>
      \/ stray # <<>> /\ stray' = Tail(stray) /\ (market' = market \/ market'.rev = market.rev + 1)
      \/ stray' = stray \o wire /\ market' = market
      \/ stray' = stray /\ market'.rev = market.rev + 1
  <2>1. CASE P!Try
    BY <2>1 DEF P!Try, P!Offline
  <2>2. CASE P!CommitStray \/ P!RefuseStray
    BY <2>2 DEF P!CommitStray, P!RefuseStray, P!Announce
  <2>3. CASE P!Commit \/ P!Website \/ P!Expire
    BY <2>3 DEF P!Commit, P!Website, P!Expire, P!Announce
  <2>4. CASE P!StatusSet \/ P!StatusRefused \/ P!StatusChanged
    BY <2>4 DEF P!StatusSet, P!StatusRefused, P!StatusChanged, P!Hears
  <2>5. CASE P!Wait \/ P!Connect \/ P!Unavailable \/ P!Turn \/ P!Silence \/ P!Dropped \/ P!Closed
    BY <2>5 DEF P!Wait, P!Offline, P!Connect, P!Unavailable, P!Turn, P!Silence, P!Dropped, P!Closed, P!net
  <2>6. CASE P!Refuse
    BY <2>6 DEF P!Refuse
  <2>7. CASE P!User
    BY <2>7 DEF P!User, P!Pick, P!FollowGameNow, P!Set, P!Quit, P!Ask, P!SignOut, P!SignIn, P!Pause,
                P!Resume, P!net
  <2>8. CASE P!Outside
    BY <2>8 DEF P!Outside, P!GameStarts, P!GameSays, P!GameEnds, P!Elsewhere, P!RenewalDue, P!Crash, P!net
  <2>9. CASE UNCHANGED P!vars
    BY <2>9 DEF P!vars, P!net
  <2> QED
    BY <2>1, <2>2, <2>3, <2>4, <2>5, <2>6, <2>7, <2>8, <2>9 DEF P!Next, P!Thread, P!Server
<1>2. /\ market' = market \/ market'.rev = market.rev + 1
      /\ stray' = stray \/ (stray # <<>> /\ stray' = Tail(stray)) \/ stray' = stray \o wire
  BY <1>1
<1>3. /\ market.rev \in Nat /\ stray \in Seq(Messages) /\ wire \in Seq(Messages)
      /\ \A i \in 1 .. Len(stray) : Outrun(stray[i])
      /\ \A i \in 1 .. Len(wire) : Outrun(wire[i])
  BY DEF LoopKept, Typed, Markets, RenewalsLead, StrayYields, Outrun
<1>4. /\ stray' \in Seq(Messages)
      /\ \A i \in 1 .. Len(stray') : Outrun(stray'[i])
  <2>1. CASE stray' = stray
    BY <1>3, <2>1
  <2>2. CASE stray # <<>> /\ stray' = Tail(stray)
    <3>1. /\ Tail(stray) \in Seq(Messages)
          /\ \A i \in 1 .. Len(Tail(stray)) : i + 1 \in 1 .. Len(stray) /\ Tail(stray)[i] = stray[i + 1]
      BY <1>3, <2>2, TailIs
    <3> QED
      BY <1>3, <2>2, <3>1
  <2>3. CASE stray' = stray \o wire
    <3>1. /\ stray \o wire \in Seq(Messages)
          /\ \A i \in 1 .. Len(stray) : (stray \o wire)[i] = stray[i]
          /\ \A i \in 1 .. Len(stray \o wire) :
               i > Len(stray) => i - Len(stray) \in 1 .. Len(wire) /\ (stray \o wire)[i] = wire[i - Len(stray)]
      BY <1>3, Behind
    <3>2. Len(stray) \in Nat /\ Len(stray \o wire) \in Nat
      BY <1>3, <3>1
    <3>3. ASSUME NEW i \in 1 .. Len(stray \o wire) PROVE Outrun((stray \o wire)[i])
      <4>1. CASE i \in 1 .. Len(stray)
        BY <1>3, <3>1, <4>1
      <4>2. CASE i > Len(stray)
        BY <1>3, <3>1, <4>2
      <4> QED
        BY <3>2, <4>1, <4>2
    <3> QED
      BY <2>3, <3>1, <3>3
  <2> QED
    BY <1>2, <2>1, <2>2, <2>3
<1>5. ASSUME NEW i \in 1 .. Len(stray') PROVE Outrun(stray[i])'
  <2>1. stray'[i] \in Messages /\ Outrun(stray'[i])
    BY <1>4
  <2> QED
    BY <1>2, <1>3, <2>1, OutrunStays DEF Outrun
<1> QED
  BY <1>4, <1>5 DEF StrayYields

LEMMA LoopStep == LoopKept /\ StrayYields /\ [P!Next]_P!vars => LoopKept' /\ StrayYields'
<1> SUFFICES ASSUME LoopKept, StrayYields, [P!Next]_P!vars PROVE LoopKept'
  BY StrayStep
<1>1. ASSUME P!Thread PROVE LoopKept'
  BY <1>1, OfflineKeeps, ConnectedKeeps, TurnKeeps, SetKeeps, HeardKeeps, PhasesKeep DEF P!Thread
<1>2. ASSUME P!Server PROVE LoopKept'
  BY <1>2, CommitKeeps, RefuseKeeps, StrayKeeps, OthersKeep DEF P!Server
<1>3. ASSUME P!User PROVE LoopKept'
  BY <1>3, UserKeeps
<1>4. ASSUME P!Outside PROVE LoopKept'
  BY <1>4, DueKeeps, OutsideKeeps DEF P!Outside
<1>5. ASSUME UNCHANGED P!vars PROVE LoopKept'
  <2>1. UNCHANGED <<queue, brain, ended, phase, todo, socket, own, answers, wire, inbox, market, gen,
                    pid, events>>
    BY <1>5 DEF P!vars, P!loop, P!net, P!world
  <2>2. Typed' /\ (P!Connected' => P!Connected)
    BY <2>1 DEF LoopKept, Typed, Answered, P!Connected
  <2> QED
    BY <2>1, <2>2, AsideKeeps
<1> QED
  BY <1>1, <1>2, <1>3, <1>4, <1>5 DEF P!Next

LEMMA StrayStarts == P!Init => StrayYields
<1>1. <<>> \in Seq(Messages) /\ Len(<<>>) = 0
  OBVIOUS
<1> QED
  BY <1>1 DEF P!Init, StrayYields

(* TypeOK of the status: among others, no revision is known that the server  *)
(* has not given out. (Loop::own_revision)                                   *)
THEOREM StatusTyped == P!Spec => []P!TypeOK
<1>1. LoopKept => P!TypeOK
  BY DEF LoopKept, Typed, Answered, Calls, Sane, HeardIsPast, P!TypeOK
<1> QED
  BY LoopStarts, StrayStarts, LoopStep, <1>1, PTL DEF P!Spec

(* FollowsInGame: while the game runs and is followed, the program keeps up   *)
(* no other status, whatever commands, log lines, refusals, changes elsewhere *)
(* and reconnections come in one turn or over many. (Brain)                   *)
THEOREM GameIsFollowed == P!Spec => []P!FollowsInGame
<1>1. LoopKept => P!FollowsInGame
  BY DEF LoopKept, Sane, P!FollowsInGame
<1> QED
  BY LoopStarts, StrayStarts, LoopStep, <1>1, PTL DEF P!Spec

(* RenewalYields: no renewal overrules a change made on the website that the *)
(* program had heard of when it sent it. (Brain::due, external_change)       *)
THEOREM RenewalsYield == P!Spec => P!RenewalYields
<1>1. ASSUME LoopKept, StrayYields
      PROVE  /\ wire # <<>> => ~P!Overrules(Head(wire))
             /\ stray # <<>> => ~P!Overrules(Head(stray))
  <2>1. wire \in Seq(Messages) /\ stray \in Seq(Messages) /\ market.rev \in Nat
    BY <1>1 DEF LoopKept, Typed, Markets, StrayYields
  <2>2. ASSUME NEW m \in Messages, Outrun(m) PROVE ~P!Overrules(m)
    <3>1. m.knew \in Nat
      BY DEF Messages
    <3> QED
      BY <2>1, <2>2, <3>1 DEF Outrun, P!Overrules
  <2>3. ASSUME wire # <<>> PROVE Head(wire) \in Messages /\ Outrun(Head(wire))
    <3>1. Head(wire) = wire[1] /\ 1 \in 1 .. Len(wire) /\ Head(wire) \in Messages
      BY <2>1, <2>3, TailIs
    <3> QED
      BY <1>1, <3>1 DEF LoopKept, RenewalsLead, Outrun
  <2>4. ASSUME stray # <<>> PROVE Head(stray) \in Messages /\ Outrun(Head(stray))
    <3>1. Head(stray) = stray[1] /\ 1 \in 1 .. Len(stray) /\ Head(stray) \in Messages
      BY <2>1, <2>4, TailIs
    <3> QED
      BY <1>1, <3>1 DEF StrayYields
  <2> QED
    BY <2>2, <2>3, <2>4
<1>2. LoopKept /\ StrayYields =>
        [/\ wire # <<>> /\ wire' = Tail(wire) => ~P!Overrules(Head(wire))
         /\ stray # <<>> /\ stray' = Tail(stray) => ~P!Overrules(Head(stray))]_P!vars
  BY <1>1
<1> QED
  BY LoopStarts, StrayStarts, LoopStep, <1>2, PTL DEF P!Spec, P!RenewalYields
=============================================================================
