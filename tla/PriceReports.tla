---------------------------- MODULE PriceReports ----------------------------
(***************************************************************************)
(* Price reports: a task reads the trades after a mark in the ledger and    *)
(* posts them, batch by batch, to the collector.  The user gives and        *)
(* withdraws consent and asks for what was sent to be erased.  A pass and   *)
(* an erasure exclude each other (delivery); consent is given under another *)
(* lock (mutation) and moves the same mark.  A request given up by the      *)
(* client may still arrive later.                                           *)
(*                                                                          *)
(* The ledger only grows, ids are 1, 2, ...; a week is open all the time,   *)
(* so no sale is too old and one erasure covers them all.                   *)
(***************************************************************************)
EXTENDS Naturals, Sequences, FiniteSets, FiniteSetsExt

CONSTANTS
  MaxTrades,            \* bound: trades ever recorded
  MaxClicks,            \* bound: preferences set and erasures asked for, together
  MaxUpsets,            \* bound: refusals, failures and restarts, together
  TRADES_PER_PASS,
  MAX_SALES_PER_BATCH,
  None

Trades  == 1 .. MaxTrades
Uploads == [sales : SUBSET Trades, through : 0 .. MaxTrades]

VARIABLES
  ledger, sellable,  \* trades recorded, and those that become a report
  dbMark, dbConsent, \* MARK and CONSENT; the key is there as soon as the mark is
  consent, unseen,   \* the consent channel, and a change its receiver has not seen
  task, from, plan,  \* where the sender is, the mark it read, its batches
  request,           \* the request it waits for: "sent", "done", "refused" or None
  opting, newest,    \* where set_price_report_preferences is, and the id it read
  eraser, through,   \* where erase_price_reports is, and the id it read
  late,              \* requests given up that may still arrive
  held,              \* the collector's rows
  clicks, upsets,    \* counts of MaxClicks and MaxUpsets
  agreed, private,   \* history: trades recorded under consent, and with it withdrawn and neither
                     \* a pass begun nor an erasure about to move the mark
  posted, removed,   \* history: trades ever posted, and those posted before an erasure
  skipped            \* history: trades a consent or an erasure passed over, or refused for good

db      == <<dbMark, dbConsent>>
channel == <<consent, unseen>>
sender  == <<task, from, plan>>
user    == <<opting, newest, eraser, through>>
counts  == <<clicks, upsets>>
tale    == <<agreed, private, posted, removed, skipped>>
vars    == <<ledger, sellable, db, channel, sender, request, user, late, held, counts, tale>>

Init ==
  /\ ledger = 0 /\ sellable = {} /\ dbMark = None /\ dbConsent = FALSE
  /\ consent = FALSE /\ unseen = FALSE
  /\ task = "loop" /\ from = 0 /\ plan = <<>> /\ request = None
  /\ opting = "idle" /\ newest = 0 /\ eraser = "idle" /\ through = 0
  /\ late = {} /\ held = {} /\ clicks = 0 /\ upsets = 0
  /\ agreed = {} /\ private = {} /\ posted = {} /\ removed = {} /\ skipped = {}

Click == clicks < MaxClicks /\ clicks' = clicks + 1
Upset == upsets < MaxUpsets /\ upsets' = upsets + 1

\* The delivery lock.
Passing == task \in {"mark", "read", "deliver", "posting", "settle"}
Erasing == eraser \in {"marking", "moving", "posting"}

---------------------------------------------------------------------------
\* The ledger, written by the game log's reader.
RecordTrade ==
  /\ ledger < MaxTrades /\ ledger' = ledger + 1
  /\ \E s \in {sellable, sellable \cup {ledger + 1}} : sellable' = s
  /\ agreed'  = IF consent \/ opting # "idle" THEN agreed \cup {ledger + 1} ELSE agreed
  /\ private' = IF ~consent /\ ~dbConsent /\ opting = "idle" /\ task \in {"loop", "wait"}
                     /\ eraser # "moving"
                THEN private \cup {ledger + 1} ELSE private
  /\ UNCHANGED <<db, channel, sender, request, user, late, held, counts, posted, removed, skipped>>

---------------------------------------------------------------------------
\* The sender's loop.
Rests == task' = "wait" /\ from' = 0 /\ plan' = <<>>
Loop ==
  /\ task = "loop" /\ unseen' = FALSE
  /\ IF consent /\ dbConsent THEN task' = "lock" ELSE task' = "wait"
  /\ UNCHANGED <<ledger, sellable, db, consent, from, plan, request, user, late, held, counts, tale>>
\* The channel has changed, or the interval is over.
Wakes ==
  /\ task = "wait" /\ task' = "loop" /\ unseen' = FALSE
  /\ UNCHANGED <<ledger, sellable, db, consent, from, plan, request, user, late, held, counts, tale>>
Locks ==
  /\ task = "lock" /\ ~Erasing /\ task' = "mark"
  /\ UNCHANGED <<ledger, sellable, db, channel, from, plan, request, user, late, held, counts, tale>>
ReadsMark ==
  /\ task = "mark"
  /\ IF dbMark = None THEN Rests ELSE task' = "read" /\ from' = dbMark /\ UNCHANGED plan
  /\ UNCHANGED <<ledger, sellable, db, channel, request, user, late, held, counts, tale>>

\* plan: the sales among the trades read, in batches, each with the mark that settles it:
\* up to the sale the next batch begins with, or to the last trade read.  Trades none of
\* which is a sale are settled without a post.
Read(t) == t > from /\ t <= ledger /\ t <= from + TRADES_PER_PASS
Sales == {t \in sellable : Read(t)}
LastRead == Min({ledger, from + TRADES_PER_PASS})
Part(k) ==
  {t \in Sales : Cardinality({u \in Sales : u < t})
                   \in (k - 1) * MAX_SALES_PER_BATCH .. k * MAX_SALES_PER_BATCH - 1}
Bug_ThroughNext(k) == IF Part(k + 1) = {} THEN LastRead ELSE Min(Part(k + 1))
Through(k) == IF Part(k + 1) = {} THEN LastRead ELSE Min(Part(k + 1)) - 1
Planned(n) == [k \in 1 .. n |-> [sales |-> Part(k), through |-> Through(k)]]
ReadsTrades ==
  /\ task = "read"
  /\ \/ \E n \in 1 .. TRADES_PER_PASS :
          /\ Part(n) # {} /\ Part(n + 1) = {} /\ plan' = Planned(n)
          /\ task' = "deliver" /\ UNCHANGED from
     \/ /\ Sales = {} /\ LastRead > from /\ task' = "settle" /\ UNCHANGED from
        /\ plan' = <<[sales |-> {}, through |-> LastRead]>>
     \/ LastRead = from /\ Rests
  /\ UNCHANGED <<ledger, sellable, db, channel, request, user, late, held, counts, tale>>

\* deliver: a batch is posted only under consent, and a change of it gives the post up.
Batch == Head(plan)
Deliver ==
  /\ task = "deliver" /\ unseen' = FALSE
  /\ IF consent
     THEN /\ task' = "posting" /\ request' = "sent" /\ UNCHANGED <<from, plan>>
          /\ posted' = posted \cup Batch.sales
     ELSE Rests /\ UNCHANGED <<request, posted>>
  /\ UNCHANGED <<ledger, sellable, db, consent, user, late, held, counts, agreed, private, removed, skipped>>
\* Given up, the request is lost or still under way.
Abandoned ==
  /\ request' = None
  /\ \/ request = "sent" /\ late' = late \cup {Batch.sales}
     \/ UNCHANGED late
GivesUp ==
  /\ task = "posting" /\ unseen /\ Rests /\ Abandoned
  /\ UNCHANGED <<ledger, sellable, db, channel, user, held, counts, tale>>
Fails ==
  /\ task = "posting" /\ Upset /\ Rests /\ Abandoned
  /\ UNCHANGED <<ledger, sellable, db, channel, user, held, clicks, tale>>
Answered ==
  /\ task = "posting" /\ ~unseen /\ request \in {"done", "refused"}
  /\ task' = "settle" /\ request' = None
  /\ skipped' = IF request = "refused" THEN skipped \cup Batch.sales ELSE skipped
  /\ UNCHANGED <<ledger, sellable, db, channel, from, plan, user, late, held, counts, agreed, private, posted, removed>>
Settle ==
  /\ task = "settle"
  /\ \/ /\ dbMark' = Batch.through
        /\ IF Len(plan) = 1 THEN Rests ELSE task' = "deliver" /\ plan' = Tail(plan) /\ UNCHANGED from
        /\ UNCHANGED upsets
     \/ Upset /\ Rests /\ UNCHANGED dbMark
  /\ UNCHANGED <<ledger, sellable, dbConsent, channel, request, user, late, held, clicks, tale>>

---------------------------------------------------------------------------
\* The collector: it takes the rows it does not hold, refuses for good, or drops the
\* rows; what it answers may be lost (Fails).
Collect ==
  /\ task = "posting" /\ request = "sent"
  /\ \/ held' = held \cup Batch.sales /\ request' = "done" /\ UNCHANGED upsets
     \/ Upset /\ request' = "refused" /\ UNCHANGED held
  /\ UNCHANGED <<ledger, sellable, db, channel, sender, user, late, clicks, tale>>
CollectLate ==
  /\ \E b \in late : late' = late \ {b} /\ (held' = held \cup b \/ held' = held)
  /\ UNCHANGED <<ledger, sellable, db, channel, sender, request, user, counts, tale>>
EraseRows ==
  /\ eraser = "posting" /\ request = "sent"
  /\ held' = {} /\ request' = "done"
  /\ UNCHANGED <<ledger, sellable, db, channel, sender, user, late, counts, tale>>

---------------------------------------------------------------------------
\* set_price_report_preferences, step by step; the app tells of a save that failed.  Its
\* switch asks for the other of what get_price_report_preferences said.
OptOut ==
  /\ opting = "idle" /\ consent /\ Click /\ consent' = FALSE /\ unseen' = TRUE /\ opting' = "forget"
  /\ UNCHANGED <<ledger, sellable, db, sender, request, newest, eraser, through, late, held, upsets, tale>>
SaveOut ==
  /\ opting = "forget" /\ opting' = "idle"
  /\ \/ dbConsent' = FALSE /\ UNCHANGED upsets
     \/ Upset /\ UNCHANGED dbConsent
  /\ UNCHANGED <<ledger, sellable, dbMark, channel, sender, request, newest, eraser, through, late, held, clicks, tale>>
OptIn ==
  /\ opting = "idle" /\ ~consent /\ Click /\ newest' = ledger /\ opting' = "mark"
  /\ UNCHANGED <<ledger, sellable, db, channel, sender, request, eraser, through, late, held, upsets, tale>>
MarkNow == newest
SaveMark ==
  /\ opting = "mark" /\ dbMark' = MarkNow /\ opting' = "save" /\ newest' = 0
  /\ skipped' = skipped \cup 1 .. newest
  /\ UNCHANGED <<ledger, sellable, dbConsent, channel, sender, request, eraser, through, late, held, counts, agreed, private, posted, removed>>
SaveIn ==
  /\ opting = "save" /\ dbConsent' = TRUE /\ opting' = "tell"
  /\ UNCHANGED <<ledger, sellable, dbMark, channel, sender, request, newest, eraser, through, late, held, counts, tale>>
TellIn ==
  /\ opting = "tell" /\ consent' = TRUE /\ unseen' = TRUE /\ opting' = "idle"
  /\ UNCHANGED <<ledger, sellable, db, sender, request, newest, eraser, through, late, held, counts, tale>>
OptInFails ==
  /\ opting \in {"mark", "save"} /\ Upset /\ opting' = "idle" /\ newest' = 0
  /\ UNCHANGED <<ledger, sellable, db, channel, sender, request, eraser, through, late, held, clicks, tale>>

\* erase_recent: the mark moves before the collector is asked, and stays if that fails.
Erase ==
  /\ eraser = "idle" /\ Click /\ eraser' = "lock"
  /\ UNCHANGED <<ledger, sellable, db, channel, sender, request, opting, newest, through, late, held, upsets, tale>>
PassFinished == ~Passing
EraseLocks ==
  /\ eraser = "lock" /\ PassFinished
  /\ eraser' = IF dbMark = None THEN "idle" ELSE "marking"
  /\ UNCHANGED <<ledger, sellable, db, channel, sender, request, opting, newest, through, late, held, counts, tale>>
EraseReads ==
  /\ eraser = "marking" /\ eraser' = "moving" /\ through' = ledger
  /\ UNCHANGED <<ledger, sellable, db, channel, sender, request, opting, newest, late, held, counts, tale>>
Bug_MarkUnmoved == dbMark
EraseMark == through
EraseMarks ==
  /\ eraser = "moving"
  /\ dbMark' = EraseMark /\ eraser' = "posting" /\ request' = "sent" /\ through' = 0
  /\ removed' = posted /\ skipped' = skipped \cup 1 .. through
  /\ UNCHANGED <<ledger, sellable, dbConsent, channel, sender, opting, newest, late, held, counts, agreed, private, posted>>
EraseConfirmed ==
  /\ eraser = "posting" /\ request = "done" /\ request' = None /\ eraser' = "idle"
  /\ UNCHANGED <<ledger, sellable, db, channel, sender, opting, newest, through, late, held, counts, tale>>
EraseFails ==
  /\ Erasing /\ Upset /\ request' = None /\ eraser' = "idle" /\ through' = 0
  /\ UNCHANGED <<ledger, sellable, db, channel, sender, opting, newest, late, held, clicks, tale>>

Restart ==
  /\ Upset
  /\ consent' = dbConsent /\ unseen' = FALSE /\ task' = "loop" /\ from' = 0 /\ plan' = <<>>
  /\ IF task = "posting" THEN Abandoned ELSE request' = None /\ UNCHANGED late
  /\ opting' = "idle" /\ newest' = 0 /\ eraser' = "idle" /\ through' = 0
  /\ UNCHANGED <<ledger, sellable, db, held, clicks, tale>>

Sending   == Loop \/ Wakes \/ Locks \/ ReadsMark \/ ReadsTrades \/ Deliver \/ GivesUp \/ Answered \/ Settle
Choosing  == SaveOut \/ SaveMark \/ SaveIn \/ TellIn
Removing  == EraseLocks \/ EraseReads \/ EraseMarks \/ EraseConfirmed
Collector == Collect \/ EraseRows
Next == Sending \/ Choosing \/ Removing \/ Collector \/ CollectLate \/ RecordTrade
        \/ OptOut \/ OptIn \/ OptInFails \/ Erase \/ EraseFails \/ Fails \/ Restart

Spec == Init /\ [][Next]_vars
\* Fairness: the sender, a command once called and the collector go on.  A lock goes to
\* whoever waits for it, so an erasure that may take it again and again does take it.
LiveSpec == /\ Spec /\ WF_vars(Sending) /\ WF_vars(Choosing) /\ WF_vars(Collector)
            /\ SF_vars(EraseLocks) /\ WF_vars(Removing)

---------------------------------------------------------------------------
TypeOK ==
  /\ ledger \in 0 .. MaxTrades /\ sellable \subseteq 1 .. ledger
  /\ dbMark \in 0 .. ledger \cup {None} /\ dbConsent \in BOOLEAN
  /\ consent \in BOOLEAN /\ unseen \in BOOLEAN
  /\ task \in {"loop", "wait", "lock", "mark", "read", "deliver", "posting", "settle"}
  /\ from \in 0 .. ledger /\ plan \in Seq(Uploads)
  /\ opting \in {"idle", "forget", "mark", "save", "tell"} /\ newest \in 0 .. ledger
  /\ eraser \in {"idle", "lock", "marking", "moving", "posting"} /\ through \in 0 .. ledger
  /\ request \in {None, "sent", "done", "refused"}
  /\ late \subseteq SUBSET Trades /\ held \subseteq Trades
  /\ posted \subseteq sellable /\ agreed \cup private \cup skipped \subseteq 1 .. ledger

\* Trades recorded after a withdrawal was saved, with no pass begun and no erasure between
\* its look at the ledger and its move of the mark, never leave the machine, whatever
\* consent, erasure, failure or restart follows: consenting again moves the mark past them
\* (docs/price-reports.md, "history from before consent is never sent").  One recorded
\* between those two steps may: the erasure can put its older id over the mark of the
\* consent that comes with it.
PrivateStaysLocal == posted \cap private = {}

\* What was posted before an erasure is not posted again after it, even when the erasure
\* failed or the program restarted in it (mod.rs:345-346, "retries must never upload the
\* trades the user has asked us to remove").
RemovedNotSentAgain ==
  [][task = "deliver" /\ task' = "posting" => Batch.sales \cap removed = {}]_vars

\* While sharing stays on, the sender catches up again and again: every sale recorded under
\* consent has reached the collector, was refused for good, or was passed over by a later
\* consent or erasure.
AgreedArrives == []<>(~consent \/ agreed \cap sellable \subseteq held \cup skipped)

\* docs/price-reports.md: "only trades recorded after that are ever read": no trade
\* recorded while sharing was off is posted.  A pass that began before a withdrawal and
\* lives on until consent is given again posts what it reads past its own, older mark.
OnlyAgreedIsPosted == posted \subseteq agreed
=============================================================================
