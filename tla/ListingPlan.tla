---------------------------- MODULE ListingPlan ----------------------------
(***************************************************************************)
(* The bulk listing executor of wfm-trading and the desktop commands that   *)
(* drive it: a batch is saved to a journal, each item is marked in doubt on *)
(* disk before its request leaves, the market accepts it, refuses it, answers *)
(* late or never, and the process may die between any two steps.            *)
(*                                                                          *)
(* One account guard serialises every order mutation.  Commands run on      *)
(* blocking tasks: PlanCallers serve submit / resume / discard / logout,    *)
(* Editors serve the single-order mutators and the automatic adjustment.    *)
(***************************************************************************)
EXTENDS JournalPromise, FiniteSets

CONSTANTS
  PlanCallers,   \* tasks that run batch commands
  Editors,       \* tasks that run update / delete / visibility / adjustment
  Nobody,        \* the guard's owner when it is free
  Keys,          \* market identities (item, side, rank, subtype)
  Slots,         \* order ids that may exist for one identity
  Terms,         \* price, quantity, lot and visibility of an order, together
  NoOrder,       \* an empty slot
  InitialOrders, \* the account's orders at the start
  Batches,       \* what the user may submit
  MaxCrashes,    \* bound: process deaths
  MaxUserEdits,  \* bound: changes made on the website
  MaxSends       \* bound: requests dispatched for one item

Status   == {"pending", "uncertain", "ok", "error"}
ItemSpec == [key : Keys, terms : Terms, mode : {"none", "new", "existing"},
             slot : Slots, was : Terms]
Callers  == PlanCallers \cup Editors
Plan     == [plan : PlanIds, status : [Items -> Status]]
Request  == [plan : PlanIds, item : Items, n : 1 .. MaxSends, create : BOOLEAN, slot : Slots]

ASSUME BoundsAssumption ==
  /\ BatchSize \in Nat \ {0}
  /\ MaxPlans \in Nat \ {0}
  /\ MaxCrashes \in Nat
  /\ MaxUserEdits \in Nat
  /\ MaxSends \in Nat \ {0}

ASSUME NamesAssumption ==
  /\ Nobody \notin Callers
  /\ PlanCallers \cap Editors = {}
  /\ NoOrder \notin Terms
  /\ Absent \notin Plan
  /\ Unreadable \notin Plan
  /\ Absent # Unreadable
  /\ Batches \subseteq [Items -> ItemSpec] /\ Batches # {}
  /\ InitialOrders \subseteq [Keys -> [Slots -> Terms \cup {NoOrder}]]

VARIABLES
  guard,      \* who holds WfmSession.plan_running
  unlocked,   \* an account is installed in the session
  content,    \* the items each saved batch carries (fixed once seeded)
  nextPlan,   \* ids handed out so far, plus one (random_token never repeats)
  pc,         \* where each task is
  mem,        \* the task's own copy of the batch
  idx,        \* the executor's loop index
  seen,       \* the orders of the item's identity, as the executor read them
  result,     \* what execute_one decided for the current item
  waiting,    \* the number of the request the task waits for
  answer,     \* the market's reply to it
  market,     \* the account's orders
  sends,      \* requests dispatched per item
  dropped,    \* batches discarded by the user or scrubbed by a logout
  crashes, edits

execVars   == <<mem, idx, seen, result, waiting, answer>>
marketVars == <<market, wire, sends, applied, edits>>
vars == <<guard, unlocked, journal, content, nextPlan, pc, mem, idx, seen, result,
          waiting, answer, market, wire, sends, applied, dropped, crashes, edits>>

\* PlanGuard::acquire: a compare-and-swap on the flag.
GuardFree == guard = Nobody

Blank       == [plan |-> 0, status |-> [i \in Items |-> "error"]]
NoOrders    == [s \in Slots |-> NoOrder]
Finished(p) == \A i \in Items : p.status[i] \in {"ok", "error"}
Live(m)     == {s \in Slots : m[s] # NoOrder}
ItemOf(c)   == content[mem[c].plan][idx[c]]

\* What the loop offers to the market: an item believed never sent.
Bug_OfferInDoubt(st) == st \in {"pending", "uncertain"}
Offered(st) == st = "pending"

\* MutationOutcome: a send of unknown fate is its own status, and a refusal by
\* the rate limit, unlike any other, leaves the item pending.
StatusOfLost == "uncertain"
Bug_RefusedIsOk(a) == {"ok"}
StatusesOf(a) == IF a = "accepted" THEN {"ok"} ELSE {"error", "pending"}

\* journal_state: only an absent record permits a new batch.
CanSubmit == journal = Absent

\* The batch as it is first saved, and with one item's status changed.
Seeded(n) == [plan |-> n, status |-> [i \in Items |-> "pending"]]
WithStatus(p, i, st) == [p EXCEPT !.status = [@ EXCEPT ![i] = st]]

\* The batch as it is saved just before an item's request is built.
Bug_NotMarked(p, i) == p
Marked(p, i) == WithStatus(p, i, "uncertain")

\* review_matches: what the user reviewed is what the market still shows.
ReviewMatches(it, m) ==
  \/ it.mode = "none"
  \/ it.mode = "new" /\ Live(m) = {}
  \/ it.mode = "existing" /\ Live(m) = {it.slot} /\ m[it.slot] = it.was

---------------------------------------------------------------------------
\* write_pending_atomic: the file is replaced whole, or not at all, and the
\* directory sync may still report an error after the rename took effect.
WriteOk(p)     == journal' = p
WriteFailed(p) == journal' \in {journal, p}

Init ==
  /\ guard = Nobody
  /\ unlocked = FALSE
  /\ journal \in {Absent, Unreadable}
  /\ content = [p \in PlanIds |-> CHOOSE b \in Batches : TRUE]
  /\ nextPlan = 1
  /\ pc = [c \in Callers |-> "idle"]
  /\ mem = [c \in Callers |-> Blank]
  /\ idx = [c \in Callers |-> 1]
  /\ seen = [c \in Callers |-> NoOrders]
  /\ result = [c \in Callers |-> "none"]
  /\ waiting = [c \in Callers |-> 0]
  /\ answer = [c \in Callers |-> "none"]
  /\ market \in InitialOrders
  /\ wire = {}
  /\ sends = [p \in PlanIds |-> [i \in Items |-> 0]]
  /\ applied = [p \in PlanIds |-> [i \in Items |-> 0]]
  /\ dropped = {}
  /\ crashes = 0
  /\ edits = 0

---------------------------------------------------------------------------
(* The session around the executor.                                        *)

Unlock ==
  /\ ~unlocked
  /\ unlocked' = TRUE
  /\ UNCHANGED <<guard, journal, content, nextPlan, pc, execVars, marketVars, dropped, crashes>>

\* A task ends: its locals are gone and, if it held the account, so is the guard.
Return(c) ==
  /\ pc' = [pc EXCEPT ![c] = "idle"]
  /\ mem' = [mem EXCEPT ![c] = Blank]
  /\ idx' = [idx EXCEPT ![c] = 1]
  /\ seen' = [seen EXCEPT ![c] = NoOrders]
  /\ result' = [result EXCEPT ![c] = "none"]
  /\ waiting' = [waiting EXCEPT ![c] = 0]
  /\ answer' = [answer EXCEPT ![c] = "none"]
  /\ guard' = IF guard = c THEN Nobody ELSE guard

\* submit_plan up to the journal check: guard first, then the unlock check.
SubmitBegin(c) ==
  /\ pc[c] = "idle" /\ GuardFree /\ unlocked
  /\ nextPlan <= MaxPlans
  /\ guard' = c
  /\ pc' = [pc EXCEPT ![c] = "seed"]
  /\ UNCHANGED <<unlocked, journal, content, nextPlan, execVars, marketVars, dropped, crashes>>

\* Any saved record, even an unreadable one, refuses the new batch.
SubmitRefused(c) ==
  /\ pc[c] = "seed" /\ ~CanSubmit
  /\ Return(c)
  /\ UNCHANGED <<unlocked, journal, content, nextPlan, marketVars, dropped, crashes>>

\* execute_plan seeds the journal with every item pending before any request.
SubmitSeed(c) ==
  /\ pc[c] = "seed" /\ CanSubmit /\ nextPlan \in PlanIds
  /\ \E b \in Batches :
       LET new == Seeded(nextPlan) IN
       /\ content' = [content EXCEPT ![nextPlan] = b]
       /\ \/ /\ WriteOk(new)
             /\ mem' = [mem EXCEPT ![c] = new]
             /\ pc' = [pc EXCEPT ![c] = "loop"]
             /\ UNCHANGED <<guard, idx, seen, result, waiting, answer>>
          \/ WriteFailed(new) /\ Return(c)
  /\ nextPlan' = nextPlan + 1
  /\ UNCHANGED <<unlocked, marketVars, dropped, crashes>>

\* resume_pending_plan reads the journal before it takes the guard.
ResumeLoad(c) ==
  /\ pc[c] = "idle" /\ Saved
  /\ mem' = [mem EXCEPT ![c] = journal]
  /\ pc' = [pc EXCEPT ![c] = "loaded"]
  /\ UNCHANGED <<guard, unlocked, journal, content, nextPlan, idx, seen, result, waiting, answer,
                 marketVars, dropped, crashes>>

\* ... and runs the copy it read.  A finished copy needs no account.
ResumeBegin(c) ==
  /\ pc[c] = "loaded" /\ GuardFree
  /\ Finished(mem[c]) \/ unlocked
  /\ guard' = c
  /\ pc' = [pc EXCEPT ![c] = IF Finished(mem[c]) THEN "finish" ELSE "loop"]
  /\ UNCHANGED <<unlocked, journal, content, nextPlan, execVars, marketVars, dropped, crashes>>

\* Busy, locked, or the request id was cancelled or already used.
ResumeRefused(c) ==
  /\ pc[c] = "loaded"
  /\ Return(c)
  /\ UNCHANGED <<unlocked, journal, content, nextPlan, marketVars, dropped, crashes>>

\* A discard that does not wait for the account.
Bug_DiscardUnguarded(c) ==
  /\ journal # Absent
  /\ journal' = Absent
  /\ dropped' = IF Saved THEN dropped \cup {journal.plan} ELSE dropped
  /\ unlocked' \in {unlocked, FALSE}
  /\ UNCHANGED <<guard, content, nextPlan, pc, execVars, marketVars, crashes>>

\* discard_pending_plan and the journal half of logout: the file is removed
\* whatever it holds.
Discard(c) ==
  /\ pc[c] = "idle" /\ GuardFree /\ journal # Absent
  /\ journal' = Absent
  /\ dropped' = IF Saved THEN dropped \cup {journal.plan} ELSE dropped
  /\ unlocked' \in {unlocked, FALSE}
  /\ UNCHANGED <<guard, content, nextPlan, pc, execVars, marketVars, crashes>>

\* logout with no saved batch.
LogoutClean(c) ==
  /\ pc[c] = "idle" /\ GuardFree /\ journal = Absent /\ unlocked
  /\ unlocked' = FALSE
  /\ UNCHANGED <<guard, journal, content, nextPlan, pc, execVars, marketVars, dropped, crashes>>

---------------------------------------------------------------------------
(* run_pending_with_store: the loop over the items.                        *)

\* The live checks or the governor refuse: the loop ends where it stands.
StopEarly(c) ==
  /\ pc[c] = "loop" /\ idx[c] \in Items
  /\ pc' = [pc EXCEPT ![c] = "finish"]
  /\ UNCHANGED <<guard, unlocked, journal, content, nextPlan, execVars, marketVars, dropped, crashes>>

\* Only pending items are offered.
SkipItem(c) ==
  /\ pc[c] = "loop" /\ idx[c] \in Items
  /\ ~Offered(mem[c].status[idx[c]])
  /\ idx' = [idx EXCEPT ![c] = @ + 1]
  /\ UNCHANGED <<guard, unlocked, journal, content, nextPlan, pc, mem, seen, result, waiting, answer,
                 marketVars, dropped, crashes>>

\* The item goes to disk as uncertain before its request is even built; a
\* failed write ends the command without sending, and the copy is pending again.
MarkItem(c) ==
  /\ pc[c] = "loop" /\ idx[c] \in Items
  /\ Offered(mem[c].status[idx[c]])
  /\ LET marked == Marked(mem[c], idx[c]) IN
     \/ /\ WriteOk(marked)
        /\ mem' = [mem EXCEPT ![c] = marked]
        /\ pc' = [pc EXCEPT ![c] = "review"]
        /\ UNCHANGED <<guard, idx, seen, result, waiting, answer>>
     \/ WriteFailed(marked) /\ Return(c)
  /\ UNCHANGED <<unlocked, content, nextPlan, marketVars, dropped, crashes>>

LoopDone(c) ==
  /\ pc[c] = "loop" /\ idx[c] \notin Items
  /\ pc' = [pc EXCEPT ![c] = "finish"]
  /\ UNCHANGED <<guard, unlocked, journal, content, nextPlan, execVars, marketVars, dropped, crashes>>

Decide(c, r) ==
  /\ result' = [result EXCEPT ![c] = r]
  /\ pc' = [pc EXCEPT ![c] = "record"]

\* execute_one up to the send: caps, the fresh order list, the review, and the
\* live checks again.  A read or market failure leaves the item pending.
ReviewFails(c) ==
  /\ pc[c] = "review"
  /\ \E r \in {"error", "pending"} : Decide(c, r)
  /\ UNCHANGED <<guard, unlocked, journal, content, nextPlan, mem, idx, seen, waiting, answer,
                 marketVars, dropped, crashes>>

ReviewPasses(c) ==
  /\ pc[c] = "review"
  /\ LET now == market[ItemOf(c).key] IN
     /\ ReviewMatches(ItemOf(c), now)
     /\ Cardinality(Live(now)) <= 1
     /\ seen' = [seen EXCEPT ![c] = now]
  /\ pc' = [pc EXCEPT ![c] = "send"]
  /\ UNCHANGED <<guard, unlocked, journal, content, nextPlan, mem, idx, result, waiting, answer,
                 marketVars, dropped, crashes>>

\* The governor or the transport refuses before anything leaves.
SendDeferred(c) ==
  /\ pc[c] = "send"
  /\ \E r \in {"pending", "error"} : Decide(c, r)
  /\ UNCHANGED <<guard, unlocked, journal, content, nextPlan, mem, idx, seen, waiting, answer,
                 marketVars, dropped, crashes>>

\* POST /v2/order when no order was seen, PATCH /v2/order/{id} otherwise.
Send(c) ==
  LET p == mem[c].plan
      i == idx[c]
      n == sends[p][i] + 1 IN
  /\ pc[c] = "send" /\ sends[p][i] < MaxSends
  /\ \E s \in Slots :
       /\ Live(seen[c]) # {} => s \in Live(seen[c])
       /\ wire' = wire \cup {[plan |-> p, item |-> i, n |-> n, slot |-> s,
                              create |-> Live(seen[c]) = {}]}
  /\ sends' = [sends EXCEPT ![p][i] = n]
  /\ waiting' = [waiting EXCEPT ![c] = n]
  /\ pc' = [pc EXCEPT ![c] = "wait"]
  /\ UNCHANGED <<guard, unlocked, journal, content, nextPlan, mem, idx, seen, result, answer,
                 market, applied, dropped, crashes, edits>>

\* A confirmed answer.  A refusal is an error, except the rate limit: the
\* market turned the request away, so it stays pending.
TakeAnswer(c) ==
  /\ pc[c] = "wait" /\ answer[c] # "none"
  /\ \E r \in StatusesOf(answer[c]) : Decide(c, r)
  /\ waiting' = [waiting EXCEPT ![c] = 0]
  /\ answer' = [answer EXCEPT ![c] = "none"]
  /\ UNCHANGED <<guard, unlocked, journal, content, nextPlan, mem, idx, seen,
                 marketVars, dropped, crashes>>

\* No answer, a 5xx, an unreadable body, or one with no order id: the request
\* may have been carried out, or may still be.
LoseAnswer(c) ==
  /\ pc[c] = "wait"
  /\ Decide(c, StatusOfLost)
  /\ waiting' = [waiting EXCEPT ![c] = 0]
  /\ answer' = [answer EXCEPT ![c] = "none"]
  /\ UNCHANGED <<guard, unlocked, journal, content, nextPlan, mem, idx, seen,
                 marketVars, dropped, crashes>>

\* The result is saved; an item left pending or uncertain stops the batch.
RecordItem(c) ==
  /\ pc[c] = "record"
  /\ LET done == WithStatus(mem[c], idx[c], result[c]) IN
     \/ /\ WriteOk(done)
        /\ mem' = [mem EXCEPT ![c] = done]
        /\ pc' = [pc EXCEPT ![c] = IF result[c] \in {"pending", "uncertain"} THEN "finish" ELSE "loop"]
        /\ idx' = [idx EXCEPT ![c] = @ + 1]
        /\ result' = [result EXCEPT ![c] = "none"]
        /\ seen' = [seen EXCEPT ![c] = NoOrders]
        /\ UNCHANGED <<guard, waiting, answer>>
     \/ WriteFailed(done) /\ Return(c)
  /\ UNCHANGED <<unlocked, content, nextPlan, marketVars, dropped, crashes>>

\* finish_plan: the file goes only if the record on disk is this batch's and
\* is itself finished.  Removing it may fail.
Finish(c) ==
  /\ pc[c] = "finish"
  /\ IF Saved /\ journal.plan = mem[c].plan /\ Finished(journal)
       THEN journal' \in {Absent, journal}
       ELSE UNCHANGED journal
  /\ Return(c)
  /\ UNCHANGED <<unlocked, content, nextPlan, marketVars, dropped, crashes>>

---------------------------------------------------------------------------
(* The other mutators, the market, the user and the operating system.      *)

EditBegin(e) ==
  /\ pc[e] = "idle" /\ GuardFree /\ unlocked
  /\ guard' = e
  /\ pc' = [pc EXCEPT ![e] = "edit"]
  /\ UNCHANGED <<unlocked, journal, content, nextPlan, execVars, marketVars, dropped, crashes>>

\* PATCH or DELETE of an existing order, or nothing when it is refused.
EditEnd(e) ==
  /\ pc[e] = "edit"
  /\ \/ UNCHANGED market
     \/ \E k \in Keys, s \in Slots, t \in Terms \cup {NoOrder} :
          /\ market[k][s] # NoOrder
          /\ market' = [market EXCEPT ![k][s] = t]
  /\ Return(e)
  /\ UNCHANGED <<unlocked, journal, content, nextPlan, wire, sends, applied, edits, dropped, crashes>>

\* The user (or a trade partner's purchase) changes an order on the website.
UserEdit ==
  /\ edits < MaxUserEdits
  /\ edits' = edits + 1
  /\ \E k \in Keys, s \in Slots, t \in Terms \cup {NoOrder} : market' = [market EXCEPT ![k][s] = t]
  /\ UNCHANGED <<guard, unlocked, journal, content, nextPlan, pc, execVars, wire, sends, applied, dropped, crashes>>

\* Whoever still waits for the request hears the answer.
Reply(r, a) ==
  answer' = [c \in Callers |->
    IF pc[c] = "wait" /\ mem[c].plan = r.plan /\ idx[c] = r.item /\ waiting[c] = r.n THEN a ELSE answer[c]]

MarketAccepts(r) ==
  LET k == content[r.plan][r.item].key IN
  /\ r \in wire
  /\ IF r.create THEN Live(market[k]) = {} ELSE market[k][r.slot] # NoOrder
  /\ market' = [market EXCEPT ![k][r.slot] = content[r.plan][r.item].terms]
  /\ wire' = wire \ {r}
  /\ applied' = [applied EXCEPT ![r.plan][r.item] = @ + 1]
  /\ Reply(r, "accepted")
  /\ UNCHANGED <<guard, unlocked, journal, content, nextPlan, pc, mem, idx, seen, result, waiting,
                 sends, dropped, crashes, edits>>

MarketRefuses(r) ==
  /\ r \in wire
  /\ wire' = wire \ {r}
  /\ Reply(r, "refused")
  /\ UNCHANGED <<guard, unlocked, journal, content, nextPlan, pc, mem, idx, seen, result, waiting,
                 market, sends, applied, dropped, crashes, edits>>

RequestLost(r) ==
  /\ r \in wire
  /\ wire' = wire \ {r}
  /\ UNCHANGED <<guard, unlocked, journal, content, nextPlan, pc, execVars, market, sends, applied,
                 dropped, crashes, edits>>

\* The process dies: memory, the guard and the session go; the journal, the
\* orders and the requests already on the wire do not.
Crash ==
  /\ crashes < MaxCrashes
  /\ crashes' = crashes + 1
  /\ guard' = Nobody
  /\ unlocked' = FALSE
  /\ pc' = [c \in Callers |-> "idle"]
  /\ mem' = [c \in Callers |-> Blank]
  /\ idx' = [c \in Callers |-> 1]
  /\ seen' = [c \in Callers |-> NoOrders]
  /\ result' = [c \in Callers |-> "none"]
  /\ waiting' = [c \in Callers |-> 0]
  /\ answer' = [c \in Callers |-> "none"]
  /\ UNCHANGED <<journal, content, nextPlan, marketVars, dropped>>

---------------------------------------------------------------------------
\* The steps a running command takes by itself.
CommandStep(c) ==
  \/ SubmitRefused(c) \/ SubmitSeed(c)
  \/ ResumeBegin(c) \/ ResumeRefused(c)
  \/ StopEarly(c) \/ SkipItem(c) \/ MarkItem(c) \/ LoopDone(c)
  \/ ReviewFails(c) \/ ReviewPasses(c)
  \/ SendDeferred(c) \/ Send(c) \/ TakeAnswer(c) \/ LoseAnswer(c)
  \/ RecordItem(c) \/ Finish(c)

UserStep ==
  \/ Unlock \/ UserEdit
  \/ \E c \in PlanCallers : SubmitBegin(c) \/ ResumeLoad(c) \/ Discard(c) \/ LogoutClean(c)
  \/ \E e \in Editors : EditBegin(e)

MarketStep == \E r \in wire : MarketAccepts(r) \/ MarketRefuses(r) \/ RequestLost(r)

Next ==
  \/ UserStep
  \/ \E c \in PlanCallers : CommandStep(c)
  \/ \E e \in Editors : EditEnd(e)
  \/ MarketStep
  \/ Crash

Spec == Init /\ [][Next]_vars

\* A started command is a blocking task: every request it makes is bounded by
\* the client's 30 s timeout, so each of its steps is eventually taken.
Fairness ==
  /\ \A c \in PlanCallers : WF_vars(CommandStep(c))
  /\ \A e \in Editors : WF_vars(EditEnd(e))

LiveSpec == Spec /\ Fairness
---------------------------------------------------------------------------
(* Properties.                                                             *)

Holding == {"seed", "loop", "review", "send", "wait", "record", "finish", "edit"}

TaskTypes ==
  /\ guard \in Callers \cup {Nobody}
  /\ pc \in [Callers -> {"idle", "loaded"} \cup Holding]
  /\ mem \in [Callers -> Plan \cup {Blank}]
  /\ idx \in [Callers -> 1 .. (BatchSize + 1)]
  /\ seen \in [Callers -> [Slots -> Terms \cup {NoOrder}]]
  /\ result \in [Callers -> Status \cup {"none"}]
  /\ waiting \in [Callers -> 0 .. MaxSends]
  /\ answer \in [Callers -> {"none", "accepted", "refused"}]

StoreTypes ==
  /\ unlocked \in BOOLEAN
  /\ journal \in {Absent, Unreadable} \cup Plan
  /\ content \in [PlanIds -> [Items -> ItemSpec]]
  /\ nextPlan \in 1 .. (MaxPlans + 1)
  /\ dropped \subseteq PlanIds
  /\ crashes \in 0 .. MaxCrashes

MarketTypes ==
  /\ market \in [Keys -> [Slots -> Terms \cup {NoOrder}]]
  /\ wire \subseteq Request
  /\ sends \in [PlanIds -> [Items -> 0 .. MaxSends]]
  /\ applied \in [PlanIds -> [Items -> Nat]]
  /\ edits \in 0 .. MaxUserEdits

\* Every variable keeps its type: the task-local ones, the stored ones and the
\* market's.
TypeOK == TaskTypes /\ StoreTypes /\ MarketTypes

\* The account guard excludes: while one command works between taking the
\* guard and returning, no other order mutator does (order_mutations.rs: "a
\* sale completing mid-batch could PATCH an order the reviewed plan had
\* already reconciled against").
OneMutator == \A c \in Callers : pc[c] \in Holding <=> guard = c

\* From before the order list is read until the result is saved, the disk
\* already says the item in hand is uncertain, whatever other commands,
\* crashes or failed writes came before.
MarkedBeforeSend ==
  \A c \in PlanCallers : pc[c] \in {"review", "send", "wait", "record"} =>
    /\ journal = mem[c]
    /\ idx[c] \in Items
    /\ mem[c].status[idx[c]] = "uncertain"

Outstanding(p, i) == applied[p][i] > 0 \/ \E r \in wire : r.plan = p /\ r.item = i

\* An item whose request has been carried out, or still may be, is never
\* offered again: neither the journal nor the copy of a task about to run it
\* says pending.
NeverReofferedInDoubt ==
  \A p \in PlanIds, i \in Items : Outstanding(p, i) =>
    /\ Saved /\ journal.plan = p => journal.status[i] # "pending"
    /\ \A c \in Callers : mem[c].plan = p => mem[c].status[i] # "pending"

\* The market carries out one reviewed item at most once, across resumes,
\* lost answers, failed journal writes and crashes.
AtMostOnce == \A p \in PlanIds, i \in Items : applied[p][i] <= 1

\* A saved batch with anything unconfirmed leaves the disk only by a discard or
\* a logout, no other batch takes its place, and a discarded one is gone for
\* good: neither a batch that runs at that time nor a crash brings it back.
OnlyDiscardEnds ==
  [][ /\ Saved /\ ~Finished(journal) =>
           \/ Saved' /\ journal'.plan = journal.plan
           \/ journal' = Absent /\ journal.plan \in dropped'
      /\ Saved' => journal'.plan \notin dropped' ]_vars

\* Every command ends and gives the account back, whatever the market does.
AccountReleased == \A c \in Callers : []<>(guard # c)
=============================================================================
