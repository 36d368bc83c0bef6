---------------------------- MODULE SoldListings ----------------------------
(***************************************************************************)
(* What follows a trade in the log (handle_trade): it is recorded, and for *)
(* a sale the market listing of what was given is reduced by the number    *)
(* sold, or deleted, under the account guard that every change of an order *)
(* takes.  The user is told what was adjusted and what is left to review.  *)
(*                                                                         *)
(* The tailer (TradeLog) offers one sale at a time, again and again until  *)
(* it is acknowledged.  The website changes orders whenever it likes.      *)
(***************************************************************************)
EXTENDS Naturals

CONSTANTS
  Orders, Items,
  Unnamed,     \* items the log does not identify: a rank or a variant is missing
  Given,       \* what one sale may give away: functions from Items to numbers
  Odd,         \* orders whose rows this build refuses to decode
  Seeded,      \* the orders at the start, as market below
  MaxQuantity, MaxSales, MaxEdits, MaxFaults, \* bounds
  None

VARIABLES
  market,   \* each order: its item and quantity, or None
  late,     \* updates that were given up and may still arrive
  carried,  \* updates the market carried out for a sale
  sale, given, \* the sale that is offered: its number, and what it gave or None
  ledger,   \* sales recorded
  closed,   \* those marked wfm_closed
  auto, locked, guard, \* the setting, the account, and who holds it
  pc, seen, work,      \* the tailer, the orders it read, those still to adjust
  adjusted, review,    \* what it will tell: adjusted orders, items to look at
  there,    \* the orders on the market when it read them
  report,   \* what the user was told about each sale, or None
  edits, faults

book   == <<market, late, carried>>
row    == <<ledger, closed>>
rights == <<auto, locked, guard>>
tailer == <<pc, seen, work, adjusted, review, there, report>>
vars   == <<book, sale, given, row, rights, tailer, edits, faults>>

Nothing == [o \in Orders |-> None]
Quiet   == /\ pc' = "idle" /\ seen' = Nothing /\ work' = {}
           /\ adjusted' = {} /\ review' = {} /\ there' = Nothing
Init ==
  /\ market = Seeded /\ late = {} /\ carried = {}
  /\ sale = 0 /\ given = None /\ ledger = {} /\ closed = {}
  /\ auto \in BOOLEAN /\ locked \in BOOLEAN /\ guard = "free"
  /\ pc = "idle" /\ seen = Nothing /\ work = {} /\ adjusted = {} /\ review = {}
  /\ there = Nothing /\ report = [s \in 1 .. MaxSales |-> None]
  /\ edits = 0 /\ faults = 0
Fault == faults < MaxFaults /\ faults' = faults + 1
Edit  == edits < MaxEdits /\ edits' = edits + 1

---------------------------------------------------------------------------
\* The website, another command of the program under its guard, a logout.
Changed(o, new) == market' = [market EXCEPT ![o] = new]
Website ==
  /\ Edit
  /\ \E o \in Orders, q \in 0 .. MaxQuantity, i \in Items :
       IF q = 0 THEN market[o] # None /\ Changed(o, None)
       ELSE /\ market[o] # None => i = market[o].item
            /\ Changed(o, [item |-> i, qty |-> q])
  /\ UNCHANGED <<late, carried, sale, given, row, rights, tailer, faults>>
OtherCommand ==
  /\ \/ /\ guard = "free" /\ ~locked /\ Edit /\ guard' = "other"
        /\ UNCHANGED market
     \/ /\ guard = "other" /\ guard' = "free" /\ UNCHANGED edits
        /\ \E o \in Orders, q \in 1 .. MaxQuantity :
             market[o] # None /\ Changed(o, [market[o] EXCEPT !.qty = q])
  /\ UNCHANGED <<late, carried, sale, given, row, auto, locked, tailer, faults>>
Account ==
  /\ Edit /\ locked' = ~locked /\ (locked' => guard = "free")
  /\ UNCHANGED <<book, sale, given, row, auto, guard, tailer, faults>>

---------------------------------------------------------------------------
Sells ==
  /\ given = None /\ sale < MaxSales
  /\ sale' = sale + 1 /\ given' \in Given /\ pc' = "offer"
  /\ UNCHANGED <<book, row, rights, seen, work, adjusted, review, there, report, edits, faults>>

\* What the user is told, all that was given or a part of it; the account is let go.
Sold == {i \in Items : given[i] > 0}
Tells(done, items) ==
  /\ report' = [report EXCEPT ![sale] =
       [gave |-> Sold, adjusted |-> done, review |-> items, there |-> there]]
  /\ guard' = IF guard = "sale" THEN "free" ELSE guard
  /\ given' = None /\ Quiet

\* insert_trade: a refused write may have been kept all the same, and the sale is then
\* known when it is offered again.
Record ==
  /\ pc = "offer"
  /\ \/ /\ sale \in ledger /\ given' = None /\ Quiet
        /\ UNCHANGED <<ledger, guard, report, faults>>
     \/ /\ sale \notin ledger /\ ledger' = ledger \cup {sale} /\ UNCHANGED faults
        /\ IF auto THEN pc' = "claim" /\ UNCHANGED <<given, guard, seen, work, adjusted,
                                                     review, there, report>>
           ELSE Tells({}, Sold)
     \/ /\ sale \notin ledger /\ Fault /\ ledger' \in {ledger, ledger \cup {sale}}
        /\ UNCHANGED <<given, guard, tailer>>
  /\ UNCHANGED <<book, sale, closed, auto, locked, edits>>

\* OrderMutations::begin: the account is busy, locked, or ours.
Claim ==
  /\ pc = "claim"
  /\ IF guard # "free" \/ locked
     THEN Tells({}, Sold)
     ELSE /\ guard' = "sale" /\ pc' = "list"
          /\ UNCHANGED <<given, seen, work, adjusted, review, there, report>>
  /\ UNCHANGED <<book, sale, row, auto, locked, edits, faults>>

\* sold_identity, and plan_adjustments: the one order of an item that was given.
Identified(i) == i \notin Unnamed
Ours(orders, i) == {o \in Orders : orders[o] # None /\ orders[o].item = i}
Unclear(orders) ==
  {i \in Sold : ~Identified(i) \/ \E o, p \in Ours(orders, i) : o # p}
Planned(orders) ==
  {o \in Orders : \E i \in Sold : Identified(i) /\ Ours(orders, i) = {o}}
\* The orders as the market lists them; rows that do not decode are passed over, and
\* all are if the answer does not decode.
List ==
  /\ pc = "list"
  /\ \/ \E orders \in {[o \in Orders |-> IF o \in Odd THEN None ELSE market[o]], Nothing} :
          /\ seen' = orders
          /\ there' = [o \in Orders |-> IF orders[o] = None THEN None ELSE market[o]]
          /\ work' = Planned(orders) /\ review' = Unclear(orders) /\ pc' = "send"
          /\ IF orders = Nothing /\ market # Nothing THEN Fault ELSE UNCHANGED faults
          /\ UNCHANGED <<given, guard, adjusted, report>>
     \/ Fault /\ Tells({}, Sold)
  /\ UNCHANGED <<book, sale, row, auto, locked, edits>>

\* One order after another: its new quantity is set, or it is deleted at zero.
Left(o) == LET i == seen[o].item IN
           IF seen[o].qty > given[i] THEN seen[o].qty - given[i] ELSE 0
Became(o, q) == IF q = 0 \/ market[o] = None THEN None ELSE [market[o] EXCEPT !.qty = q]
Carry(o, q, s) ==
  Changed(o, Became(o, q))
  /\ carried' = carried \cup {[sale |-> s, order |-> o, qty |-> q]}
\* mutation_accepted: only a confirmed change is told as one.
Bug_AnyAnswer(confirmed) == TRUE
MutationAccepted(confirmed) == confirmed
Answered(o, confirmed) ==
  /\ work' = work \ {o}
  /\ IF MutationAccepted(confirmed)
     THEN adjusted' = adjusted \cup {[order |-> o, qty |-> Left(o)]} /\ UNCHANGED review
     ELSE review' = review \cup {seen[o].item} /\ UNCHANGED adjusted
Send(o) ==
  /\ pc = "send" /\ o \in work
  /\ \/ market[o] # None /\ Carry(o, Left(o), sale) /\ Answered(o, TRUE)
        /\ UNCHANGED <<late, faults>>
     \/ market[o] = None /\ Answered(o, FALSE)
        /\ UNCHANGED <<market, carried, late, faults>>
     \/ /\ Fault /\ Answered(o, FALSE)
        /\ \/ market[o] # None /\ Carry(o, Left(o), sale) /\ UNCHANGED late
           \/ /\ late' \in {late, late \cup {[sale |-> sale, order |-> o, qty |-> Left(o)]}}
              /\ UNCHANGED <<market, carried>>
  /\ UNCHANGED <<sale, given, row, rights, pc, seen, there, report, edits>>
Arrives ==
  /\ \E l \in late : market[l.order] # None /\ Carry(l.order, l.qty, l.sale) /\ late' = late \ {l}
  /\ UNCHANGED <<sale, given, row, rights, tailer, edits, faults>>
Finish ==
  /\ pc = "send" /\ work = {}
  /\ closed' = IF adjusted # {} THEN closed \cup {sale} ELSE closed
  /\ Tells(adjusted, review)
  /\ UNCHANGED <<book, sale, ledger, auto, locked, edits, faults>>

\* The program ends and starts again behind what the log already says.
Restart ==
  /\ Fault /\ given' = None /\ guard' = "free" /\ Quiet
  /\ UNCHANGED <<book, sale, row, auto, locked, report, edits>>

Tailer == Record \/ Claim \/ List \/ (\E o \in Orders : Send(o)) \/ Finish
Next == Website \/ OtherCommand \/ Account \/ Sells \/ Tailer \/ Arrives \/ Restart
Spec == Init /\ [][Next]_vars

---------------------------------------------------------------------------
Listing == [item : Items, qty : 1 .. MaxQuantity]
TypeOK ==
  /\ \A o \in Orders : {market[o], seen[o], there[o]} \subseteq Listing \cup {None}
  /\ sale \in 0 .. MaxSales /\ given \in Given \cup {None} /\ closed \subseteq ledger
  /\ guard \in {"free", "sale", "other"} /\ (guard = "sale") = (pc \in {"list", "send"})
  /\ pc = "idle" <=> given = None
  /\ work \subseteq {o \in Orders : seen[o] # None} /\ review \subseteq Items

(* What the user is told about a sale is true: an order named as updated was  *)
(* updated by the market for this sale, and an item that is not named for     *)
(* review was either updated or had no listing the program could read.        *)
ToldTheTruth ==
  \A s \in 1 .. MaxSales : report[s] # None =>
    LET r == report[s] IN
    /\ \A a \in r.adjusted : [sale |-> s, order |-> a.order, qty |-> a.qty] \in carried
    /\ \A i \in r.gave \ r.review : \A o \in Ours(r.there, i) : \E a \in r.adjusted : a.order = o

---------------------------------------------------------------------------
(* What makes it inductive: on the way, what was adjusted was carried out,  *)
(* and an order that was read is still to adjust, adjusted or for review.   *)
OnTheWay ==
  /\ \A a \in adjusted : [sale |-> sale, order |-> a.order, qty |-> a.qty] \in carried
  /\ \A i \in Sold \ review : \A o \in Ours(there, i) :
       o \in work \/ \E a \in adjusted : a.order = o
SaleKept ==
  /\ report = [s \in 1 .. MaxSales |-> report[s]] /\ there = seen
  /\ given = None => pc = "idle"
  /\ IF pc = "send" THEN OnTheWay ELSE adjusted = {} /\ review = {}
  /\ ToldTheTruth
=============================================================================
