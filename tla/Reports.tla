------------------------------ MODULE Reports ------------------------------
(***************************************************************************)
(* What the price reports promise of the trades that stay on the machine,  *)
(* over the module that models them.                                       *)
(***************************************************************************)
EXTENDS Naturals, Sequences

CONSTANTS MaxTrades, MaxClicks, MaxUpsets, TRADES_PER_PASS, MAX_SALES_PER_BATCH, None

VARIABLES ledger, sellable, dbMark, dbConsent, consent, unseen, task, from, plan, request,
  opting, newest, eraser, through, late, held, clicks, upsets, agreed, private, posted, removed, skipped

R == INSTANCE PriceReports
rvars == <<ledger, sellable, dbMark, dbConsent, consent, unseen, task, from, plan, request,
  opting, newest, eraser, through, late, held, clicks, upsets, agreed, private, posted, removed, skipped>>

ASSUME ReportBounds ==
  /\ MaxTrades \in Nat /\ TRADES_PER_PASS \in Nat \ {0} /\ MAX_SALES_PER_BATCH \in Nat \ {0}
  /\ None \notin 0 .. MaxTrades

(* What was posted before an erasure is not posted again after it.           *)
RemovedNotSentAgain == R!RemovedNotSentAgain
(* What was traded after a withdrawal, with neither a pass begun nor an       *)
(* erasure about to move the mark, stays here.                               *)
PrivateStaysLocal == R!PrivateStaysLocal
(* While sharing stays on, every sale gets through, again and again.         *)
AgreedArrives == R!AgreedArrives

----------------------------------------------------------------------------
(* What makes the first two inductive.                                      *)

\* The mark is past a set of trades: no pass that begins now reads one of them.
MarkPast(ts) == ts # {} => dbMark # None /\ \A t \in ts : t <= dbMark

\* A pass works from the mark it read, and so do its batches.
PassPast(ts) ==
  task \in {"read", "deliver", "posting", "settle"} => \A t \in ts : t <= from
BatchesPastFrom ==
  /\ task \in {"deliver", "posting", "settle"} <=> plan # <<>>
  /\ \A i \in 1 .. Len(plan) :
       /\ plan[i].through \in from .. ledger
       /\ plan[i].sales \subseteq sellable /\ \A t \in plan[i].sales : t > from

\* A consent under way moves the mark to a trade that was the newest when sharing was off:
\* nothing was posted or recorded in private since.
ConsentIsLater ==
  opting = "mark" => ~consent /\ \A t \in posted \cup private : t <= newest

\* An erasure about to move the mark read an id no trade that was posted, or recorded in
\* private, is past: it keeps passes out, and consent moves no mark of its own behind it.
ErasureIsLater ==
  eraser = "moving" => \A t \in posted \cup private : t <= through

\* The delivery lock.
OneHolder == ~(R!Passing /\ R!Erasing)

RemovedIsPast ==
  /\ removed \subseteq posted /\ MarkPast(removed) /\ PassPast(removed)

\* Private trades are behind the mark, or sharing is off and will be until the mark moves.
SharingOff ==
  /\ ~consent /\ ~dbConsent /\ opting \in {"idle", "mark"} /\ task \in {"loop", "wait"}
PrivateIsPast ==
  /\ SharingOff \/ (MarkPast(private) /\ PassPast(private))
  /\ posted \cap private = {}

ReportsKept ==
  /\ R!TypeOK /\ OneHolder /\ BatchesPastFrom /\ ConsentIsLater /\ ErasureIsLater
  /\ RemovedIsPast /\ PrivateIsPast
=============================================================================
