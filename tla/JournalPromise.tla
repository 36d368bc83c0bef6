--------------------------- MODULE JournalPromise ---------------------------
(***************************************************************************)
(* What the bulk executor promises of its journal, in the three places it  *)
(* can be seen: the file, the requests on their way and what the market    *)
(* has carried out.  ListingPlan is the executor that has to keep it.      *)
(***************************************************************************)
EXTENDS Naturals

CONSTANTS
  BatchSize,     \* items of a batch
  MaxPlans,      \* bound: batches submitted
  Absent,        \* no journal file
  Unreadable     \* a journal file that does not parse

VARIABLES
  journal,    \* pending_plan.json
  wire,       \* requests sent and not yet handled by the market
  applied     \* times the market carried an item out

Items   == 1 .. BatchSize
PlanIds == 1 .. MaxPlans
Saved   == journal \notin {Absent, Unreadable}

\* What the journal calls confirmed is what the market did: ok was carried out
\* once and error was not, and no request for either is still on its way.
JournalTellsTheTruth ==
  Saved => \A i \in Items :
    LET p == journal.plan IN
    /\ journal.status[i] = "ok" => applied[p][i] = 1
    /\ journal.status[i] = "error" => applied[p][i] = 0
    /\ journal.status[i] \in {"ok", "error"} => ~ \E r \in wire : r.plan = p /\ r.item = i

Flying == {<<r.plan, r.item>> : r \in wire}
Landed == {o \in PlanIds \X Items : applied[o[1]][o[2]] > 0}
Lands  == INSTANCE OfferOnce WITH Offers <- PlanIds \X Items, flying <- Flying, landed <- Landed
\* The executor with its journal implements the promise of OfferOnce: an item whose
\* request has landed, or still may, is not offered again.
OffersOnce == Lands!Spec
=============================================================================
