-------------------------- MODULE MCCallsBatchAlerts --------------------------
(* One run for three components that share nothing here: `part` says        *)
(* whether the behaviour is one of the governor, with three threads over    *)
(* two permits, one of the listing executor over a batch of two items, or   *)
(* one of a single watch.                                                   *)
EXTENDS MCGovernor, JournalPromise, Alerts

CONSTANTS p1, e1, k1, k2, s1, ta, tb, Nobody, NoOrder, MaxUserEdits, MaxSends

VARIABLES part, guard, unlocked, content, nextPlan, lpc, mem, idx, seen, result,
  waiting, answer, market, sends, dropped, lcrashes, edits

Item(k, t, m) == [key |-> k, terms |-> t, mode |-> m, slot |-> s1, was |-> ta]
\* A batch that only fills gaps and one that also overwrites a reviewed order.
TwoItems == { <<Item(k1, tb, "none"), Item(k2, tb, "new")>>,
              <<Item(k1, tb, "existing"), Item(k1, ta, "none")>> }
NoneOrAll == { [k \in {k1, k2} |-> [s \in {s1} |-> t]] : t \in {NoOrder, ta} }

L == INSTANCE ListingPlan WITH
  PlanCallers <- {p1}, Editors <- {e1}, Keys <- {k1, k2}, Slots <- {s1},
  Terms <- {ta, tb}, InitialOrders <- NoneOrAll, Batches <- TwoItems,
  MaxCrashes <- 1, pc <- lpc, crashes <- lcrashes
lvars == <<guard, unlocked, journal, content, nextPlan, lpc, mem, idx, seen, result,
  waiting, answer, market, wire, sends, applied, dropped, lcrashes, edits>>
all == <<part, vars, lvars, wvars>>

AllInit == /\ part \in {"calls", "batch", "alerts"} /\ Init /\ L!Init /\ W!Init
           /\ part # "batch" => journal = Absent /\ market = CHOOSE m \in NoneOrAll : TRUE
CallMoves  == part = "calls"  /\ Next   /\ UNCHANGED <<part, lvars, wvars>>
BatchMoves == part = "batch"  /\ L!Next /\ UNCHANGED <<part, vars, wvars>>
WatchMoves == part = "alerts" /\ W!Next /\ UNCHANGED <<part, vars, lvars>>
\* A batch that has ended, or has used up its bounds, is no deadlock.
BatchRests == part = "batch" /\ UNCHANGED all
AllSpec ==
  /\ AllInit /\ [][CallMoves \/ BatchMoves \/ WatchMoves \/ BatchRests]_all
  /\ WF_vars(part = "calls" /\ Tick)
  /\ \A t \in Threads : WF_vars(part = "calls" /\ Send(t))
  /\ WF_wvars(part = "alerts" /\ W!PassMoves)
  /\ WF_wvars(part = "alerts" /\ W!StreamMoves)
  /\ WF_wvars(part = "alerts" /\ W!Tick)
=============================================================================
