-------------------------- MODULE MCCallsAndWatches --------------------------
(* One run for two components that share nothing here: `part` says whether *)
(* the behaviour is one of the governor or one of the watches.             *)
EXTENDS MCGovernor, Alerts

VARIABLE part
all == <<part, vars, wvars>>

BothInit == part \in {"calls", "watches"} /\ Init /\ W!Init
CallMoves  == part = "calls"   /\ Next   /\ UNCHANGED <<part, wvars>>
WatchMoves == part = "watches" /\ W!Next /\ UNCHANGED <<part, vars>>
BothSpec == BothInit /\ [][CallMoves \/ WatchMoves]_all
=============================================================================
