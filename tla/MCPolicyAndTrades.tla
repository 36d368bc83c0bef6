------------------------- MODULE MCPolicyAndTrades -------------------------
(* One run for two components that share nothing here: `part` says whether *)
(* the behaviour is one of the trade log or one of the access policy.      *)
EXTENDS TradeLog

CONSTANTS open, paused, MaxRevision, Bodies, MaxKey, MaxServes, MaxFailures, MaxCrashes

VARIABLES part, served, file, build, pc, home, current, etag, raw, tag, persistenceFailed,
  best, inherited, serves, failures, crashes

P == INSTANCE AccessPolicy
pvars == <<served, file, build, pc, home, current, etag, raw, tag, persistenceFailed, best,
           inherited, serves, failures, crashes>>
all == <<part, vars, pvars>>

\* A revision and a key to begin with, and a None that is no envelope.
ASSUME PolicyConstants ==
  /\ MaxRevision \in Nat \ {0} /\ MaxKey \in Nat \ {0} /\ None \notin P!Envelopes
  /\ MaxServes \in Nat /\ MaxFailures \in Nat /\ MaxCrashes \in Nat

BothInit == /\ part \in {"policy", "trades"} /\ P!Init /\ Init
            /\ part = "trades" => served = CHOOSE e \in P!Envelopes : TRUE
PolicyMoves == part = "policy" /\ P!Next /\ UNCHANGED <<part, vars>>
TradeMoves  == part = "trades" /\ Next   /\ UNCHANGED <<part, pvars>>
BothSpec == /\ BothInit /\ [][PolicyMoves \/ TradeMoves]_all
            /\ WF_pvars(part = "policy" /\ P!PolicyThread)
            /\ WF_vars(part = "trades" /\ Tailer)

\* The properties of the access policy, stated in its module.
NewestInForce == P!NewestInForce
CatchesUp == P!CatchesUp
=============================================================================
