------------------------ MODULE MCBatchesReportsScans ------------------------
(* One run for three components that share nothing here: `part` says whether *)
(* the behaviour is one of the listing executor, over one batch after        *)
(* another, one of the price reports, or one of the inventory scans.         *)
EXTENDS MCListingPlan, Reports, ScanPromise

VARIABLE part
all == <<part, vars, rvars, svars>>

\* One item on one key, with and without an order of the account's there.
EachMode == { [i \in Items |-> Item(k1, tb, m)] : m \in {"none", "new", "existing"} }

AllInit == /\ part \in {"batches", "reports", "scans"} /\ Init /\ R!Init /\ S!Init
           /\ part # "batches" => journal = Absent /\ market = [k \in Keys |-> NoOrders]
           /\ enabled /\ (part # "scans" => pid = 0)
BatchMoves  == part = "batches" /\ Next   /\ UNCHANGED <<part, rvars, svars>>
ReportMoves == part = "reports" /\ R!Next /\ UNCHANGED <<part, vars, svars>>
ScanMoves   == part = "scans"   /\ S!Next /\ UNCHANGED <<part, vars, rvars>>
Reports(A) == part = "reports" /\ A
Scans(A)   == part = "scans" /\ A
AllSpec ==
  /\ AllInit /\ [][BatchMoves \/ ReportMoves \/ ScanMoves]_all
  /\ \A c \in PlanCallers : WF_vars(part = "batches" /\ CommandStep(c))
  /\ \A e \in Editors : WF_vars(part = "batches" /\ EditEnd(e))
  /\ WF_rvars(Reports(R!Sending)) /\ WF_rvars(Reports(R!Choosing))
  /\ WF_rvars(Reports(R!Collector)) /\ WF_rvars(Reports(R!Removing))
  /\ SF_rvars(Reports(R!EraseLocks))
  /\ WF_svars(Scans(S!Tick \/ S!Scan)) /\ WF_svars(Scans(S!SetHold))
  /\ WF_svars(Scans(S!PullEnds)) /\ WF_svars(Scans(S!TrayEnds))
=============================================================================
