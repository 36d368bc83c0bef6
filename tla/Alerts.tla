------------------------------- MODULE Alerts -------------------------------
(***************************************************************************)
(* What the watches promise, over the module that models them: the pass    *)
(* and the stream announce from copies of the table, and what keeps them   *)
(* apart is the checkpoint of the row id, not the copy.                    *)
(***************************************************************************)
EXTENDS Naturals

CONSTANTS MAX_WATCHES, Rearm, MaxAdds, MaxEvents, None

VARIABLES rows, mark, enabled, met, pass, stream, heard, nagged, added, events

W == INSTANCE Watches
wvars == <<rows, mark, enabled, met, pass, stream, heard, nagged, added, events>>

ASSUME PeriodsAndBounds == Rearm \in Nat /\ MaxAdds \in Nat /\ MaxEvents \in Nat

(* A watch is announced once in REARM_AFTER, whichever of the pass and the   *)
(* stream saw it, from whatever copy, and whatever failed or restarted in    *)
(* between (poll.rs:10).                                                     *)
AlertsSpaced == W!AlertsSpaced

(* A watch that stays satisfied, in a category that stays on, is announced   *)
(* again and again (poll.rs:10-11, "a watch that stays satisfied re-arms     *)
(* rather than nags").                                                       *)
SatisfiedIsAlerted == W!SatisfiedIsAlerted

----------------------------------------------------------------------------
(* What makes AlertsSpaced inductive.                                       *)

\* Every copy of a watch there is: the row, and what the pass and the stream hold.
Copies == rows \cup pass.todo \cup stream.cache
            \cup IF stream.phase \in {"notify", "record"} THEN {stream.hold} ELSE {}

\* A row id may come back for another watch, but the copies of one watch agree on it,
\* and no copy is of a watch yet to be added.
CopiesAgree == \A v, w \in Copies : v.serial = w.serial => v.id = w.id
AllWereAdded == /\ \A w \in Copies : w.serial <= added
                /\ \A s \in W!Serials : s > added => heard[s] = Rearm

\* While an alert is fresh, the checkpoint of the watch's row is as fresh: taken by
\* that alert or, the id having come back, by a later one.
MarkHolds == \A w \in Copies : heard[w.serial] = Rearm \/ mark[w.id] <= heard[w.serial]

AlertsKept == W!TypeOK /\ CopiesAgree /\ AllWereAdded /\ MarkHolds /\ AlertsSpaced
=============================================================================
