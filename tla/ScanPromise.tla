----------------------------- MODULE ScanPromise -----------------------------
(***************************************************************************)
(* What the automatic scanner and the webview promise together: a listing  *)
(* names the inventory on screen, and the newest one can be brought there. *)
(* AutoScan is the scanner and the webview that have to keep it.           *)
(***************************************************************************)
EXTENDS Integers, Sequences

CONSTANTS FirstDelay, PromptRetry, PromptAttempts, Cadence, MaxSnapshots, MaxMoves, MaxFaults

VARIABLES
  pid, pids, enabled, scanning, run, since, before, hold, scanner, latest, tray, told,
  flow, pushed, calls, shown, offer, loading, pull, events, excused, faults, moves

S == INSTANCE AutoScan WITH pc <- scanning, held <- hold
svars == <<pid, pids, enabled, scanning, run, since, before, hold, scanner, latest, tray, told,
  flow, pushed, calls, shown, offer, loading, pull, events, excused, faults, moves>>

ASSUME SnapshotsAreNumbered == MaxSnapshots \in Nat

(* When nothing is under way, the newest snapshot is on screen or offered,   *)
(* or was declined, displaced by an older one, or could not be loaded.       *)
LatestIsAtHand == S!LatestIsAtHand

(* A game that stays up is scanned, whatever interrupted earlier walks.      *)
SnapshotArrives == S!SnapshotArrives

----------------------------------------------------------------------------
(* What makes the first inductive.                                          *)

\* No snapshot is anywhere before it is recorded.
Recorded == {S!Nothing} \cup 0 .. latest
NothingUnrecorded ==
  /\ latest \in Nat /\ shown \in 0 .. latest /\ offer \in Recorded
  /\ loading \in {S!NoLoad} \cup [id : 0 .. latest, taken : BOOLEAN]
  /\ pull \in [at : {"idle", "walk", "answered"}, current : BOOLEAN, id : Recorded]
  /\ pull.at = "answered" => pull.id \in 0 .. latest
  /\ told \in [{"loop", "tray"} -> Recorded]
  /\ events \in Seq(Nat) /\ \A i \in 1 .. Len(events) : events[i] <= latest

\* The newest snapshot is at hand, excused, or on its way.
Excused == latest = 0 \/ latest \in excused
OnItsWay ==
  \/ \E t \in {"loop", "tray"} : told[t] = latest
  \/ \E i \in 1 .. Len(events) : events[i] = latest
  \/ loading.id = latest
  \/ pull.at = "answered" /\ pull.id = latest
LatestIsSomewhere == Excused \/ latest \in {shown, offer} \/ OnItsWay

\* A scan of the user's own whose answer will count is the one load there is.
OneLoad == pull.at # "idle" /\ pull.current => loading = S!NoLoad

\* With the newest on screen, what is loaded over it is no older.
NotOverwritten ==
  latest = shown => \/ Excused \/ loading = S!NoLoad \/ loading.id = latest
\* An answer that counts was recorded after what is on screen.
AnswerIsNewer ==
  pull.at = "answered" /\ pull.current => Excused \/ latest # shown

ScansKept ==
  NothingUnrecorded /\ LatestIsSomewhere /\ OneLoad /\ NotOverwritten /\ AnswerIsNewer
=============================================================================
