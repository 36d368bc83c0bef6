------------------------------- MODULE AutoScan -------------------------------
(***************************************************************************)
(* Inventory scans and the inventory on screen.  The loop of the automatic *)
(* scanner wakes each tick, decides, and walks the game's memory; the tray *)
(* and the user walk it too, one at a time.  A finished walk is recorded   *)
(* as a snapshot and handed to the webview, which swaps it in, or offers   *)
(* it while a listing is being prepared.  Time is in ticks.                *)
(***************************************************************************)
EXTENDS Integers, Sequences

CONSTANTS FirstDelay,    \* FIRST_SCAN_DELAY
          PromptRetry,   \* PROMPT_RETRY
          PromptAttempts,
          Cadence,       \* the user's cadence
          MaxSnapshots,  \* bound: snapshots recorded
          MaxMoves,      \* bound: moves of the game and the user
          MaxFaults      \* bound: walks, records and loads that fail

Ids     == 1 .. MaxSnapshots
Nothing == -1            \* 0 is a scan that was not recorded: it has no identity
Long    == Cadence       \* ages stop here; one that never was is as old

VARIABLES
  pid, pids,       \* the game's process, 0 for none; processes so far
  enabled,         \* AutoScanSettings.enabled
  pc, run, since, before,  \* the loop: its phase, Run, last_attempt_at and the one before, as ages
  held,            \* AutoScanState.held
  scanner,         \* SCAN_ACTIVE, with its owner
  latest,          \* the newest snapshot in the database
  tray, told,      \* tray_rescan, and what each thread is to publish
  flow, pushed, calls,  \* the webview: a listing flow is open, #interactive, calls under way
  shown, offer,    \* nativeSnapshotId, AutoScanController.pending
  loading,         \* handleInventory of the newest generation: the scan, and
                   \* whether it was an offer the user took
  pull,            \* pullInventory: idle, walk, or answered; and its generation is current
  events,          \* inventory-scanned events on their way
  excused,         \* snapshots that were declined, overtaken, or failed to load
  faults, moves

loop    == <<pc, run, since, before>>
native  == <<held, scanner, latest, tray, told>>
webview == <<flow, pushed, calls, shown, offer, loading, pull, events, excused>>
outside == <<pid, pids, enabled, moves>>
vars    == <<loop, native, webview, outside, faults>>

NoRun == [pid |-> 0, age |-> 0, attempts |-> 0, succeeded |-> FALSE]
NoLoad == [id |-> Nothing, taken |-> FALSE]
Init ==
  /\ pid \in 0 .. 1 /\ pids = pid /\ enabled \in BOOLEAN
  /\ pc = "sleep" /\ run = NoRun /\ since = Long /\ before = Long
  /\ held = FALSE /\ scanner = "none" /\ latest = 0 /\ tray = "idle"
  /\ told = [t \in {"loop", "tray"} |-> Nothing]
  /\ flow = FALSE /\ pushed = FALSE /\ calls = <<FALSE>> /\ shown = 0 /\ offer = Nothing
  /\ loading = NoLoad /\ pull = [at |-> "idle", current |-> TRUE, id |-> Nothing]
  /\ events = <<>> /\ excused = {} /\ faults = 0 /\ moves = 0

Fault == faults < MaxFaults /\ faults' = faults + 1
Older(age) == IF age < Long THEN age + 1 ELSE age
Aged(r)    == [r EXCEPT !.age = Older(r.age)]

----------------------------------------------------------------------------
\* decide, for an enabled and unheld tick with a game.  The run is one just
\* detected, or the one that is tracked.
Tracked == IF pid \notin {0, run.pid} THEN [NoRun EXCEPT !.pid = pid] ELSE Aged(run)
Prompt(r) == ~r.succeeded /\ r.attempts < PromptAttempts
Due(r, age) == IF Prompt(r) THEN r.age >= FirstDelay /\ age >= PromptRetry ELSE age >= Cadence
Scans(r, age) == enabled /\ ~held /\ pid # 0 /\ r.pid = pid /\ Due(r, age)

\* A tick passes; a scan under way elsewhere is skipped without an attempt.
\* Attempts past the prompt ones are all alike and not counted on.
Tick ==
  /\ pc = "sleep"
  /\ run' = Tracked /\ since' = Older(since) /\ before' = Long
  /\ pc' = IF Scans(run', since') THEN "try" ELSE "sleep"
  /\ UNCHANGED <<native, webview, outside, faults>>
Try ==
  /\ pc = "try"
  /\ IF scanner # "none" THEN pc' = "sleep" /\ UNCHANGED <<run, since, before>>
     ELSE /\ run' = [run EXCEPT !.attempts = IF @ > PromptAttempts THEN @ ELSE @ + 1]
          /\ before' = since /\ since' = 0 /\ pc' = "claim"
  /\ UNCHANGED <<native, webview, outside, faults>>
\* PlanGuard::acquire; another scan that began after the look is an error.
Claim ==
  /\ pc = "claim"
  /\ IF scanner # "none" THEN pc' = "sleep" /\ UNCHANGED scanner
     ELSE pc' = "walk" /\ scanner' = "loop"
  /\ UNCHANGED <<run, since, before, held, latest, tray, told, webview, outside, faults>>
\* The walk takes time and may fail.
Walk ==
  /\ pc = "walk"
  /\ \/ pc' = "judge" /\ UNCHANGED <<scanner, faults>>
     \/ /\ pc' = "sleep" /\ scanner' = "none"
        /\ IF pid = run.pid THEN Fault ELSE UNCHANGED faults
  /\ \/ UNCHANGED <<run, since, before>>
     \/ run' = Aged(run) /\ since' = Older(since) /\ before' = Older(before)
  /\ UNCHANGED <<held, latest, tray, told, webview, outside>>
\* A hold that was opened during the walk gives the attempt back.
Judge ==
  /\ pc = "judge"
  /\ IF held
     THEN /\ pc' = "sleep" /\ scanner' = "none"
          /\ run' = [run EXCEPT !.attempts = @ - 1] /\ since' = before
     ELSE pc' = "record" /\ UNCHANGED <<scanner, run, since>>
  /\ UNCHANGED <<before, held, latest, tray, told, webview, outside, faults>>

\* record_game_scan: without its allowance a scan has no identity, although
\* its row may be there.
Recorded(id) ==
  \/ id = latest + 1 /\ latest < MaxSnapshots /\ latest' = id /\ UNCHANGED <<excused, faults>>
  \/ /\ id = 0 /\ Fault
     /\ latest' \in {latest, latest + 1} \cap 0 .. MaxSnapshots
     /\ excused' = excused \cup {latest'}
Record ==
  /\ pc = "record" /\ pc' = "publish" /\ scanner' = "none"
  /\ \E id \in 0 .. MaxSnapshots : Recorded(id) /\ told' = [told EXCEPT !["loop"] = id]
  /\ run' = [run EXCEPT !.succeeded = TRUE]
  /\ UNCHANGED <<since, before, held, tray, flow, pushed, calls, shown, offer, loading,
                 pull, events, outside>>
\* publish_scan, of the loop or, after it refreshed its menu, of the tray.
Publish(t) ==
  /\ told[t] # Nothing /\ told' = [told EXCEPT ![t] = Nothing]
  /\ events' = Append(events, told[t])
  /\ IF t = "loop" THEN pc' = "sleep" /\ UNCHANGED tray ELSE tray' = "idle" /\ UNCHANGED pc
  /\ UNCHANGED <<run, since, before, held, scanner, latest, flow, pushed, calls, shown, offer,
                 loading, pull, excused, outside, faults>>

TrayScan ==
  /\ \/ /\ tray = "idle" /\ moves < MaxMoves /\ moves' = moves + 1 /\ pid # 0 /\ scanner = "none"
        /\ tray' = "walk" /\ scanner' = "tray" /\ UNCHANGED <<latest, told, excused, faults>>
     \/ /\ tray = "walk" /\ scanner' = "none" /\ UNCHANGED moves
        /\ \/ Fault /\ tray' = "idle" /\ UNCHANGED <<latest, told, excused>>
           \/ /\ tray' = "publish"
              /\ \E id \in 0 .. MaxSnapshots : Recorded(id) /\ told' = [told EXCEPT !["tray"] = id]
  /\ UNCHANGED <<loop, held, pid, pids, enabled, flow, pushed, calls, shown, offer, loading,
                 pull, events>>

----------------------------------------------------------------------------
\* handleInventory begins: a new generation, so whatever was under way has no
\* effect any more, but an offer that was being taken is gone.
Begins(id, taken) ==
  /\ loading' = [id |-> id, taken |-> taken]
  /\ pull' = [pull EXCEPT !.current = FALSE]
  /\ offer' = IF loading.taken /\ offer = loading.id THEN Nothing ELSE offer

\* handleScan: swapped in, or offered during a listing flow or if the user
\* chose so.  Bug_Dropped forgets what comes during a listing flow.
Bug_Dropped(id) == IF flow THEN UNCHANGED <<offer, loading, pull>> ELSE Begins(id, FALSE)
Handed(id) == \/ offer' = id /\ UNCHANGED <<loading, pull>>
              \/ ~flow /\ Begins(id, FALSE)
HandleScan ==
  /\ events # <<>> /\ events' = Tail(events) /\ Handed(Head(events))
  \* Handed over after a newer one was recorded, it takes its place.
  /\ excused' = IF Head(events) < latest THEN excused \cup {latest} ELSE excused
  /\ UNCHANGED <<loop, native, flow, pushed, calls, shown, outside, faults>>

\* The load ends: on screen, or with an error that is reported and not thrown.
\* An offer the screen has caught up with is dismissed.
Load ==
  /\ loading # NoLoad /\ loading' = NoLoad
  /\ \/ /\ shown' = loading.id /\ UNCHANGED <<excused, faults>>
        /\ offer' = IF \/ loading.taken /\ offer = loading.id
                       \/ loading.id # 0 /\ offer \in 1 .. loading.id THEN Nothing ELSE offer
     \/ /\ Fault /\ excused' = excused \cup {loading.id} /\ UNCHANGED shown
        /\ offer' = IF loading.taken /\ offer = loading.id THEN Nothing ELSE offer
  /\ UNCHANGED <<loop, native, flow, pushed, calls, pull, events, outside>>

\* pullInventory: the user's own scan.
Pull ==
  /\ \/ /\ pull.at = "idle" /\ moves < MaxMoves /\ moves' = moves + 1 /\ pid # 0
        /\ IF scanner = "none" THEN scanner' = "user" /\ pull' = [at |-> "walk", current |-> TRUE, id |-> Nothing]
           ELSE UNCHANGED scanner /\ pull' = pull
        /\ loading' = NoLoad
        /\ offer' = IF loading.taken /\ offer = loading.id THEN Nothing ELSE offer
        /\ excused' = IF loading = NoLoad THEN excused ELSE excused \cup {loading.id}
        /\ UNCHANGED <<latest, faults>>
     \/ /\ pull.at = "walk" /\ scanner' = "none" /\ UNCHANGED <<moves, loading, offer>>
        /\ \/ Fault /\ pull' = [pull EXCEPT !.at = "idle"] /\ UNCHANGED <<latest, excused>>
           \/ \E id \in 0 .. MaxSnapshots : Recorded(id) /\ pull' = [pull EXCEPT !.at = "answered", !.id = id]
     \/ /\ pull.at = "answered" /\ UNCHANGED <<moves, scanner, latest, faults>>
        /\ IF pull.current
           THEN /\ loading' = [id |-> pull.id, taken |-> FALSE] /\ UNCHANGED excused
                /\ offer' = IF loading.taken /\ offer = loading.id THEN Nothing ELSE offer
           ELSE UNCHANGED <<loading, offer>> /\ excused' = excused \cup {pull.id}
        /\ pull' = [at |-> "idle", current |-> TRUE, id |-> Nothing]
  /\ UNCHANGED <<loop, held, tray, told, flow, pushed, calls, shown, events, pid, pids, enabled>>

\* loadPending, and dismiss.
Offer ==
  /\ offer # Nothing /\ moves < MaxMoves /\ moves' = moves + 1
  /\ \/ /\ Begins(offer, TRUE)
        /\ excused' = IF offer < latest THEN excused \cup {latest} ELSE excused
     \/ offer' = Nothing /\ excused' = excused \cup {offer} /\ UNCHANGED <<loading, pull>>
  /\ UNCHANGED <<loop, native, flow, pushed, calls, shown, events, pid, pids, enabled, faults>>

\* setInteractive pushes a change; the command sets the hold.
Flow ==
  /\ moves < MaxMoves /\ moves' = moves + 1 /\ flow' = ~flow
  /\ pushed' = flow' /\ calls' = Append(calls, flow')
  /\ UNCHANGED <<loop, native, shown, offer, loading, pull, events, excused, pid, pids, enabled, faults>>
SetHold ==
  /\ calls # <<>> /\ held' = Head(calls) /\ calls' = Tail(calls)
  /\ UNCHANGED <<loop, scanner, latest, tray, told, flow, pushed, shown, offer, loading, pull,
                 events, excused, outside, faults>>
\* The page is reloaded: it restores the last scan it saved and, since it
\* inherits the process' hold, clears it (Bug_KeepsHold does not).
Bug_KeepsHold == UNCHANGED calls
Cleared == calls' = Append(calls, FALSE)
Reload ==
  /\ moves < MaxMoves /\ moves' = moves + 1 /\ Cleared
  /\ flow' = FALSE /\ pushed' = FALSE /\ offer' = Nothing /\ loading' = NoLoad
  /\ pull' = [at |-> IF pull.at = "walk" THEN "walk" ELSE "idle", current |-> FALSE, id |-> Nothing]
  /\ events' = <<>> /\ excused' = excused \cup {latest}
  /\ UNCHANGED <<loop, native, shown, pid, pids, enabled, faults>>

Outside ==
  /\ moves < MaxMoves /\ moves' = moves + 1
  /\ \/ pid = 0 /\ pid' = pids + 1 /\ pids' = pids + 1 /\ UNCHANGED enabled
     \/ pid # 0 /\ pid' = 0 /\ UNCHANGED <<pids, enabled>>
     \/ enabled' = ~enabled /\ UNCHANGED <<pid, pids>>
  /\ UNCHANGED <<loop, native, webview, faults>>

Scan == Try \/ Claim \/ Walk \/ Judge \/ Record \/ Publish("loop")
User == Pull \/ Offer \/ Flow \/ Reload \/ TrayScan
Next == \/ Tick \/ Scan \/ Publish("tray") \/ HandleScan \/ Load \/ SetHold
        \/ User \/ Outside
Spec == Init /\ [][Next]_vars

TypeOK ==
  /\ pid \in 0 .. pids /\ run.attempts \in 0 .. PromptAttempts + 1
  /\ latest \in 0 .. MaxSnapshots /\ shown \in 0 .. MaxSnapshots
  /\ {offer, loading.id, pull.id} \subseteq {Nothing, 0} \cup Ids
  /\ (scanner = "loop") = (pc \in {"walk", "judge", "record"})
  /\ (scanner = "user") = (pull.at = "walk") /\ (scanner = "tray") = (tray = "walk")
  /\ \A t \in {"loop", "tray"} : told[t] \in {Nothing, 0} \cup Ids

(* When nothing is under way, the newest snapshot is on screen or offered:    *)
(* a listing names the snapshot on screen and is refused when it is not the   *)
(* newest.  Excused are a scan the user dismissed, one that failed to load,   *)
(* and one that an older scan, handed over or taken later, displaced.         *)
Quiet == /\ events = <<>> /\ loading = NoLoad /\ pull.at = "idle"
         /\ \A t \in {"loop", "tray"} : told[t] = Nothing
LatestIsAtHand == Quiet => latest \in {0, shown, offer} \cup excused

(* An offer stays until the user takes it or declines it, the screen has      *)
(* caught up, or a newer one replaces it: a scan that could not be loaded is  *)
(* still there to be tried again.                                             *)
OfferKept ==
  [][offer' # offer /\ offer \in Ids
       => offer' > offer \/ shown' >= offer \/ moves' # moves]_vars

(* A game that stays up is scanned, whatever interrupted earlier walks: no    *)
(* hold outlives its flow, no process is watched that is gone.                *)
Wanted == enabled /\ pid # 0 /\ ~flow /\ latest < MaxSnapshots
SnapshotArrives == []<>(Wanted => run.pid = pid /\ run.succeeded)
PullEnds == Pull /\ pull.at # "idle"
TrayEnds == TrayScan /\ tray = "walk"
LiveSpec == /\ Spec /\ WF_vars(Tick \/ Scan) /\ WF_vars(SetHold)
            /\ WF_vars(PullEnds) /\ WF_vars(TrayEnds)
=============================================================================
