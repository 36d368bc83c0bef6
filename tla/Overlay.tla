------------------------------- MODULE Overlay -------------------------------
(***************************************************************************)
(* The reward overlay and the in-game notices.  A line of the game's log,  *)
(* the shortcut or a preview puts a reward card over the game; a close     *)
(* line, a timer or the settings take it down; a notice gives way to it.   *)
(* Every thread works on the same surfaces: the log reader, the capture    *)
(* pass, the user's commands, the timers and the thread of the notices.    *)
(* What the recognition reads is an input: all the names, some, or none.   *)
(***************************************************************************)
EXTENDS Naturals, Sequences, FiniteSets

CONSTANTS None,          \* no card, no notice
          MaxCards,      \* bound: cards presented
          MaxScreens,    \* bound: reward screens of the game
          MaxSlots,      \* slots counted at most (4)
          MaxEvents      \* bound: notices (the code caps them by the hour),
                         \* changes of the settings, and displays that are
                         \* given up and still appear

VARIABLES game,      \* the reward screen: its number, open or not, slot lines
          unread,    \* log lines the reader has not come to
          marker,    \* last_reward_marker: the screen last captured for
          expected,  \* expected_slots
          enabled,   \* settings.enabled
          busy,      \* lifecycle.busy
          current,   \* lifecycle.current
          result,    \* current_result
          card,      \* what the reward surface shows
          pc,        \* the capture pass and the user's preview
          job,       \* the card each is about
          cards,     \* identifiers given out
          timers,    \* sleeping hide timers, by card
          hiding,    \* hide_overlay under way: the steps left
          note,      \* what the notice surface shows
          gen,       \* NoticeState.generation
          noter,     \* the thread that delivers notices
          notices,   \* notices counted in this hour
          asleep, waking, lowering,  \* notice timers, by generation
          late,      \* displays that were given up and are still under way
          lates, clicks

Ids     == 1 .. MaxCards
Workers == {"pass", "user"}
Log     == 0
User    == MaxCards + 1
Hiders  == Ids \cup {Log, User}   \* a timer hides under its card's number

screen == <<game, unread, marker, expected>>
shown  == <<current, result, card>>
threads == <<pc, job, cards, busy>>
notesV == <<note, gen, noter, notices, asleep, waking, lowering>>
counts == <<lates, clicks>>
events == notices + clicks + lates
vars   == <<screen, enabled, shown, threads, timers, hiding, notesV, late, counts>>

Init ==
  /\ game = [number |-> 0, open |-> FALSE, slots |-> 0] /\ unread = <<>>
  /\ marker = 0 /\ expected = 0
  /\ enabled = TRUE /\ busy = FALSE
  /\ current = None /\ result = None /\ card = None
  /\ pc = [w \in Workers |-> "idle"] /\ job = [w \in Workers |-> 0] /\ cards = 0
  /\ timers = {} /\ hiding = [h \in Hiders |-> 0]
  /\ note = None /\ gen = 0 /\ noter = "idle" /\ notices = 0
  /\ asleep = {} /\ waking = {} /\ lowering = {}
  /\ late = [card |-> None, note |-> FALSE] /\ lates = 0 /\ clicks = 0

Goto(w, p) == pc' = [pc EXCEPT ![w] = p]

\* CaptureLifecycle: one pass at a time.  trigger_capture starts the thread, or
\* is refused while the overlay is off or a pass is under way.
MayCapture == enabled /\ ~busy /\ cards < MaxCards
Capture ==
  IF MayCapture
  THEN /\ busy' = TRUE /\ cards' = cards + 1
       /\ job' = [job EXCEPT !["pass"] = cards + 1] /\ Goto("pass", "reading")
  ELSE UNCHANGED threads
\* finish: on every way out of the pass.
Finished == busy' = FALSE

----------------------------------------------------------------------------
\* The game writes its log; the reader takes it line by line.
Screen ==
  /\ \/ /\ ~game.open /\ game.number < MaxScreens
        /\ game' = [number |-> game.number + 1, open |-> TRUE, slots |-> 0]
        /\ unread' = Append(unread, "reward")
     \/ /\ game.open /\ game.slots < MaxSlots
        /\ game' = [game EXCEPT !.slots = @ + 1] /\ unread' = Append(unread, "slot")
     \/ /\ game.open
        /\ game' = [game EXCEPT !.open = FALSE] /\ unread' = Append(unread, "close")
  /\ UNCHANGED <<marker, expected, enabled, shown, threads, timers, hiding, notesV, late, counts>>

\* The line a reader comes to; hide_overlay is entered by its own steps.
Seen(line) == /\ unread # <<>> /\ Head(unread) = line /\ hiding[Log] = 0
              /\ unread' = Tail(unread)
\* The line that opens a screen is the marker, one number a screen.
LineScreen ==
  game.number - Cardinality({i \in 2 .. Len(unread) : unread[i] = "reward"})
LogLine ==
  /\ \/ /\ Seen("reward") /\ marker' = LineScreen /\ expected' = 0 /\ Capture
        /\ UNCHANGED hiding
     \/ /\ Seen("slot")
        /\ expected' = IF expected < MaxSlots THEN expected + 1 ELSE expected
        /\ UNCHANGED <<marker, threads, hiding>>
     \/ /\ Seen("close") /\ UNCHANGED <<marker, threads>>
        /\ IF enabled THEN expected' = 0 /\ hiding' = [hiding EXCEPT ![Log] = 3]
                      ELSE UNCHANGED <<expected, hiding>>
  /\ UNCHANGED <<game, enabled, shown, timers, notesV, late, counts>>

\* handle_log_snapshot: the end of the log read whole, past the reader's place.
Snapshot ==
  /\ hiding[Log] = 0 /\ game.open /\ game.slots > 0 /\ marker # game.number
  /\ marker' = game.number /\ expected' = game.slots /\ Capture
  /\ UNCHANGED <<game, unread, enabled, shown, timers, hiding, notesV, late, counts>>

\* The shortcut, or "scan now".
Shortcut ==
  /\ MayCapture /\ Capture
  /\ UNCHANGED <<screen, enabled, shown, timers, hiding, notesV, late, counts>>

----------------------------------------------------------------------------
\* hide_overlay: the surface, the identity with its token, the stored result.
Hide(h) ==
  /\ hiding[h] > 0 /\ hiding' = [hiding EXCEPT ![h] = @ - 1]
  /\ card' = IF hiding[h] = 3 THEN None ELSE card
  \* A surface serves its commands in order: the show given up goes first.
  /\ late' = IF hiding[h] = 3 THEN [late EXCEPT !.card = None] ELSE late
  /\ current' = IF hiding[h] = 2 THEN None ELSE current
  /\ result' = IF hiding[h] = 1 THEN None ELSE result
  /\ UNCHANGED <<screen, enabled, threads, timers, notesV, counts>>

\* schedule_overlay_hide, and the thread of a preview.
Timer(i) ==
  /\ i \in timers /\ timers' = timers \ {i}
  /\ hiding' = IF current = i THEN [hiding EXCEPT ![i] = 3] ELSE hiding
  /\ UNCHANGED <<screen, enabled, shown, threads, notesV, late, counts>>

----------------------------------------------------------------------------
\* capture_and_recognize.  Every name read, or some of the expected ones, goes
\* on to be shown; otherwise the pass ends with an error.
Reads ==
  /\ pc["pass"] = "reading"
  /\ \/ Goto("pass", "claim") /\ UNCHANGED busy
     \/ expected > 0 /\ Goto("pass", "claim part") /\ UNCHANGED busy
     \/ Goto("pass", "idle") /\ Finished
  /\ UNCHANGED <<screen, enabled, shown, job, cards, timers, hiding, notesV, late, counts>>

\* preview_relic_overlay stores its result first and then claims the screen.
Preview ==
  /\ pc["user"] = "idle" /\ hiding[User] = 0 /\ cards < MaxCards
  /\ cards' = cards + 1 /\ job' = [job EXCEPT !["user"] = cards + 1]
  /\ result' = cards + 1 /\ Goto("user", "claim")
  /\ UNCHANGED <<screen, enabled, busy, current, card, timers, hiding, notesV, late, counts>>

\* lifecycle.present, and for a pass the result after it.
Claim(w) ==
  /\ pc[w] \in {"claim", "claim part"} /\ current' = job[w]
  /\ Goto(w, IF w = "user" THEN "bump"
             ELSE IF pc[w] = "claim" THEN "store" ELSE "store part")
  /\ UNCHANGED <<screen, enabled, result, card, job, cards, busy, timers, hiding, notesV, late, counts>>
Store ==
  /\ pc["pass"] \in {"store", "store part"} /\ result' = job["pass"]
  /\ Goto("pass", IF pc["pass"] = "store" THEN "bump" ELSE "bump part")
  /\ UNCHANGED <<screen, enabled, current, card, job, cards, busy, timers, hiding, notesV, late, counts>>

\* notice::hide: the generation first, then the surface.  Bug_BumpOnly leaves the
\* notice up, and its timer will not take it down either.
Bug_BumpOnly == UNCHANGED <<note, late>>
Lowered == note' = None /\ late' = [late EXCEPT !.note = FALSE]

\* present_overlay: a reward card takes the notice down and is shown.  The
\* surface answers, refuses, or is given up and shows the card later.
Bump(w) ==
  /\ pc[w] \in {"bump", "bump part"} /\ gen' = gen + 1
  /\ Goto(w, IF pc[w] = "bump" THEN "lower" ELSE "lower part")
  /\ UNCHANGED <<screen, enabled, shown, job, cards, busy, timers, hiding, note, noter,
                 notices, asleep, waking, lowering, late, counts>>
Lower(w) ==
  /\ pc[w] \in {"lower", "lower part"} /\ Lowered
  /\ Goto(w, IF pc[w] = "lower" THEN "show" ELSE "show part")
  /\ UNCHANGED <<screen, enabled, shown, job, cards, busy, timers, hiding, gen, noter,
                 notices, asleep, waking, lowering, counts>>
AfterShow(w) ==
  IF w # "user" /\ pc[w] = "show" THEN "prices" ELSE "timer"
Show(w) ==
  /\ pc[w] \in {"show", "show part"}
  /\ \/ card' = job[w] /\ Goto(w, AfterShow(w)) /\ UNCHANGED <<busy, late, lates>>
     \/ /\ Goto(w, "idle") /\ UNCHANGED card
        /\ IF w = "pass" THEN Finished ELSE UNCHANGED busy
        /\ \/ UNCHANGED <<late, lates>>
           \/ /\ events < MaxEvents /\ lates' = lates + 1
              /\ late' = [late EXCEPT !.card = job[w]]
  /\ UNCHANGED <<screen, enabled, current, result, job, cards, timers, hiding, notesV, clicks>>
Appears ==
  /\ \/ /\ late.card # None /\ card' = late.card /\ late' = [late EXCEPT !.card = None]
        /\ UNCHANGED note
     \/ /\ late.note /\ note' = notices /\ late' = [late EXCEPT !.note = FALSE]
        /\ UNCHANGED card
  /\ UNCHANGED <<screen, enabled, current, result, threads, timers, hiding, gen, noter,
                 notices, asleep, waking, lowering, counts>>

\* The live prices: looked up while the card is up, kept if it still is the
\* current one, and drawn onto a surface that is up.
Prices ==
  /\ \/ pc["pass"] = "prices" /\ Goto("pass", "timer") /\ UNCHANGED <<result, card>>
     \/ /\ pc["pass"] = "prices" /\ current = job["pass"] /\ Goto("pass", "keep")
        /\ UNCHANGED <<result, card>>
     \/ /\ pc["pass"] = "keep" /\ result' = job["pass"] /\ Goto("pass", "push") /\ UNCHANGED card
     \/ /\ pc["pass"] = "push" /\ Goto("pass", "timer") /\ UNCHANGED result
        /\ card' = IF card = None THEN None ELSE job["pass"]
  /\ UNCHANGED <<screen, enabled, current, job, cards, busy, timers, hiding, notesV, late, counts>>
Sleeps(w) ==
  /\ pc[w] = "timer" /\ timers' = timers \cup {job[w]} /\ Goto(w, "idle")
  /\ IF w = "pass" THEN Finished ELSE UNCHANGED busy
  /\ UNCHANGED <<screen, enabled, shown, job, cards, hiding, notesV, late, counts>>

\* update_overlay_settings: switching it off takes the card down.
Settings ==
  /\ pc["user"] = "idle" /\ hiding[User] = 0 /\ events < MaxEvents /\ clicks' = clicks + 1
  /\ enabled' = ~enabled
  /\ hiding' = IF enabled THEN [hiding EXCEPT ![User] = 3] ELSE hiding
  /\ UNCHANGED <<screen, shown, threads, timers, notesV, late, lates>>

----------------------------------------------------------------------------
\* notice::present: refused while a reward is stored or the hour is full.
Deliver ==
  /\ noter = "idle" /\ result = None /\ events < MaxEvents
  /\ notices' = notices + 1 /\ noter' = "show"
  /\ UNCHANGED <<screen, enabled, shown, threads, timers, hiding, note, gen, asleep,
                 waking, lowering, late, counts>>
ShowNotice ==
  /\ noter = "show"
  /\ \/ note' = notices /\ noter' = "stamp" /\ UNCHANGED <<late, lates>>
     \/ noter' = "idle" /\ UNCHANGED <<note, late, lates>>
     \/ /\ events < MaxEvents /\ lates' = lates + 1 /\ late' = [late EXCEPT !.note = TRUE]
        /\ noter' = "idle" /\ UNCHANGED note
  /\ UNCHANGED <<screen, enabled, shown, threads, timers, hiding, gen, notices, asleep,
                 waking, lowering, clicks>>
\* The timer belongs to the generation it was started for.
Stamp ==
  /\ noter = "stamp" /\ noter' = "idle" /\ gen' = gen + 1 /\ asleep' = asleep \cup {gen + 1}
  /\ UNCHANGED <<screen, enabled, shown, threads, timers, hiding, note, notices, waking,
                 lowering, late, counts>>
NoticeTimer(g) ==
  /\ \/ /\ g \in asleep /\ asleep' = asleep \ {g} /\ UNCHANGED <<gen, lowering, note, late>>
        /\ waking' = IF gen = g THEN waking \cup {g} ELSE waking
     \/ /\ g \in waking /\ waking' = waking \ {g} /\ gen' = gen + 1
        /\ lowering' = lowering \cup {g} /\ UNCHANGED <<asleep, note, late>>
     \/ /\ g \in lowering /\ lowering' = lowering \ {g} /\ Lowered
        /\ UNCHANGED <<asleep, waking, gen>>
  /\ UNCHANGED <<screen, enabled, shown, threads, timers, hiding, noter, notices, counts>>

----------------------------------------------------------------------------
Gens == asleep \cup waking \cup lowering
Timers == (\E i \in Ids : Timer(i)) \/ (\E g \in Gens : NoticeTimer(g))
Work(w) == Claim(w) \/ Bump(w) \/ Lower(w) \/ Show(w) \/ Sleeps(w)
Pass == Reads \/ Store \/ Prices \/ Work("pass")
Hides == \E h \in Hiders : Hide(h)
Delivery == ShowNotice \/ Stamp
Outside == Screen \/ LogLine \/ Snapshot \/ Shortcut \/ Preview \/ Settings \/ Deliver
Next == Outside \/ Pass \/ Work("user") \/ Hides \/ Timers \/ Appears \/ Delivery

Spec == Init /\ [][Next]_vars
\* Threads run, timers go off, a late display appears: each is the scheduler's or
\* the desktop's.  Nobody promises a line of the log, a click or a notice.
LiveSpec == /\ Spec /\ WF_vars(Pass) /\ WF_vars(Work("user")) /\ WF_vars(Appears)
            /\ WF_vars(Delivery) /\ WF_vars(LogLine)
            /\ \A h \in Hiders : WF_vars(Hide(h))
            /\ \A i \in Ids : WF_vars(Timer(i))
            /\ WF_vars(\E g \in Gens : NoticeTimer(g))

TypeOK ==
  /\ game.number \in 0 .. MaxScreens /\ game.slots \in 0 .. MaxSlots
  /\ unread \in Seq({"reward", "slot", "close"})
  /\ marker \in 0 .. game.number /\ expected \in 0 .. MaxSlots
  /\ {enabled, busy} \subseteq BOOLEAN
  /\ {current, result, card} \subseteq Ids \cup {None}
  /\ \A h \in Hiders : hiding[h] \in 0 .. 3
  /\ timers \subseteq Ids /\ Gens \subseteq 1 .. gen

(* A capture pass ends, whatever its outcome, and gives the lock back: a pass *)
(* that fails does not shut the overlay for the rest of the session.          *)
PassesEnd == []<>~busy

(* A notice is taken down again, by its timer, a reward card or a later       *)
(* notice's timer, in every order of their generations - unless a display     *)
(* that was given up appeared after all.                                      *)
NoticeComesDown == []<>(note = None \/ lates > 0)

(* The reward card is dismissed when the screen closes or its time is over.   *)
RewardIsDismissed == []<>(card = None)
=============================================================================
