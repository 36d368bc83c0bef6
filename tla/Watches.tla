------------------------------- MODULE Watches -------------------------------
(***************************************************************************)
(* Price watches.  A pass asks for the top of the book of every watch, and  *)
(* a stream hears of new orders; each judges watches from a copy of the     *)
(* table it read earlier, and each may announce.  What keeps them from      *)
(* announcing twice is the checkpoint that is claimed together with the     *)
(* inbox row.  Adding and removing watches, the notification settings and   *)
(* restarts go on at the same time.                                         *)
(*                                                                          *)
(* Times are ages in whole periods, at most Rearm: a watch announces again  *)
(* after Rearm periods.  Prices are left out: the book meets a watch or not.*)
(***************************************************************************)
EXTENDS Naturals, FiniteSets

CONSTANTS
  MAX_WATCHES,  \* watches one may keep
  Rearm,        \* REARM_AFTER_SECS, in periods
  MaxAdds,      \* bound: watches ever added
  MaxEvents,    \* bound: removals, changes of the settings, failures and restarts, together
  None

Serials == 1 .. MaxAdds      \* the watches, in the order they were added
Ids     == 1 .. MaxAdds      \* the row ids they may have
Age     == 0 .. Rearm        \* Rearm: that long ago, or longer
Copy    == [id : Ids, serial : Serials, fired : Age]

VARIABLES
  rows,      \* the table: the watches, with the age of last_fired_at
  mark,      \* the age of each checkpoint watch:{id}
  enabled,   \* the category is switched on
  met,       \* the watches the book meets now
  pass,      \* the pass: what is left to judge, what it saw, the age of its "now"
  stream,    \* the stream: its copy of the table, the watch it announces, its "now"
  heard,     \* age of the last alert of each watch
  nagged,    \* watches announced again before Rearm had passed
  added, events   \* counts of MaxAdds and MaxEvents

table == <<rows, mark, enabled>>
told  == <<heard, nagged>>
vars  == <<table, met, pass, stream, told, added, events>>

Resting == [phase |-> "idle", todo |-> {}, saw |-> {}, lag |-> 0, fired |-> FALSE]
Down    == [phase |-> "down", cache |-> {}, old |-> 0, hold |-> None, lag |-> 0, fired |-> FALSE]

Init ==
  /\ rows = {} /\ mark = [i \in Ids |-> Rearm] /\ enabled = TRUE
  /\ met = {} /\ pass = Resting /\ stream = Down
  /\ heard = [s \in Serials |-> Rearm] /\ nagged = {}
  /\ added = 0 /\ events = 0

Event == events < MaxEvents /\ events' = events + 1

\* A list of watches is newest first: its head, and what is left of it when cut short.
Newest(ws) == {w \in ws : \A v \in ws : v.serial <= w.serial}
Cut(ws) == {w \in ws : Cardinality({v \in ws : v.serial > w.serial}) < MAX_WATCHES}
Armed(w) == w.fired = Rearm
Older(age) == IF age = Rearm THEN Rearm ELSE age + 1
Aged(w) == [w EXCEPT !.fired = Older(@)]

---------------------------------------------------------------------------
\* Notifications.  insert_notification claims the checkpoint and fills the inbox in one
\* transaction; publish can still fail before and after it.
Bug_InsertWithoutCooldown(w) == TRUE
MayClaim(w) == mark[w.id] = Rearm
Claim(w) == mark' = [mark EXCEPT ![w.id] = 0]
Alert(w) ==
  /\ heard' = [heard EXCEPT ![w.serial] = 0]
  /\ nagged' = IF heard[w.serial] < Rearm THEN nagged \cup {w.serial} ELSE nagged

NotifyWatch(w, fired) ==
  \/ /\ MayClaim(w) /\ Claim(w) /\ enabled /\ Alert(w)
     /\ \/ fired /\ UNCHANGED events
        \/ ~fired /\ Event      \* it fails after the insert
  \/ /\ MayClaim(w) /\ Claim(w) /\ ~enabled /\ ~fired
     /\ UNCHANGED <<told, events>>
  \/ /\ ~MayClaim(w) /\ ~fired /\ UNCHANGED <<mark, told, events>>
  \/ /\ ~fired /\ Event /\ UNCHANGED <<mark, told>>   \* it fails before

\* record_watch_check stamps the row that has the id now, with the "now" of the judgement.
Bug_StampsEveryCheck(w, fired, lag) ==
  rows' = {IF r.id = w.id THEN [r EXCEPT !.fired = lag] ELSE r : r \in rows}
RecordCheck(w, fired, lag) ==
  rows' = {IF r.id = w.id /\ fired THEN [r EXCEPT !.fired = lag] ELSE r : r \in rows}
Record(w, fired, lag) ==
  \/ RecordCheck(w, fired, lag) /\ UNCHANGED events
  \/ Event /\ UNCHANGED rows

---------------------------------------------------------------------------
\* run_pass: the checker's interval, or "check now"; one at a time (PASS).
PassStarts ==
  /\ pass.phase = "idle" /\ rows # {}
  /\ pass' = [Resting EXCEPT !.phase = "asking", !.todo = Cut(rows)]
  /\ UNCHANGED <<table, met, stream, told, added, events>>

\* fetch_live_tops: all fails, or it answers with what the book meets.
PassFails ==
  /\ pass.phase = "asking" /\ Event /\ pass' = Resting
  /\ UNCHANGED <<table, met, stream, told, added>>
PassAnswered ==
  /\ pass.phase = "asking"
  /\ pass' = [pass EXCEPT !.phase = "judging", !.saw = met \cap {w.serial : w \in pass.todo}]
  /\ UNCHANGED <<table, met, stream, told, added, events>>

\* evaluate, then notify_watch: of the copy, at the "now" of the answer.
Judge ==
  /\ pass.phase = "judging"
  /\ \E w \in Newest(pass.todo), fired \in BOOLEAN :
       /\ IF w.serial \in pass.saw /\ Armed(w) THEN NotifyWatch(w, fired)
          ELSE ~fired /\ UNCHANGED <<mark, told, events>>
       /\ pass' = [pass EXCEPT !.phase = "recording", !.fired = fired]
  /\ UNCHANGED <<rows, enabled, met, stream, added>>
PassRecords ==
  /\ pass.phase = "recording"
  /\ \E w \in Newest(pass.todo) :
       /\ Record(w, pass.fired, pass.lag)
       /\ pass' = IF pass.todo = {w} THEN Resting
                  ELSE [pass EXCEPT !.phase = "judging", !.todo = @ \ {w}, !.fired = FALSE,
                                    !.saw = @ \ {w.serial}]
  /\ UNCHANGED <<mark, enabled, met, stream, told, added>>

---------------------------------------------------------------------------
\* The stream.  A connection begins with a copy of the table; an order that matches
\* nothing may still refresh it, and one it misses is left to the pass.
Connect ==
  /\ stream.phase = "down" /\ rows # {}
  /\ stream' = [Down EXCEPT !.phase = "up", !.cache = rows]
  /\ UNCHANGED <<table, met, pass, told, added, events>>
Drops ==
  /\ stream.phase = "up" /\ stream' = Down
  /\ UNCHANGED <<table, met, pass, told, added, events>>

\* WatchCache: at most a minute old when an order is matched, so read in this period or
\* at the end of the last one.
Caches == {rows} \cup IF stream.old <= 1 THEN {stream.cache} ELSE {}
OtherOrder ==
  /\ stream.phase = "up"
  /\ stream' = [stream EXCEPT !.cache = rows, !.old = 0]
  /\ UNCHANGED <<table, met, pass, told, added, events>>
\* match_order: the first armed watch of the copy the order satisfies.
Order ==
  /\ stream.phase = "up"
  /\ \E w \in {x \in UNION Caches : Armed(x)} :
       stream' = [stream EXCEPT !.phase = "notify", !.cache = {}, !.old = 0, !.hold = w]
  /\ UNCHANGED <<table, met, pass, told, added, events>>
StreamNotifies ==
  /\ stream.phase = "notify"
  /\ \E fired \in BOOLEAN :
       /\ NotifyWatch(stream.hold, fired)
       /\ stream' = [stream EXCEPT !.phase = "record", !.fired = fired]
  /\ UNCHANGED <<rows, enabled, met, pass, added>>
StreamRecords ==
  /\ stream.phase = "record"
  /\ Record(stream.hold, stream.fired, stream.lag)
  /\ stream' = [Down EXCEPT !.phase = "up", !.cache = rows']
  /\ UNCHANGED <<mark, enabled, met, pass, told, added>>

---------------------------------------------------------------------------
\* The user.  A watch gets the row id after the largest one in the table.
NextId(i) == (\A r \in rows : r.id < i) /\ (i = 1 \/ \E r \in rows : r.id = i - 1)
AddWatch ==
  /\ added < MaxAdds /\ Cardinality(rows) < MAX_WATCHES
  /\ added' = added + 1
  /\ \E i \in Ids : NextId(i) /\ rows' = rows \cup {[id |-> i, serial |-> added + 1, fired |-> Rearm]}
  /\ UNCHANGED <<mark, enabled, met, pass, stream, told, events>>
DeleteWatch ==
  /\ Event /\ \E r \in rows : rows' = rows \ {r}
  /\ UNCHANGED <<mark, enabled, met, pass, stream, told, added>>
SetPreferences ==
  /\ Event /\ enabled' = ~enabled
  /\ UNCHANGED <<rows, mark, met, pass, stream, told, added>>

---------------------------------------------------------------------------
\* The market, time and the end of the program.
Book ==
  /\ \E s \in 1 .. added : met' = IF s \in met THEN met \ {s} ELSE met \cup {s}
  /\ UNCHANGED <<table, pass, stream, told, added, events>>

Tick ==
  /\ rows' = {Aged(r) : r \in rows}
  /\ mark' = [i \in Ids |-> Older(mark[i])]
  /\ heard' = [s \in Serials |-> Older(heard[s])]
  /\ pass' = IF pass.phase = "asking" THEN [pass EXCEPT !.todo = {Aged(w) : w \in pass.todo}]
             ELSE IF pass.phase = "idle" THEN pass ELSE [pass EXCEPT !.lag = Older(@)]
  /\ stream' = IF stream.phase = "up"
               THEN [stream EXCEPT !.cache = {Aged(w) : w \in stream.cache},
                                      !.old = IF @ = 2 THEN 2 ELSE @ + 1]
               ELSE IF stream.phase = "down" THEN stream ELSE [stream EXCEPT !.lag = Older(@)]
  /\ UNCHANGED <<enabled, met, nagged, added, events>>

Restart ==
  /\ Event
  /\ pass' = Resting /\ stream' = Down
  /\ UNCHANGED <<table, met, told, added>>

PassMoves   == PassStarts \/ PassAnswered \/ Judge \/ PassRecords
StreamMoves == Connect \/ StreamNotifies \/ StreamRecords
User   == AddWatch \/ DeleteWatch \/ SetPreferences
Others == PassFails \/ Drops \/ OtherOrder \/ Order \/ Book \/ Tick \/ Restart
Next == PassMoves \/ StreamMoves \/ User \/ Others

Spec == Init /\ [][Next]_vars
\* Fairness: the checker and the stream are threads that always go on; the clock does too.
LiveSpec == Spec /\ WF_vars(PassMoves) /\ WF_vars(StreamMoves) /\ WF_vars(Tick)

---------------------------------------------------------------------------
PassStates == [phase : {"idle", "asking", "judging", "recording"}, todo : SUBSET Copy,
               saw : SUBSET Serials, lag : Age, fired : BOOLEAN]
StreamStates == [phase : {"down", "up", "notify", "record"}, cache : SUBSET Copy, old : 0 .. 2,
                 hold : Copy \cup {None}, lag : Age, fired : BOOLEAN]
\* Ages, copies and phases are what the code can hold.
TypeOK ==
  /\ rows \subseteq Copy /\ mark \in [Ids -> Age] /\ heard \in [Serials -> Age]
  /\ enabled \in BOOLEAN /\ met \subseteq Serials /\ nagged \subseteq Serials
  /\ pass \in PassStates /\ stream \in StreamStates
  /\ stream.phase \in {"notify", "record"} => stream.hold \in Copy
  /\ added \in 0 .. MaxAdds /\ events \in 0 .. MaxEvents

\* A watch is announced once in REARM_AFTER, whichever of the pass and the stream saw it,
\* from whatever copy, and whatever failed or restarted in between (poll.rs:10).
AlertsSpaced == nagged = {}

\* A watch that stays satisfied, in a category that stays on, is announced again and
\* again: it re-arms rather than falls silent (poll.rs:10-11, "a watch that stays
\* satisfied re-arms rather than nags").
Wanted(s) == enabled /\ s \in met /\ \E r \in rows : r.serial = s
SatisfiedIsAlerted == \A s \in Serials : <>[]Wanted(s) => []<>(heard[s] = 0)
=============================================================================
