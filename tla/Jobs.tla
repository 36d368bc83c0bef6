-------------------------------- MODULE Jobs --------------------------------
(***************************************************************************)
(* The buttons of the publisher's dashboard that start a job of the box    *)
(* (run_job): under one admission lock the publisher asks systemd for the  *)
(* unit's state and its own database for the last start, writes the        *)
(* request file that wakes the unit, and records the start.                *)
(*                                                                         *)
(* Every await is a step.  A browser that goes away drops its handler at   *)
(* the await, and the lock with it; the thread that records goes on.       *)
(* One job is followed, and each click once.                               *)
(***************************************************************************)
EXTENDS Naturals, Sequences

CONSTANTS
  MaxClicks,   \* bound on the clicks, which are numbered
  Cooldown,    \* Job.cooldown
  MaxTime, MaxUpsets, \* bounds
  None

VARIABLES
  now,
  unit,        \* the unit: at rest, asked to start, or running
  admission,   \* the click that holds the admission lock, or None
  rows,        \* job_requests: the clicks recorded, in the order of their ids
  recording,   \* starts a thread is about to record
  pc, at, busy, last, \* each click: its step, its clock, and what it read
  fired,       \* the clicks that wrote the request file, in order
  unrecorded,  \* those whose row was not there when the lock was let go
  upsets
system == <<now, unit>>
click  == <<pc, at, busy, last>>
vars   == <<system, admission, rows, recording, click, fired, unrecorded, upsets>>

Clicks == 1 .. MaxClicks
Upset  == upsets < MaxUpsets /\ upsets' = upsets + 1
Init ==
  /\ now = 0 /\ unit = "rests" /\ admission = None /\ rows = <<>> /\ recording = {}
  /\ pc = [c \in Clicks |-> "new"] /\ at = [c \in Clicks |-> 0]
  /\ busy = [c \in Clicks |-> FALSE] /\ last = [c \in Clicks |-> None]
  /\ fired = <<>> /\ unrecorded = {} /\ upsets = 0

---------------------------------------------------------------------------
Goes(c, step) == pc' = [pc EXCEPT ![c] = step]
Releases(c)   == admission' = IF admission = c THEN None ELSE admission
Answers(c, answer) == Goes(c, answer) /\ Releases(c)

Click(c) ==
  /\ pc[c] = "new" /\ (c > 1 => pc[c - 1] # "new") /\ Goes(c, "waits")
  /\ UNCHANGED <<system, admission, rows, recording, at, busy, last, fired, unrecorded, upsets>>
Admit(c) ==
  /\ pc[c] = "waits" /\ admission = None
  /\ admission' = c /\ at' = [at EXCEPT ![c] = now] /\ Goes(c, "unit")
  /\ UNCHANGED <<system, rows, recording, busy, last, fired, unrecorded, upsets>>

\* systemctl answers within its time, or the click is refused.
Unit(c) ==
  /\ pc[c] = "unit"
  /\ \/ /\ busy' = [busy EXCEPT ![c] = unit = "runs"] /\ Goes(c, "rows")
        /\ UNCHANGED <<admission, upsets>>
     \/ Upset /\ Answers(c, "refused") /\ UNCHANGED busy
  /\ UNCHANGED <<system, rows, recording, at, last, fired, unrecorded>>

\* latest_job_requests: the row with the highest id.
Newest == IF rows = <<>> THEN None ELSE at[rows[Len(rows)]]
Rows(c) ==
  /\ pc[c] = "rows"
  /\ \/ last' = [last EXCEPT ![c] = Newest] /\ Goes(c, "start") /\ UNCHANGED <<admission, upsets>>
     \/ Upset /\ Answers(c, "refused") /\ UNCHANGED last
  /\ UNCHANGED <<system, rows, recording, at, busy, fired, unrecorded>>

\* blocked, then trigger: without an await between them. A write that fails may have
\* woken the unit all the same.
Woken == IF unit = "rests" THEN "asked" ELSE unit
Blocked(c) == busy[c] \/ (last[c] # None /\ last[c] + Cooldown > at[c])
Bug_ReleasesFirst(c) == admission' = None
KeepsLock(c) == UNCHANGED admission
Start(c) ==
  /\ pc[c] = "start"
  /\ \/ Blocked(c) /\ Answers(c, "refused") /\ UNCHANGED <<unit, recording, fired, upsets>>
     \/ /\ ~Blocked(c) /\ Upset /\ Answers(c, "refused") /\ UNCHANGED <<recording, fired>>
        /\ unit' \in {unit, Woken}
     \/ /\ ~Blocked(c) /\ fired' = Append(fired, c) /\ recording' = recording \cup {c}
        /\ unit' = Woken
        /\ Goes(c, "record") /\ KeepsLock(c) /\ UNCHANGED upsets
  /\ UNCHANGED <<now, rows, at, busy, last, unrecorded>>

\* The thread that records; a row that fails is logged, and the click counts as started.
Record(c) ==
  /\ c \in recording /\ recording' = recording \ {c}
  /\ \/ rows' = Append(rows, c) /\ UNCHANGED <<unrecorded, upsets>>
     \/ Upset /\ unrecorded' = unrecorded \cup {c} /\ UNCHANGED rows
  /\ UNCHANGED <<system, admission, click, fired>>
Finish(c) ==
  /\ pc[c] = "record" /\ c \notin recording /\ Answers(c, "started")
  /\ UNCHANGED <<system, rows, recording, at, busy, last, fired, unrecorded, upsets>>

---------------------------------------------------------------------------
\* The browser goes away; the service stops and starts.
InHand == {"waits", "unit", "rows", "start", "record"}
Leave(c) ==
  /\ pc[c] \in InHand /\ Upset /\ Answers(c, "gone")
  /\ unrecorded' = unrecorded \cup ({c} \cap recording)
  /\ UNCHANGED <<system, rows, recording, at, busy, last, fired>>
Restart ==
  /\ Upset /\ admission' = None /\ recording' = {} /\ unrecorded' = unrecorded \cup recording
  /\ pc' = [c \in Clicks |-> IF pc[c] \in InHand THEN "lost" ELSE pc[c]]
  /\ UNCHANGED <<system, rows, at, busy, last, fired>>

\* The path unit starts the service, which its timer may also start, and which ends.
Systemd ==
  /\ unit' = CASE unit = "rests" -> "runs" [] unit = "asked" -> "runs" [] unit = "runs" -> "rests"
  /\ UNCHANGED <<now, admission, rows, recording, click, fired, unrecorded, upsets>>
Tick ==
  /\ now < MaxTime /\ now' = now + 1
  /\ UNCHANGED <<unit, admission, rows, recording, click, fired, unrecorded, upsets>>

Handler(c) == Click(c) \/ Admit(c) \/ Unit(c) \/ Rows(c) \/ Start(c) \/ Record(c) \/ Finish(c)
Next == (\E c \in Clicks : Handler(c) \/ Leave(c)) \/ Restart \/ Systemd \/ Tick
Spec == Init /\ [][Next]_vars

---------------------------------------------------------------------------
TypeOK ==
  /\ unit \in {"rests", "asked", "runs"} /\ admission \in Clicks \cup {None}
  /\ \A c \in Clicks : pc[c] \in InHand \cup {"new", "gone", "lost", "refused", "started"}
  /\ unrecorded \cap {rows[n] : n \in 1 .. Len(rows)} \subseteq {c \in Clicks : pc[c] = "gone"}

(* A job is started at most once in its cooldown, whoever clicks and however  *)
(* the awaits fall, unless an earlier start went unrecorded: its row failed,  *)
(* or its browser left or the service stopped before the row was in.         *)
(* And no click whose request was written is told the job was not started.    *)
(* (run_job)                                                                  *)
StartsAreSpaced ==
  /\ \A n \in 1 .. Len(fired), m \in 1 .. Len(fired) :
       m < n /\ at[fired[n]] - at[fired[m]] < Cooldown =>
         \E k \in 1 .. n - 1 : fired[k] \in unrecorded
  /\ \A n \in 1 .. Len(fired) : pc[fired[n]] # "refused"

(* lib.rs, of the admission lock: it is held "so two simultaneous clicks      *)
(* cannot both pass". (Not counting a start whose row failed, which is logged, *)
(* or a start just before the service itself was started again.)              *)
OneOfTwoPasses ==
  \A n \in 1 .. Len(fired), m \in 1 .. Len(fired) :
    m < n /\ at[fired[m]] = at[fired[n]] =>
      fired[m] \in unrecorded /\ pc[fired[m]] \in {"started", "lost"}

---------------------------------------------------------------------------
(* What makes it inductive.                                                 *)
JobShapes ==
  /\ now \in Nat /\ admission \in Clicks \cup {None}
  /\ rows \in Seq(Clicks) /\ fired \in Seq(Clicks)
  /\ recording \subseteq Clicks /\ unrecorded \subseteq Clicks
  /\ pc \in [Clicks -> InHand \cup {"new", "gone", "lost", "refused", "started"}]
  /\ at \in [Clicks -> 0 .. now] /\ last \in [Clicks -> Nat \cup {None}]

Holding == {"unit", "rows", "start", "record"}
OneHolds == \A c \in Clicks : pc[c] \in Holding <=> admission = c
\* A click that fired is at its record or past it, and only such a click has a thread.
FiredWell ==
  /\ \A n \in 1 .. Len(fired) : pc[fired[n]] \in {"record", "started", "gone", "lost"}
  /\ \A c \in recording :
       /\ \E n \in 1 .. Len(fired) : fired[n] = c
       /\ pc[c] = "record" \/ c \in unrecorded

\* As long as no start is unrecorded: the rows are the starts, but for the one being
\* recorded, and a click that may start has read the newest of them.
AllRecorded == \A n \in 1 .. Len(fired) : fired[n] \notin unrecorded
RowsAreStarts ==
  /\ \A n \in 1 .. Len(rows) : n <= Len(fired) /\ rows[n] = fired[n]
  /\ IF recording = {} THEN Len(fired) = Len(rows)
     ELSE Len(fired) = Len(rows) + 1 /\ recording = {fired[Len(fired)]}
ReadNewest == \A c \in Clicks : pc[c] = "start" => last[c] = Newest
JobsKept ==
  /\ JobShapes /\ OneHolds /\ FiredWell /\ StartsAreSpaced
  /\ AllRecorded => RowsAreStarts /\ ReadNewest
=============================================================================
