------------------------------ MODULE Reminders ------------------------------
(***************************************************************************)
(* The reminder loop.  Once a minute it tells of one announcement of the   *)
(* site's feed that is due (services/announcements.rs, deliver) and of the *)
(* phase of Baro Ki'Teer's visit (reminders.rs, scheduled), then forgets   *)
(* the checkpoints that ran out.  A checkpoint holds the last phase told   *)
(* of a key; it is all that keeps the loop, which remembers nothing else   *)
(* from one round to the next, from telling twice.                         *)
(*                                                                         *)
(* One visit is followed; its end may be put off and the clock of the      *)
(* machine set back, together by no more than Day.  How a row of the inbox *)
(* is shown is left out: it is stored first.                               *)
(***************************************************************************)
EXTENDS Naturals, Sequences

CONSTANTS
  MaxMessages,    \* the announcements are numbered, in the order of the feed
  Arrival, Departure, \* the visit, as first published
  Hour, Day,      \* the length of the first and last phase, and DAY
  MaxTime, MaxEvents, \* bounds
  None

Visit   == 0
Checkpoints == Visit .. MaxMessages
Forever == MaxTime + 1

VARIABLES
  now,      \* the clock of the machine
  end,      \* the end of the visit in the snapshot at hand
  due,      \* the announcements of the fetched feed that are due
  slack,    \* what is left of Day for the schedule and the clock to move
  check,    \* notification_checkpoint: the phase and the expiry of a key
  enabled,  \* the category is switched on
  step, todo, \* the loop: where it is, and the candidates of this round
  told,     \* the phases the inbox was told of each key, in order
  events
world == <<now, end, due, slack>>
loop  == <<step, todo>>
vars  == <<world, check, enabled, loop, told, events>>

Event == events < MaxEvents /\ events' = events + 1
Init ==
  /\ now = 0 /\ end = Departure /\ due = {} /\ slack = Day
  /\ check = [k \in Checkpoints |-> None] /\ enabled = TRUE
  /\ step = "rests" /\ todo = {} /\ told = [k \in Checkpoints |-> <<>>] /\ events = 0

---------------------------------------------------------------------------
\* phase, 0 for none: about to arrive, here, about to leave.
Phase ==
  IF Arrival >= end \/ now >= end THEN 0
  ELSE IF now >= Arrival THEN IF now + Hour >= end THEN 3 ELSE 2
  ELSE IF now + Hour >= Arrival THEN 1 ELSE 0

Candidate(k, stage, expires) == [key |-> k, stage |-> stage, expires |-> expires, at |-> now]
Announcements == {Candidate(m, 1, Forever) : m \in due}
Bug_AtItsEnd == end
Expires == end + Day
Scheduled == IF Phase = 0 THEN {} ELSE {Candidate(Visit, Phase, Expires)}
\* Those of a round are tried in the order of the feed.
First == CHOOSE n \in todo : \A o \in todo : n.key <= o.key

\* insert_notification, in one transaction. A category that is off is checkpointed too.
MayTell(n) == check[n.key] # None => check[n.key].stage < n.stage
Insert(n) ==
  /\ check' = [check EXCEPT ![n.key] = [stage |-> n.stage, expires |-> n.expires]]
  /\ told' = IF enabled THEN [told EXCEPT ![n.key] = Append(@, n.stage)] ELSE told

Round ==
  /\ step = "rests" /\ step' = "announces"
  /\ todo' = Announcements
  /\ UNCHANGED <<world, check, enabled, told, events>>

\* deliver: until one is told, or cannot be recorded.
Announce ==
  /\ step = "announces" /\ todo # {}
  /\ LET n == First IN
       \/ MayTell(n) /\ Insert(n) /\ todo' = (IF enabled THEN {} ELSE todo \ {n}) /\ UNCHANGED events
       \/ ~MayTell(n) /\ todo' = todo \ {n} /\ UNCHANGED <<check, told, events>>
       \/ Event /\ todo' = {} /\ UNCHANGED <<check, told>>
  /\ UNCHANGED <<world, enabled, step>>
Evaluate ==
  /\ step = "announces" /\ todo = {}
  /\ step' = "reminds" /\ todo' = Scheduled
  /\ UNCHANGED <<world, check, enabled, told, events>>
Remind ==
  /\ step = "reminds" /\ todo # {} /\ todo' = {}
  /\ LET n == First IN
       \/ MayTell(n) /\ Insert(n) /\ UNCHANGED events
       \/ ~MayTell(n) /\ UNCHANGED <<check, told, events>>
       \/ Event /\ UNCHANGED <<check, told>>
  /\ UNCHANGED <<world, enabled, step>>

\* prune_notifications, which every told row and every look at the inbox runs as well.
Gone(k) == check[k] # None /\ check[k].expires < now
Forget  == check' = [k \in Checkpoints |-> IF Gone(k) THEN None ELSE check[k]]
Prune ==
  /\ step = "reminds" /\ todo = {} /\ step' = "rests"
  /\ \/ Forget /\ UNCHANGED events
     \/ Event /\ UNCHANGED check
  /\ UNCHANGED <<world, enabled, todo, told>>
Look == Forget /\ UNCHANGED <<world, enabled, loop, told, events>>

---------------------------------------------------------------------------
Restart ==
  /\ step # "rests" /\ Event /\ step' = "rests" /\ todo' = {}
  /\ UNCHANGED <<world, check, enabled, told>>
Settings ==
  /\ Event /\ enabled' = ~enabled
  /\ UNCHANGED <<world, check, loop, told>>
\* Announced, withdrawn, put off or run out.
Feed ==
  /\ due' \in (SUBSET (1 .. MaxMessages)) \ {due}
  /\ UNCHANGED <<now, end, slack, check, enabled, loop, told, events>>
Move(d) == d \in 1 .. slack /\ slack' = slack - d /\ Event
PutOff ==
  /\ \E d \in 1 .. Day : Move(d) /\ end' = end + d
  /\ UNCHANGED <<now, due, check, enabled, loop, told>>
SetBack ==
  /\ \E d \in 1 .. now : Move(d) /\ now' = now - d
  /\ UNCHANGED <<end, due, check, enabled, loop, told>>
\* A round takes seconds: its candidates are tried within a tick of their making.
Tick ==
  /\ now < MaxTime /\ now' = now + 1 /\ (\A n \in todo : now <= n.at)
  /\ UNCHANGED <<end, due, slack, check, enabled, loop, told, events>>

Loop == Round \/ Announce \/ Evaluate \/ Remind \/ Prune
Next == Loop \/ Look \/ Restart \/ Settings \/ Feed \/ PutOff \/ SetBack \/ Tick
Spec == Init /\ [][Next]_vars

---------------------------------------------------------------------------
TypeOK ==
  /\ now \in 0 .. MaxTime /\ end \in Departure .. Departure + Day /\ due \subseteq 1 .. MaxMessages
  /\ \A k \in Checkpoints : check[k] # None => check[k].stage \in 1 .. 3
  /\ step \in {"rests", "announces", "reminds"} /\ (step = "rests" => todo = {})
  /\ \A k \in Checkpoints : told[k] \in Seq(1 .. 3)

(* Nothing is told twice: each phase of a visit is told at most once and in   *)
(* order, and an announcement once, over restarts, failures, forgotten        *)
(* checkpoints, a visit whose end is put off and a clock that is set back.    *)
RemindedOnce ==
  \A k \in Checkpoints : \A i, j \in 1 .. Len(told[k]) : i < j => told[k][i] < told[k][j]

---------------------------------------------------------------------------
(* What makes it inductive.                                                 *)
Candidates == [key : Checkpoints, stage : 1 .. 3, expires : Nat, at : Nat]
ReminderShapes ==
  /\ now \in 0 .. MaxTime /\ end \in Nat /\ slack \in 0 .. Day /\ due \subseteq 1 .. MaxMessages
  /\ enabled \in BOOLEAN /\ todo \subseteq Candidates
  /\ check \in [Checkpoints -> [stage : 1 .. 3, expires : Nat] \cup {None}]
  /\ told \in [Checkpoints -> Seq(1 .. 3)]

\* What was told is at most what is checkpointed; a checkpoint is kept at least as long
\* as the visit can still be put off, or the clock set back into it, and one that is
\* gone went when both had come to an end.
Outlasts(k, expires) == expires >= IF k = Visit THEN end + slack ELSE Forever
UpToStage(k) == \A i \in 1 .. Len(told[k]) : told[k][i] <= check[k].stage
Remembered ==
  \A k \in Checkpoints :
    /\ check[k] # None => UpToStage(k) /\ Outlasts(k, check[k].expires)
    /\ check[k] = None /\ told[k] # <<>> => k = Visit /\ end + slack < now
\* A candidate is tried while the visit lasts.
InTime ==
  \A n \in todo :
    /\ Outlasts(n.key, n.expires) /\ now <= n.at + 1
    /\ n.key = Visit => n.at < end
ReminderKept == ReminderShapes /\ Remembered /\ InTime /\ RemindedOnce
=============================================================================
