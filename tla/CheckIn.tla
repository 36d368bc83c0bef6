------------------------------ MODULE CheckIn ------------------------------
(***************************************************************************)
(* The daily check-in of an installation that agreed to be counted, and    *)
(* the collector that counts it: one token a day, offered until it is      *)
(* accepted or ten times, counted once by its hash; and a mark on the days *)
(* the collector did not watch from end to end.                            *)
(*                                                                         *)
(* Requests get lost or arrive late, either side stops and starts, the     *)
(* database is lost and restored from an export, clocks go wrong.          *)
(***************************************************************************)
EXTENDS Integers, FiniteSets

CONSTANTS
  Installs,
  MaxAttempts,      \* MAX_ATTEMPTS_PER_DAY
  DayLength, Gap,   \* moments in a day, and between two ticks without a gap
  MaxTime, MaxUpsets, \* bounds
  None

VARIABLES
  now,              \* the collector's clock
  up, db, export,   \* whether it runs, its database, the last export
  consent, saved,   \* for each install: consent in memory and as stored
  state,            \* its stored DailyState
  phase, token,     \* what its loop does, and the token it is sending
  wire,             \* requests given up that may still arrive
  made,             \* tokens it drew so far
  landed, unwatched, \* for each day: installs that were counted; days with the collector down
  forgotten,        \* days the clock had gone back over when the database was lost
  upsets
collector == <<up, db, export>>
client    == <<consent, saved, state, phase, token, made>>
vars == <<now, collector, client, wire, landed, unwatched, forgotten, upsets>>

Day(t) == t \div DayLength
Days   == 0 .. Day(MaxTime)
Upset  == upsets < MaxUpsets /\ upsets' = upsets + 1

EmptyDb == [last |-> None, daily |-> [d \in Days |-> None], hashes |-> {}]
NoState == [day |-> -1, nonce |-> 0, attempted |-> FALSE, attempts |-> 0]
Init ==
  /\ now = 0 /\ up = FALSE /\ db = EmptyDb /\ export = None
  /\ consent = [i \in Installs |-> TRUE] /\ saved = consent
  /\ state = [i \in Installs |-> NoState] /\ phase = [i \in Installs |-> "idle"]
  /\ token = [i \in Installs |-> None] /\ made = [i \in Installs |-> 0]
  /\ wire = {} /\ landed = [d \in Days |-> {}] /\ unwatched = {} /\ forgotten = {} /\ upsets = 0

---------------------------------------------------------------------------
\* Store::tick: a clock that went back is refused; a gap marks every day it touches.
BackInTime(d) == d.last # None /\ now < d.last
IsGap(d, restarted) == restarted \/ d.last = None \/ now - d.last > Gap
Bug_OnlyToday(d) == Day(now) .. Day(now)
Touched(d) == (IF d.last = None THEN Day(now) ELSE Day(d.last)) .. Day(now)
Row(row, gap) == IF row = None THEN [count |-> 0, complete |-> ~gap]
                 ELSE [row EXCEPT !.complete = @ /\ ~gap]
Pruned(d) == IF d.last = None \/ Day(d.last) # Day(now)
             THEN {h \in d.hashes : h.day = Day(now)} ELSE d.hashes
Ticked(d, restarted) ==
  [last |-> now, hashes |-> Pruned(d),
   daily |-> [x \in Days |-> IF x \in Touched(d) THEN Row(d.daily[x], IsGap(d, restarted))
                             ELSE d.daily[x]]]
Tick ==
  /\ up /\ ~BackInTime(db) /\ db' = Ticked(db, FALSE) /\ db' # db
  /\ UNCHANGED <<now, up, export, client, wire, landed, unwatched, forgotten, upsets>>

\* Store::accept: today's token, after a tick; the hash and the count in one transaction.
Counted(d, t) ==
  IF t \in d.hashes THEN d
  ELSE [d EXCEPT !.hashes = @ \cup {t}, !.daily[t.day].count = @ + 1]
Accepts(t) == up /\ t.day = Day(now) /\ ~BackInTime(db)
Arrives(t) ==
  IF Accepts(t)
  THEN /\ db' = Counted(Ticked(db, FALSE), t)
       /\ landed' = [landed EXCEPT ![t.day] = @ \cup {t.install}]
  ELSE UNCHANGED <<db, landed>>

\* The collector stops and starts (Store::open ticks as restarted). While it is down its
\* database may be lost; an export holds the counts alone. A clock that went back is taken to
\* be wrong until it has caught up with the last tick.
DayAt(t) == Day(IF db.last # None /\ t < db.last THEN db.last ELSE t)
Stop == /\ up /\ Upset /\ up' = FALSE /\ unwatched' = unwatched \cup {DayAt(now)}
        /\ UNCHANGED <<now, db, export, client, wire, landed, forgotten>>
Start == /\ ~up /\ ~BackInTime(db) /\ up' = TRUE /\ db' = Ticked(db, TRUE)
         /\ UNCHANGED <<now, export, client, wire, landed, unwatched, forgotten, upsets>>
Lose == /\ ~up /\ db # EmptyDb /\ Upset /\ db' = EmptyDb
        /\ forgotten' = forgotten \cup IF BackInTime(db) THEN Day(now) .. Day(db.last) ELSE {}
        /\ UNCHANGED <<now, up, export, client, wire, landed, unwatched>>
Export == /\ db.last # None /\ export' = [at |-> db.last, daily |-> db.daily]
          /\ export' # export
          /\ UNCHANGED <<now, up, db, client, wire, landed, unwatched, forgotten, upsets>>

\* Store::restore, after the tick of a start: the larger count, and no certainty from the
\* day of the export on.
Larger(m, n) == IF m > n THEN m ELSE n
Uncertain == Day(export.at) .. Day(now)
Merged(mine, theirs, d) ==
  LET both == IF theirs = None THEN mine ELSE
              IF mine = None THEN [theirs EXCEPT !.complete = @ /\ d < Day(now)] ELSE
              [count |-> Larger(mine.count, theirs.count),
               complete |-> mine.complete /\ theirs.complete /\ d < Day(now)]
  IN IF d \notin Uncertain THEN both ELSE Row(both, TRUE)
Restore ==
  /\ export # None /\ export.at <= now /\ ~BackInTime(db)
  /\ LET d == Ticked(db, TRUE) IN
     db' = [d EXCEPT !.daily = [x \in Days |-> Merged(d.daily[x], export.daily[x], x)]]
  /\ db' # db
  /\ UNCHANGED <<now, up, export, client, wire, landed, unwatched, forgotten, upsets>>

---------------------------------------------------------------------------
\* prepare: the day's token, drawn once, and the attempt are stored before anything is sent.
Drawn(i, day) == [day |-> day, nonce |-> made[i] + 1, attempted |-> FALSE, attempts |-> 0]
Current(i, day) == IF state[i].day = day THEN state[i] ELSE Drawn(i, day)
Stored(i, s) == [state EXCEPT ![i] = s]
Prepare(i, day) ==
  /\ phase[i] = "idle" /\ consent[i] /\ saved[i] /\ state[i].day <= day
  /\ LET s == Current(i, day)
         t == [s EXCEPT !.attempts = @ + 1] IN
     /\ ~s.attempted /\ s.attempts < MaxAttempts
     /\ state' = Stored(i, t) /\ made' = [made EXCEPT ![i] = t.nonce]
     /\ token' = [token EXCEPT ![i] = [install |-> i, day |-> t.day, nonce |-> t.nonce]]
  /\ phase' = [phase EXCEPT ![i] = "send"]
  /\ IF day = Day(now) THEN UNCHANGED upsets ELSE Upset
  /\ UNCHANGED <<now, collector, consent, saved, wire, landed, unwatched, forgotten>>

\* report_if_enabled: it is answered, lost on either way, or given up and late. Only 204
\* is an acceptance.
Rests(i) == phase' = [phase EXCEPT ![i] = "idle"] /\ token' = [token EXCEPT ![i] = None]
Report(i) ==
  /\ phase[i] = "send"
  /\ UNCHANGED <<now, up, export, consent, saved, state, made, unwatched, forgotten>>
  /\ \/ /\ Arrives(token[i]) /\ UNCHANGED <<wire, upsets>>
        /\ IF Accepts(token[i]) THEN phase' = [phase EXCEPT ![i] = "confirm"] /\ UNCHANGED token
           ELSE Rests(i)
     \/ Upset /\ Rests(i) /\ Arrives(token[i]) /\ UNCHANGED wire
     \/ Upset /\ Rests(i) /\ wire' \in {wire, wire \cup {token[i]}} /\ UNCHANGED <<db, landed>>
\* confirm, for the day and token that were sent.
Confirm(i) ==
  /\ phase[i] = "confirm" /\ Rests(i)
  /\ state' = IF state[i].day = token[i].day /\ state[i].nonce = token[i].nonce
              THEN [state EXCEPT ![i].attempted = TRUE] ELSE state
  /\ UNCHANGED <<now, collector, consent, saved, made, wire, landed, unwatched, forgotten, upsets>>
Late ==
  /\ \E t \in wire : wire' = wire \ {t} /\ Arrives(t)
  /\ UNCHANGED <<now, up, export, client, unwatched, forgotten, upsets>>

\* update_preferences, whose save may fail: withdrawing holds in memory all the same, and
\* drops what is being sent. And a restart of the program.
SetConsent(i, enabled) ==
  /\ consent[i] # enabled /\ Upset
  /\ \/ consent' = [consent EXCEPT ![i] = enabled] /\ saved' = [saved EXCEPT ![i] = enabled]
     \/ ~enabled /\ consent' = [consent EXCEPT ![i] = FALSE] /\ UNCHANGED saved
  /\ IF phase[i] = "send" /\ ~enabled
     THEN Rests(i) /\ wire' \in {wire, wire \cup {token[i]}}
     ELSE UNCHANGED <<phase, token, wire>>
  /\ UNCHANGED <<now, collector, state, made, landed, unwatched, forgotten>>
Restart(i) ==
  /\ Upset /\ Rests(i) /\ consent' = [consent EXCEPT ![i] = saved[i]]
  /\ wire' \in IF phase[i] = "send" THEN {wire, wire \cup {token[i]}} ELSE {wire}
  /\ UNCHANGED <<now, collector, saved, state, made, landed, unwatched, forgotten>>

Passes(t) == /\ now' = t
             /\ unwatched' = unwatched \cup IF up THEN {} ELSE {DayAt(now), DayAt(t)}
             /\ UNCHANGED <<collector, client, wire, landed, forgotten>>
Clock == \/ now < MaxTime /\ Passes(now + 1) /\ UNCHANGED upsets
         \/ up /\ now > 0 /\ Upset /\ Passes(now - 1)

Client(i) == \/ \E d \in {Day(now) - 1, Day(now), Day(now) + 1} \cap Days : Prepare(i, d)
             \/ Report(i) \/ Confirm(i) \/ Restart(i) \/ \E b \in BOOLEAN : SetConsent(i, b)
Next == Tick \/ Stop \/ Start \/ Lose \/ Export \/ Restore \/ Late \/ Clock
        \/ \E i \in Installs : Client(i)
Spec == Init /\ [][Next]_vars

---------------------------------------------------------------------------
TypeOK ==
  /\ now \in 0 .. MaxTime /\ up \in BOOLEAN /\ upsets \in 0 .. MaxUpsets
  /\ \A d \in Days : landed[d] \subseteq Installs
  /\ \A i \in Installs : state[i].day \in Days \cup {-1} /\ state[i].attempts \in 0 .. MaxAttempts

(* A day that is over and served as complete counts each install that reported *)
(* on it exactly once, however often it asked and whichever answers got lost, *)
(* and the collector was never down on it: not over a restart, nor in an      *)
(* outage of several days, nor before the database was lost and restored; but *)
(* for the days between a clock set back and the last tick, if the database   *)
(* that knew of that tick is lost.                                            *)
(* (usage/mod.rs tick, accept and restore; usage.rs prepare and confirm)      *)
Exact(row, d) == row # None /\ row.complete =>
                   row.count = Cardinality(landed[d]) /\ d \notin unwatched
CompleteIsExact == up => \A d \in Days \ forgotten : d < Day(now) => Exact(db.daily[d], d)

---------------------------------------------------------------------------
(* What makes it inductive.  An install has one token a day.                *)
Tokens == [install : Installs, day : Days, nonce : Nat]
Rows   == [count : Nat, complete : BOOLEAN]
Tables == [Days -> Rows \cup {None}]
CheckInShapes ==
  /\ now \in 0 .. MaxTime /\ up \in BOOLEAN
  /\ db \in [last : 0 .. MaxTime \cup {None}, daily : Tables, hashes : SUBSET Tokens]
  /\ export # None => export \in [at : 0 .. MaxTime, daily : Tables]
  /\ phase \in [Installs -> {"idle", "send", "confirm"}]
  /\ token \in [Installs -> Tokens \cup {None}]
  /\ \A i \in Installs : phase[i] # "idle" => token[i] \in Tokens
  /\ wire \subseteq Tokens /\ landed \in [Days -> SUBSET Installs]
  /\ made \in [Installs -> Nat]
  /\ state \in [Installs -> [day : Days \cup {-1}, nonce : Nat, attempted : BOOLEAN, attempts : Nat]]

Sent == wire \cup db.hashes \cup {token[i] : i \in {j \in Installs : phase[j] # "idle"}}
OneToken ==
  \A t \in Sent :
    /\ t.day <= state[t.install].day
    /\ t.day = state[t.install].day => t.nonce = state[t.install].nonce
    /\ \A u \in Sent : t.install = u.install /\ t.day = u.day => t = u

\* The last day anything may have happened on: no report counts for an earlier one again.
Top == IF up THEN Day(db.last) ELSE DayAt(now)
NothingLater == \A d \in Days \ forgotten : landed[d] # {} \/ d \in unwatched => d <= Top
\* A database, with the collector up, or not: the rows until its last tick, exact ones as far
\* as they claim to be; and the hashes of its last day are those of the installs counted on it.
Sure(d, x) == d.daily[x] # None /\ d.daily[x].complete
Sound(d, watched) ==
  /\ d.daily[Day(d.last)] # None
  /\ \A x \in Days : d.daily[x] # None => x <= Day(d.last)
  /\ \A x \in Days \ forgotten : Sure(d, x) =>
       /\ d.daily[x].count = Cardinality(landed[x])
       /\ watched \/ x < Day(d.last) => x \notin unwatched
       /\ x = Day(d.last) => \A i \in landed[x] : \E h \in d.hashes : h.day = x /\ h.install = i
DbKept == IF db.last = None THEN ~up /\ \A x \in Days : db.daily[x] = None ELSE Sound(db, up)
Counts == \A h \in db.hashes : h.install \in landed[h.day]
ExportKept ==
  export # None => \A d \in Days :
    /\ export.daily[d] # None => d <= Day(export.at)
    /\ d < Day(export.at) /\ d \notin forgotten => d < Top /\ Exact(export.daily[d], d)
CheckInKept ==
  /\ CheckInShapes /\ OneToken /\ NothingLater /\ DbKept /\ Counts /\ ExportKept
=============================================================================
