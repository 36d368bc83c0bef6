---------------------------- MODULE PriceHistory ----------------------------
(***************************************************************************)
(* A year of daily medians per item, out of a mirror that publishes one    *)
(* file a day, late and not always.  The artifact is the state: each run   *)
(* reads it, fetches the days after the last one that holds data, moves    *)
(* the window and writes it back.                                          *)
(*                                                                         *)
(* A median is the day it was traded, so that a column can be wrong.       *)
(***************************************************************************)
EXTENDS Integers, FiniteSets, FiniteSetsExt

CONSTANTS
  Items,
  Lengths,    \* window lengths a run may be started with
  Bootstrap,  \* days fetched when there is no prior
  MaxDay,     \* bound on the days
  None

VARIABLES
  yesterday,  \* the last day that is over
  traded,     \* for each day: the items its file holds
  hist,       \* the artifact, or None
  got,        \* for each day: how it was last answered: a file, an empty one, not at all
  since       \* the first day of the stretch that was fetched without a break
vars == <<yesterday, traded, hist, got, since>>

Days == 1 .. MaxDay
Init ==
  /\ yesterday = Max(Lengths) /\ traded \in [1 .. yesterday -> SUBSET Items] /\ hist = None
  /\ got = [d \in Days |-> None] /\ since = yesterday

---------------------------------------------------------------------------
\* History::empty: no series, and a window that ends yesterday.
Blank(days) ==
  [start |-> yesterday - days + 1, days |-> days, through |-> None, missing |-> {},
   median |-> [i \in Items |-> [c \in 0 .. days - 1 |-> None]]]
Usable(days) == hist # None /\ hist.days = days

\* dates_to_fetch
ResumeAt(h) == IF h.through = None THEN None ELSE h.through + 1
Fewer(m, n) == IF m < n THEN m ELSE n
FirstDate(days) ==
  LET first == IF Usable(days) /\ ResumeAt(hist) # None THEN ResumeAt(hist)
               ELSE yesterday - (Fewer(Bootstrap, days) - 1)
  IN Max({first, yesterday - days + 1})
Dates(days) == FirstDate(days) .. yesterday

\* apply_day: a date past the end moves the window so that it is the last column.
Moved(h, date) ==
  LET shift == date - h.start + 1 - h.days IN
  IF shift <= 0 THEN h
  ELSE [h EXCEPT !.start = @ + shift,
                 !.missing = {d \in @ : d >= h.start + shift},
                 !.median = [i \in Items |-> [c \in 0 .. h.days - 1 |->
                   IF c + shift < h.days THEN h.median[i][c + shift] ELSE None]]]
ApplyDay(h, date, rows) ==
  IF date < h.start THEN h
  ELSE LET m == Moved(h, date) IN
    [m EXCEPT !.through = IF rows # {} /\ (@ = None \/ date > @) THEN date ELSE @,
              !.median = [i \in Items |-> [m.median[i] EXCEPT
                 ![date - m.start] = IF i \in rows THEN date ELSE @]]]

\* update_history: the days that came, in order; then, of those that did not, the ones
\* before the last that did.
Rows(a, d) == IF a[d] = "file" THEN traded[d] ELSE {}
Answered(a) == {d \in DOMAIN a : a[d] # "failed"}
Came(h, a, dates) ==
  LET upTo[d \in {Min(dates) - 1} \cup dates] ==
        IF d \notin dates THEN h
        ELSE IF d \in Answered(a) THEN ApplyDay(upTo[d - 1], d, Rows(a, d)) ELSE upTo[d - 1]
  IN upTo[Max(dates)]
Bug_UntilOneCame(a) == {d \in DOMAIN a : a[d] = "failed" /\ \A ok \in Answered(a) : d < ok}
Gaps(a) == {d \in DOMAIN a : a[d] = "failed" /\ \E ok \in Answered(a) : d < ok}
Updated(h, a, dates) ==
  IF dates = {} THEN h
  ELSE LET m == Came(h, a, dates) IN [m EXCEPT !.missing = @ \cup Gaps(a)]

\* One run, with the window length it is started with.
Run(days) ==
  LET dates == Dates(days)
      h     == IF Usable(days) THEN hist ELSE Blank(days)
      goesOn == Usable(days) /\ hist.through # None /\ FirstDate(days) = hist.through + 1
  IN \E a \in [dates -> {"file", "empty", "failed"}] :
       /\ hist' = Updated(h, a, dates)
       /\ got' = [d \in Days |-> IF d \in dates THEN a[d] ELSE got[d]]
       /\ since' = IF goesOn \/ dates = {} THEN since ELSE FirstDate(days)
       /\ UNCHANGED <<yesterday, traded>>

Tick ==
  /\ yesterday < MaxDay /\ yesterday' = yesterday + 1
  /\ \E S \in SUBSET Items :
       traded' = [d \in 1 .. yesterday' |-> IF d = yesterday' THEN S ELSE traded[d]]
  /\ UNCHANGED <<hist, got, since>>

Next == (\E days \in Lengths : Run(days)) \/ Tick
Spec == Init /\ [][Next]_vars

---------------------------------------------------------------------------
TypeOK == hist # None =>
  /\ hist.days \in Lengths /\ hist.start <= yesterday
  /\ hist.through \in Days \cup {None} /\ hist.missing \subseteq Days
Window == hist.start .. hist.start + hist.days - 1

(* Up to the last day that holds data, every day the runs went through is     *)
(* accounted for: it is listed as missing, or its column holds exactly what   *)
(* the mirror answered for that day, and nothing of another day.  So neither  *)
(* a late file, nor a failed day, nor the moving window loses a day quietly.  *)
(* (dates_to_fetch, apply_day, update_history)                                *)
GapsAreNamed ==
  hist # None /\ hist.through # None =>
    \A d \in (Window \cap since .. hist.through) \ hist.missing :
      /\ got[d] \in {"file", "empty"}
      /\ \A i \in Items : hist.median[i][d - hist.start] =
           IF got[d] = "file" /\ i \in traded[d] THEN d ELSE None
\* What the proof of it rests on.  A run leaves the days before it alone, and those
\* from it on start out empty: no column after the last day with data holds any.
Last(h) == h.start + h.days - 1
Histories(n) ==
  [start : Days, days : {n}, through : Days \cup {None}, missing : SUBSET Days,
   median : [Items -> [0 .. n - 1 -> Days \cup {None}]]]
Sound(h) ==
  /\ h.days \in Lengths /\ h \in Histories(h.days) /\ Last(h) <= yesterday
  /\ h.through # None => h.through <= Last(h)
EmptyFrom(h, first) ==
  \A i \in Items : \A d \in h.start .. Last(h) : d >= first => h.median[i][d - h.start] = None
Upcoming(h) == IF h.through = None THEN 0 ELSE h.through + 1
HistoryKept ==
  /\ yesterday \in Days /\ since \in Nat /\ \A n \in Lengths : n <= yesterday
  /\ traded \in [1 .. yesterday -> SUBSET Items]
  /\ hist # None => Sound(hist) /\ EmptyFrom(hist, Upcoming(hist))
  /\ GapsAreNamed
=============================================================================
