------------------------------ MODULE Services ------------------------------
(***************************************************************************)
(* Nine components whose safety is asked for, and nothing that they do in  *)
(* the end: the response cache and eight more.  They share nothing: `part` *)
(* says which of them the behaviour is one of.  No two of them are ever in *)
(* one behaviour, so all but the response cache take the variables x1 to   *)
(* x20, each under its own names; those a part does not need stay None.    *)
(***************************************************************************)
EXTENDS ReadCache

CONSTANTS
  Workers, Catalogs, Retries, MaxWaits, CheckpointEvery, Budget, Interval, MinRows, MaxSweeps,
  SweepCrashes,                                             \* Sweep
  MaxClicks, Cooldown, JobTime, JobUpsets,                  \* Jobs
  Installs, MaxAttempts, DayLength, Gap, CheckInTime, CheckInUpsets, \* CheckIn
  SigningKeys, Refresh, Backoff, Expiry, Timeout, SignInTime, MaxRotations, MaxRequests, \* SignInKeys
  MaxMessages, Arrival, Departure, Hour, OneDay, ReminderTime, ReminderEvents, \* Reminders
  SoldOrders, SoldItems, Unnamed, SoldGiven, Odd, Seeded, MaxQuantity, MaxSales, MaxEdits,
  SaleFaults,                                               \* SoldListings
  SurfaceKeys, StaleDays, LastDay,                          \* Surfaces
  HistoryItems, Lengths, Bootstrap, LastHistoryDay          \* PriceHistory

VARIABLES part, x1, x2, x3, x4, x5, x6, x7, x8, x9, x10, x11, x12, x13, x14, x15, x16, x17,
  x18, x19, x20

S == INSTANCE Sweep WITH
  MaxCrashes <- SweepCrashes, sweep <- x1, catalog <- x2, phase <- x3, unclaimed <- x4, work <- x5,
  abort <- x6, failed <- x7, waits <- x8, channel <- x9, rows <- x10, entries <- x11,
  completed <- x12, coercions <- x13, out <- x14, cache <- x15, market <- x16,
  before <- x17, kept <- x18, scanned <- x19, crashes <- x20
J == INSTANCE Jobs WITH
  MaxTime <- JobTime, MaxUpsets <- JobUpsets, now <- x1, unit <- x2,
  admission <- x3, rows <- x4, recording <- x5, pc <- x6, at <- x7, busy <- x8,
  last <- x9, fired <- x10, unrecorded <- x11, upsets <- x12
C == INSTANCE CheckIn WITH
  MaxTime <- CheckInTime, MaxUpsets <- CheckInUpsets, now <- x1, up <- x2, db <- x3,
  export <- x4, consent <- x5, saved <- x6, state <- x7, phase <- x8, token <- x9,
  wire <- x10, made <- x11, landed <- x12, unwatched <- x13, forgotten <- x14, upsets <- x15
K == INSTANCE SignInKeys WITH
  Keys <- SigningKeys, MaxTime <- SignInTime, now <- x1, served <- x2, public <- x3, set <- x4,
  fetched <- x5, attempted <- x6, request <- x7, answer <- x8, verdict <- x9,
  rotations <- x10, requests <- x11
R == INSTANCE Reminders WITH
  Day <- OneDay, MaxTime <- ReminderTime, MaxEvents <- ReminderEvents,
  now <- x1, end <- x2, due <- x3, slack <- x4, check <- x5, enabled <- x6, step <- x7,
  todo <- x8, told <- x9, events <- x10
D == INSTANCE SoldListings WITH
  Orders <- SoldOrders, Given <- SoldGiven, Items <- SoldItems, MaxFaults <- SaleFaults,
  market <- x1, late <- x2, carried <- x3, sale <- x4, given <- x5, ledger <- x6,
  closed <- x7, auto <- x8, locked <- x9, guard <- x10, pc <- x11, seen <- x12,
  work <- x13, adjusted <- x14, review <- x15, there <- x16, report <- x17,
  edits <- x18, faults <- x19
F == INSTANCE Surfaces WITH
  Keys <- SurfaceKeys, MaxDay <- LastDay, day <- x1, keyed <- x2, rows <- x3,
  relics <- x4, stock <- x5, visit <- x6, seen <- x7
H == INSTANCE PriceHistory WITH
  Items <- HistoryItems, MaxDay <- LastHistoryDay, yesterday <- x1,
  traded <- x2, hist <- x3, got <- x4, since <- x5

\* Times are numbers, and None is none of the values it stands in for.
ASSUME JobsConstants == Cooldown \in Nat
ASSUME CheckInConstants ==
  /\ CheckInTime \in Nat /\ DayLength \in Nat \ {0} /\ IsFiniteSet(Installs)
  /\ None \notin Nat /\ None \notin [count : Nat, complete : BOOLEAN]
ASSUME SweepConstants ==
  Workers # {} /\ (UNION Catalogs) \subseteq Nat /\ Interval \in Nat \ {0}
ASSUME RemindersConstants ==
  /\ {MaxMessages, Arrival, Departure, Hour, OneDay, ReminderTime} \subseteq Nat
  /\ None \notin [stage : 1 .. 3, expires : Nat]
ASSUME SoldConstants == None \notin SoldGiven
ASSUME SurfacesConstants == None \notin {"legacy", "de"}
ASSUME HistoryConstants ==
  Lengths # {} /\ Lengths \subseteq 1 .. LastHistoryDay /\ {Bootstrap, LastHistoryDay} \subseteq Nat
ASSUME KeysConstants ==
  /\ Timeout \in Nat /\ Expiry \in Nat /\ None \notin Nat
  /\ \A ks \in SUBSET SigningKeys : None # ks
  /\ None \notin [keys : (SUBSET SigningKeys) \cup {None}, began : Nat]
  /\ None \notin [key : SigningKeys, at : Nat, accepted : BOOLEAN]

(* The CSV and the snapshot are each the whole of one sweep, on statistics    *)
(* younger than their interval. (sweep_items, run_scrape, run-scrape.sh)      *)
PublishedIsOneSweep == part = "sweep" => S!PublishedIsOneSweep
(* A job is started at most once in its cooldown. (run_job)                   *)
StartsAreSpaced == part = "jobs" => J!StartsAreSpaced
(* A day served as complete is exact. (usage/mod.rs, usage.rs)                *)
CompleteIsExact == part = "checkin" => C!CompleteIsExact
(* A withdrawn key signs nobody in a day later. (Access::principal)           *)
RevokedKeysStop == part = "keys" => K!RevokedKeysStop
(* No phase of a visit and no announcement is told twice. (reminders.rs)      *)
RemindedOnce == part = "reminders" => R!RemindedOnce
(* What the user is told of a sale is true. (handle_trade)                    *)
ToldTheTruth == part = "sold" => D!ToldTheTruth
(* A snapshot never calls itself younger than it is. (reconcile_keyed)        *)
StampIsHonest == part = "surfaces" => F!StampIsHonest
(* What only one source can give is not lost when it fails. (Stock, Relics) *)
NothingIsLost == [][part = "surfaces" => F!LosesNothing]_F!vars
(* No day of the history is lost quietly. (update_history)                    *)
GapsAreNamed == part = "history" => H!GapsAreNamed
=============================================================================
