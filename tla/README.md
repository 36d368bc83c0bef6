# TennoWorth in TLA+

TennoWorth values a Warframe inventory and lists items on warframe.market. It is
a desktop program that owns every account operation, a public site and an
overlay, and beside them a host that publishes market data, announcements and
two small collectors. This directory models the parts of it that keep state and
can lose it: listing on the user's account, the account session, the request
budget, the response cache, the signed restrictions, the trade ledger and what
follows a sale, the user's status, watches, reminders, scans, the overlay, price
reports and check-ins, the files fetched from the site, and on the host the
announcement publisher with its jobs and sign-in, and the market scraper.

TLC checks each module on a small instance. TLAPS proves, for every value of the
constants, all but two of the safety properties the runs check, and the
refinement of the batch executor. The code is the reference: `PROJECT.json` maps
each definition to the lines it models.

- [Inventory](#inventory)
- [Modules](#modules)
- [Runs](#runs)
- [Proofs](#proofs)
- [Divergences found](#divergences-found)
- [Not modelled](#not-modelled)
- [Plan](#plan)

Paths below are under `src/`; `desktop` is `rust/tennoworth-desktop/src`.

## Inventory

Each component: its state, its operations, who it talks to, what is hard about
it, and what makes it correct.

### On the user's account

**Listing batch and journal** (`rust/wfm-trading/src/orders`,
`desktop/commands/listing.rs`, `desktop/services/trading/order_mutations.rs`).
State: `pending_plan.json`, the account guard `plan_running`, each command's copy
of the batch. Operations: submit, resume, discard, the loop over the items,
finish, and single-order update, delete, visibility and adjustment under the
same guard. Sends through the governor; logout removes the journal. Hard: a
crash or a failed write between two steps, an answer that is lost or late, the
user changing orders on the website, two commands at once. Correct when no item
is carried out twice, what the journal says of an item is true, and an
unfinished batch leaves the disk only when its user gives it up.

**Account session** (`desktop/services/wfm/session.rs`, `commands/auth.rs`,
`persistence/keyring_store.rs`, `rust/wfm-trading/src/auth.rs`). State: the
unlocked account and a generation, the encrypted login file, the keyring entry,
two locks. Operations: sign-in, unlock, silent unlock at start, logout, and any
command that takes the account. Hard: each network, file and keyring call takes
long and other commands run meanwhile. Correct when a logout is final for
everything begun before it, and the keyring holds only a key that opened.

**Trade recording and allowance** (`desktop/services/game_log`,
`services/trading/trades.rs`, `persistence/trades.rs`,
`services/inventory/acquisition.rs`). State: the tailer's position, its dialog
buffer and its held queue; the trade rows and the allowance row. Operations: a
poll, a line, insertion of a trade with the allowance in one transaction,
adjustment of the sold listing, a scan of the game. Hard: a trade happens while
a scan runs, the database refuses, the game or the program is started again.
Correct when each trade is recorded once and in order, and a number of
remaining trades shown as certain is exact.

**Sellables, protection, outcomes, trade ledger views**
(`desktop/services/market/sellables`, `services/trading`). Calculations over one
snapshot, and rows kept for statistics. ListingPlan has their verdict on an item.

### Towards warframe.market

**Governor and sending** (`rust/wfm-client/src/governor.rs`, `transport.rs`).
State: the queue, permits, spacing, the foreground streak, restrictions, the
cooldown and its file, a revision that wakes waiters. Operations: `acquire`, the
permit's drop, `apply_policy`, `throttled`, cancel, and the attempts of
`send_on`. Everything that talks to the market goes through it, from many
threads. Hard: a wakeup missed between looking and waiting, a retry of what may
have been carried out, a restart inside a cooldown. Correct when permits are
neither leaked nor doubled, no call waits for ever, a mutation in doubt is not
repeated and an announced cooldown is kept.

**Response cache** (`read_json_observed` in `transport.rs`). State: entries with
their payload and completion. Operations: lookup, load, completion, clean-up
after a failure, eviction, invalidation by a mutation or a change of the
session. Hard: loads under way across a mutation. Correct when a read that
begins after a mutation returned shows it.

**Signed access policy** (`rust/wfm-client/src/policy.rs`). State: the policy
file, the policy in force, its entity tag. Operations: load at start, fetch,
accept. Hard: a replayed older policy, a rotated key, a write that fails on
either side of the rename. Correct when the policy in force only moves forward.

**Presence** (`desktop/services/wfm/presence.rs`,
`rust/wfm-trading/src/presence`). State: the status to keep up, its renewal
time, the app's own revision, pending replies, one socket. Operations: set, renew,
follow a change made on the website, reconnect, quit. Hard: an announcement
before the answer it belongs to, a refusal of an older change, a command handled
while disconnected. Correct when a change made elsewhere ends the following and
the app's own does not.

**Watches** (`desktop/services/watches`). State: the watch rows with the time
each last fired, the stream's cached copy of them (60 s), the one ready offer.
Operations: a poll pass (10 min, or 60 beside a live stream), an order from the
stream, an offer's recheck and dismissal. Hard: poll and stream fire the same
watch from copies. Correct when one crossing notifies once in six hours, and an
offer copied is one that was just checked.

**Notifications and reminders** (`desktop/services/notifications`,
`services/announcements.rs`, `persistence/notifications.rs`). State: the inbox
and one checkpoint per key, with the last phase told and when it may be
forgotten. A loop of one minute tells of a due announcement and of the phase of a
visit, then prunes. Hard: the checkpoint is all it remembers, and schedules and
clocks move. Correct when nothing is told twice.

### On the user's machine

**Automatic scan** (`desktop/services/inventory/auto_scan.rs`). State: settings,
when the game was first seen, attempts, a hold set while a listing is reviewed.
`decide` waits 60 s for a new game, tries six times 90 s apart, then every 15,
30 or 60 minutes; the hold is looked at again after the walk. In the page
(`frontend/src/desktop/inventory`) a scan is swapped in, offered or dropped.
Correct when the newest scan is on screen or at hand, and the schedule does not
stop.

**Market snapshot cache** (`desktop/services/market/cache.rs`). State: for each
artifact a body file and an entity-tag file. Refresh fetches, verifies a
signature, and replaces unless the stamp is older. Hard: two files that are
written one after the other. Correct when neither an older nor an unsigned body
replaces a newer one, and a tag never hides one. The definitions of the memory
scan are a second such pair of files, with a reset when a newer build judges
them anew.

**Usage check-in and price reports** (`desktop/services/telemetry`). State:
consent, a daily token; for reports a key, a mark in the trade rows and a weekly
count. Operations: prepare and confirm, a pass, consent, withdrawal, erasure.
Hard: consent withdrawn while a request is on its way. Correct when a day counts
once, and no trade made without consent is uploaded.

**Desktop database** (`desktop/persistence`). One SQLite connection behind one
mutex; every operation a component relies on is a step of its module.

**Overlay** (`desktop/overlay`). State: the card and the notice on screen with
their generations, a capture pass, sleeping timers. Operations: a line of the
log, a pass, a preview, hiding, a notice, a timer. Hard: each works on the same
surfaces from its own thread, over a display that refuses or is late. Correct
when what was put up is taken down.

**Vision, game memory, shell, web client** (`desktop/vision`,
`rust/game-acquisition`, `desktop/shell`, `frontend/src`). Recognition, native
windows, reading another process, tray and updates, and the user interface with
its controllers. They feed the components above.

**Market arithmetic** (`rust/market-domain` and its wasm binding). Pure
functions on decimals: scoring, advice, planners.

### On the host

**Announcement store** (`rust/tennoworth-publisher/src/store.rs`,
`rust/announcement-feed`). State: a SQLite database of drafts, published
messages, events and past requests with three revisions, and the public feed
file. Operations: a change under an expected revision, replay of one already
made, export, opening, recovery, backup. Hard: a stop between commit, rename and
mark, requests repeated or late, a clock set back, a database restored below a
public feed. Correct when the public feed only moves forward and catches up, and
a change applies only to what its author saw.

**Publisher API, jobs and sign-in** (`lib.rs`, `ops.rs`, `auth.rs`, `public.rs`
of the publisher, `frontend/src/admin`). The maintenance timer; the start
of a job under an admission lock, with a cooldown read from its own rows; the
identity provider's keys, fetched again after an hour and dropped after a day.
Hard: browsers that leave in the middle of a handler, fetches that fail. Correct
when a job starts once in its cooldown and a withdrawn key signs nobody for long.

**Collectors** (`rust/tennoworth-collectors`). Two services, usage and reports,
each with a gate: a window of one second and 16 slots per lane. Daily tokens,
reports by reference, erasure by key.

**Scraper and artifact build** (`rust/wfm-scrape`, `deploy/bin/run-scrape.sh`).
State: the CSV with its checkpoints, the cache of statistics, the snapshot with
the age of each surface, a year of daily medians. Operations: a sweep by several
workers and a collector, the script's choice to publish, the reconciliation of
fresh, old and missing sources, the daily fetch of the history. Hard: one worker
or one source fails and the others go on. Correct when what is published is one
whole sweep, no surface looks younger than it is, nothing irreplaceable is lost
and no day is lost quietly.

**Deployment, localisation, assets** (`deploy`, `frontend/src/i18n`,
`.github`). Scripts and data.

## Modules

A module has its state as VARIABLES and one action per step of the code that
another actor could come between. `...Proofs` extends it with the theorems.
(`PolicyAndTradesProofs` extends the run of its two components, where the policy
is `P`.) `Bug_` operators are plausible mistakes in the code; `PROJECT.json` names the
property that each of them breaks. Three small modules, `JournalPromise`,
`Alerts` and `Reports`, instantiate a component and state what it promises;
`ScanPromise`, `Clients` and `Services` do so for one, three and nine
components, together with the invariants of their proofs.

| Module | Models | Promise, proofs |
|---|---|---|
| `ListingPlan`, `OfferOnce` | batch executor, and the promise it implements | `JournalPromise`, `ListingPlanProofs` |
| `WfmSession` | account session | `WfmSessionProofs` |
| `Governor` | request budget and `send` | `GovernorProofs` |
| `ReadCache` | shared reads beside mutations | `Services`, `ServiceProofs` |
| `AccessPolicy` | signed restrictions | `PolicyAndTradesProofs` |
| `Publication` | publisher's store and feed | `PublicationProofs` |
| `TradeLog` | tailer, ledger, allowance, scan | `PolicyAndTradesProofs` |
| `SoldListings` | what follows a sale in the log | `Services`, `ServiceProofs` |
| `Presence` | the status on warframe.market | `Clients`, `SiteProofs` |
| `Artifacts`, `Definitions` | market snapshot and scan definitions on disk | `Clients`, `SiteProofs` |
| `Watches` | price watches | `Alerts`, `AlertProofs` |
| `PriceReports` | sales shared under consent, and the collector | `Reports`, `SiteProofs` |
| `AutoScan` | scans, and the snapshot in the page | `ScanPromise`, `ListingPlanProofs` |
| `Overlay` | reward cards and notices | none |
| `CheckIn` | daily check-in, its collector | `Services`, `ServiceProofs` |
| `Jobs`, `SignInKeys` | the dashboard's jobs and sign-in | `Services`, `ServiceProofs` |
| `Reminders` | visits and announcements told once | `Services`, `ServiceProofs` |
| `Sweep`, `Surfaces`, `PriceHistory` | the scraper, the build and its history | `Services`, `ServiceProofs` |

**One run, several components.** Each component is checked alone: none of them
reads another one's state, and where they meet in the program the other side is
an input of the model. A run with several of them has a variable `part` that
says which one the behaviour is of, so its states are the sum of theirs and not
the product. `Services` gives its nine components the same variables, `x1` to
`x20`, under their own names. The proofs are about the specification of each
component and do not mention `part`, except that a property of `Services` is
conditional on it.

### On the user's account

*ListingPlan.* `guard` is `plan_running`, `journal` the file,
`mem`/`idx`/`seen`/`result` a command's locals, `wire` the requests sent and not
yet handled, `market` the orders. A request may be accepted or refused long after
its sender gave up, or lost. Every journal write is atomic and may fail with the
old or the new content in place. `ResumeLoad` is a step before `ResumeBegin`
because the code reads the journal before it takes the guard. Validation, caps
and decimals are one verdict per item; price, quantity and visibility are one
value, `Terms`. `OfferOnce` says what the batch promises without a journal: an
item is offered again only when every earlier offer is known to have died.

*WfmSession.* A sign-in is a number for its account, its salt and its key. Each of
the calls an unlock, silent unlock, sign-in or logout makes is a step; the login
file is truncated and then written, so a crash leaves it `Torn`; a keyring call
may fail and change nothing. `voided` and `published` are history: the sign-ins a
logout ended and those that were opened. The silent unlock's check that a login
file exists and its capture of the generation are one step.

*TradeLog.* `log` is the part of EE.log that matters: a line when the game asks
and one when the trade went through, each whole and identifiable. `Duplicate`,
`Reconcile` and `MadeUp` are `insert_trade`, `Observation::reconcile` and
`save_allowance`. One UTC day and one account. A refused database write may have
been kept. History: `missed` (the program could not record it), and on the
allowance row `unmarked` (the database refused to take the certificate back) and
`blind` (a gap came between the answer of the scan and its row).
`CertifiedFigure` exempts both: the first is best effort in the code, the second
is the divergence `EveryGapStops` shows.

*SoldListings.* After the record of a sale: the account guard, the read of the
orders, one update at a time, and the report. The website, other commands and a
logout come between any two; an update may be lost, refused or arrive late.

*AutoScan.* `Decide`, the walk, the record and the event of the loop; the tray's
and the user's own scan under the same owner (`SCAN_ACTIVE`); the hold; and the
page with its generations. Time is in ticks, an age stops at the cadence. Clearing
the inventory and importing one by hand are left out.

### Towards warframe.market

*Governor.* Time is a tick of the shortest spacing, kept as distances (since the
last start, until the cooldown's end) so that it needs no bound. The wall clock
is not set by hand. `woken` stands for a revision that differs from the one a
thread observed. The drop of a permit belongs to the step that ends the attempt.
`landed`, `overtaken`, `announced` and `writeLost` are history.

*ReadCache.* `truth` numbers the versions of the account and `settled` is the
newest that a returned mutation made. Payload, completion and removal after a
failure are steps of their own, since other readers see them apart.

*AccessPolicy.* An envelope is a revision, restrictions and the key that signed
it; builds are numbered by their key and know earlier ones as retired. The
address serves any envelope at any time. The file is written, then the policy
activated; either write outcome is possible when the write fails.

*Presence.* One thread with its command queue, `Brain` (what is kept up and why),
the pending changes with their revisions, and one socket. `wire` and `inbox` are
frames under way in each direction; the server answers a change before it
announces it, and it answers the socket that asked: each has message numbers of
its own. What a dropped socket left under way goes to `stray` when the next one
connects; the server may take it at any time and then announces the change to the
socket there is, which got no answer (`CommitStray`). An announcement is `own`
when the socket that hears it made the change. `misheard` is history: an own
change that was taken for one made elsewhere. Clocks and texts are left out.

*Watches.* Pass and stream each hold a copy of the table and judge it;
`RecordCheck` and the claim of the checkpoint are single transactions. Times are
ages in periods. `nagged` is history: a watch announced twice within its re-arm
time. The banner that offers to buy is left out.

*Reminders.* `check` is the checkpoint of a key, `slack` what the end of a visit
and the clock may still move: together a day, which is what `Expires` allows for.

### Files, reports and screens

*Artifacts, Definitions.* A version is what the site served at one time; body and
tag are written one after the other, a write may be refused, the program may die
between. `parsed` is the market in memory under the stamp of its file. For the
definitions neither a refused write nor a refused removal is looked at: `lost`
are the versions whose tag may for that reason be on disk without their body.

*PriceReports.* Mark, consent, the pass with its batches, the erasure,
requests given up that arrive later, and what the collector holds. A pass and an
erasure exclude each other, but consent is given under another lock and moves the
same mark: an erasure's read of the newest id (`EraseReads`) and its move of the
mark (`EraseMarks`) are therefore apart, and so are a pass's look at consent, its
read of the mark, its read of the trades and each post. Trades none of which is a
sale are settled without a post, by a step of its own. History: what was posted,
removed, agreed to, or traded in private, that is, with sharing off, no pass
begun and no erasure between those two steps.

*CheckIn.* The client's day token and attempts; the collector's tick, count,
certificate of a day, export and restore; lost answers, and losses of the
database. A day that was under way, or later, when the database was lost while
its clock had gone back is `forgotten` and not spoken of.

*Overlay.* The card's `claim, show` and the hide's `bump, clear, hide` are apart,
as in the code; recognition is an input; a display may be given up and appear.

### On the host

*Publication.* `db` is the database as one value, replaced by each transaction:
revisions, drafts, what is live, the feed, past requests. A request carries the
page it was composed on; once in `sent` it may arrive at any time and again.
`proc` is where the service stands between commit, rename and mark; `Clock` holds
the readings the wall clock may give in any order. `Recover` is taken only after
a restore or a loss: that is what the operator's manual is for. History rows and
`ever_published` are left out, as is a corrupted file.

*Jobs.* Each await of `run_job` is a step; a browser that leaves drops the handler
and the lock with it, while the thread that records goes on. *SignInKeys.* One
mutex over the cached key set and its fetch; the provider answers at some time
within it.

*Sweep.* Workers claim items and send rows to a collector, which writes
checkpoints and in the end the CSV; the cache of statistics outlives a sweep; the
script publishes a CSV that is new and long enough. A file remembers its sweep
and what its workers had kept. *Surfaces.* One day's reconciliation of what each
source gave with the prior snapshot; Baro's stock, which the code takes from two
sources, one of them lagging, has one. *PriceHistory.* The artifact, the days of
the mirror, and one run that fetches, applies and moves the window.

## Runs

Times are of one run with two workers, beside a second one.

| Run | Instance | States | Time |
|---|---|---|---|
| `calls_watches` | governor: 2 threads; mutation, foreground read, background contract read; queue 2, 2 permits, streak 2; one each of throttle, failure, policy, restart, cancel. Watches: 2, one event | 2.93 M | 195 s |
| `calls_batch_alerts` | governor: 3 threads, queue 3, 2 permits, streak 1. Batch: 1 batch of 2 items, an editor, 1 crash, 1 website edit, 2 sends per item. Watches: 1, three events | 383 k | 110 s |
| `batches_reports_scans` | batches: 1 item, 2 slots, 2 batches, an editor, 1 crash, 1 edit. Reports: 2 trades, 4 clicks, 2 upsets. Scans: 2 snapshots, 2 moves, 1 fault | 1.07 M | 190 s |
| `session_overlay` | session: 2 tasks, 2 sign-ins, 1 logout, 2 unlocks, 1 batch, 1 crash. Overlay: 1 screen, 1 slot, 1 card, 2 events | 693 k | 175 s |
| `policy_trades` | policy: 3 revisions, 2 bodies, 2 keys, 3 changes of what is served, 2 failures, 1 crash. Trades: 2, 1 scan, 2 upsets | 1.86 M | 160 s |
| `publication_clients` | publisher: 1 author, 1 entry, 3 requests, clock {1, 4}, 3 upsets. Snapshot: 2 refreshers, 1 reader, 2 versions. Definitions: 3 versions. Presence: 3 events | 2.14 M | 205 s |
| `safety_parts` | cache: 2 readers, a mutator, 2 keys, 1 entry. Sweep: 2 workers, 2 sweeps. Jobs: 3 clicks. Check-in: 1 install, 2 days, 2 upsets. Keys: 2, 2 rotations. Reminders: 1 visit, 2 messages. Sales: 2. Surfaces: 4 days. History: 5 days, windows of 3 and 2 | 5.37 M | 200 s |
| `stale_resume`, `newer_entry`, `scan_gap`, `offer_lost`, `reports_consent` | see [Divergences](#divergences-found) | violation | |

**What they show.**

- *Batches* (`calls_batch_alerts`, `batches_reports_scans`). Over crashes, failed
  journal writes, late and lost answers and website edits, no item is carried out
  twice (`AtMostOnce`), the journal tells the truth, the executor implements
  `OfferOnce` (`OffersOnce`), and an unfinished record leaves the disk only by a
  discard or logout and does not return (`OnlyDiscardEnds`).
- *Session.* No straggler undoes a logout in memory or on disk (`LogoutWins`), no
  batch trades for an account logged out under it, and every command returns and
  gives the account back (`Returns`).
- *Governor.* Background work gets its turn, a mutation in doubt is not repeated,
  the cooldown is kept over a restart; no wakeup is lost (`EveryCallLeaves`).
- *Cache.* A read that begins after a mutation returned shows it.
- *Policy.* The newest stays in force; one that goes on being served arrives.
- *Trades.* A figure shown as certain is exact (`CertifiedFigure`), the tailer
  records every trade in the end, and what the user is told of a sale's listing
  is what became of it (`ToldTheTruth`).
- *Presence.* The program never takes a change it made over the open socket for one
  made elsewhere, and what it keeps up is shown in the end.
- *Watches and reminders.* One alert per re-arm time, and one that stays wanted
  comes again; no phase of a visit and no announcement is told twice.
- *Snapshot and definitions.* A tag names what is held or something older, but for
  the tag of a version of the definitions whose own body was refused by the disk,
  or removed without it; a parse belongs to its file, a good body is never
  replaced by an older one.
- *Reports and check-ins.* What was erased is not sent again, what was agreed to
  arrives; a day served as complete is exact.
- *Scans and overlay.* The newest snapshot is on screen or at hand, a running game
  is scanned, a notice comes down.
- *Publisher.* An exported revision is public and the public catches up, a change
  applies only to what its author saw, a job starts once in its cooldown, a
  withdrawn key signs nobody a day later.
- *Scraper.* What is published is one whole sweep; a stamp is not later than the
  data; what only one source can give is not lost; no day of the
  stretch fetched without a break is lost quietly (`GapsAreNamed`).

**Why the bounds are enough.** Each hazard needs few actors: a straggler and a
logout; one item in doubt and a restart; a load and a mutation. Two batches are
the least for one to replace another, two items for one to be finished while the
next is in doubt, two keys in a cache of one entry for an eviction under load,
three revisions and two keys for a replay across a rotation, two instants of the
clock around the end of the one content for a message to expire and for the
clock to be set back, three requests for two to be committed and one to conflict.
Two trades and four clicks are a consent, a withdrawal, a second consent and an
erasure with a trade on either side; two snapshots and two overlapping refreshes
are an older and a newer one; two workers are one that fails while the other
sends; three clicks are one whose start goes unrecorded and two after it; windows
of three and two in five days let the history move its window, be late and start
over. `Streak` is 2 and 1 where the code has 4, `MaxEntries` 1 where it has 256:
the limit is reached either way. Symmetry is used for the threads of
`calls_watches` only, which checks no liveness. The theorems need no bound.

**Deadlock** is checked in `calls_watches` and `calls_batch_alerts`, where time
always passes. The others say `CHECK_DEADLOCK FALSE`: users may stop and bounds
run out. That nothing hangs is stated as liveness instead.

**Fairness.** Weak fairness on the steps a started thread takes by itself: a
blocking task runs, and each network step is ended by a timeout of the client
(30 s for a request, 5 s for the policy, a quarter of an hour for the sign-in
window). Strong fairness where a lock is taken that others may take many times
first: the credential mutex in the session, the delivery lock of the price
reports by an erasure. Beyond that:

- `Governor`: time passes, and each thread goes on with its call.
- `Publication`: `Service`, systemd's `Restart=on-failure` with `RestartSec=5` and
  the timer of 15 s.
- `Presence`: the thread moves on from each phase and tries each connection, and
  a change sent is carried out or the socket drops.
- `Watches`: the pass, the stream and time move. `PriceReports`: the sender, the
  collector, and an erasure begun.
- `Overlay`: the pass, a preview, the log reader, each hide, each timer, the
  thread of the notices, and a display that appears.
- `AutoScan`: the loop's tick and walk, the hold's message, and each scan's end.

Nothing is assumed of users, of the market or of the operator, and failures are
bounded, which is what "until it succeeds" needs. Liveness has the form `[]<>`
where the code starts over: something is reached again and again.

## Proofs

Each listed theorem is `Spec => []P`, `Spec => [][A]_vars` or the refinement, for
every value of the constants that the named assumptions allow. **P** marks those
whose property is no longer given to a run, or never was: TLC checked it before.

| Theorem | States | For |
|---|---|---|
| `TypeCorrect`, `GuardExcludes`, `DiskMarkedFirst` | P `TypeOK`, `OneMutator`, `MarkedBeforeSend` | any commands |
| `CarriedOutAtMostOnce`, `JournalIsTruthful`, `OnlyDiscardOrLogoutEnds`, `ImplementsOfferOnce` | `AtMostOnce`, `JournalTellsTheTruth`, `OnlyDiscardEnds`, `OffersOnce` | one task for batches (`Solo`), any editors |
| `InDoubtNeverReoffered` | P `NeverReofferedInDoubt` | the same |
| `LogoutAlwaysWins`, `BatchKeepsItsAccount` | `LogoutWins`, `BatchAccountStands` | any tasks |
| `SessionTyped`, `KeyringOnlyOpened` | P `TypeOK`, `RememberedOnlyIfOpened` | the same |
| `MutationSentOnce`, `CooldownAlwaysHonoured`, `BackgroundGetsItsTurn` | `MutationNotRepeated`, `CooldownHonoured`, `BackgroundTurn` | any threads, limits and restrictions |
| `EveryCallAccounted` | P `CallsAccounted` | the same |
| `ReadsSeeMutations` | `FreshAfterMutation` | any readers, mutators, keys, capacity |
| `LoadsAreShared` | P `InFlightShared` | any readers, keys, capacity |
| `PolicyNewest` | `NewestInForce` | any revisions and keys |
| `PolicyNeverRollsBack`, `RetiredKeyBringsNothing`, `TagNamesPolicyInForce` | P `NeverRollsBack`, `RetiredKeyStops`, `TagIsCurrent` | the same |
| `ExportMarkIsTrue`, `AppliesWhatWasReviewed` | `ExportedIsPublic`, `ReviewedIsApplied` | any authors, limits and clocks |
| `PublicationTyped`, `StartsAgain`, `RefusalsAreFinal`, `FeedNeverGoesBack` | P `TypeOK`, `Restartable`, `ConflictIsFinal`, `FeedMovesForward` | the same |
| `OwnChangeNeverMisheard` | `OwnChangeKept` | any commands, frames, drops and late messages |
| `GameIsFollowed`, `RenewalsYield`, `StatusTyped` | P `FollowsInGame`, `RenewalYields`, `TypeOK` | the same, and any settings |
| `ParsedNeverMistaken`, `SnapshotsOnlyForward`, `TagsNeverHideTheNewer` | `ParsedIsTheFile`, `SnapshotsMoveForward`, `TagsNameWhatIsHeld` | any refreshers, readers and versions |
| `ErasedNeverSentAgain` | `RemovedNotSentAgain` | any trades, batches and failures |
| `PrivateNeverLeaves` | P `PrivateStaysLocal` | the same |
| `AnnouncedOncePerRearm` | `AlertsSpaced` | any watches and re-arm time |
| `FigureIsTheServers` | `CertifiedFigure` | any allowance, trades, scans, refusals and new starts |
| `TradesAreRecordedOnce` | P `RecordedOnce` | the same |
| `NewestScanIsAtHand` | `LatestIsAtHand` | any scans, games and reloads |
| `SalesAreToldAsTheyWere` | `ToldTheTruth` | any orders, items and sales |
| `NothingToldTwice` | `RemindedOnce` | any schedule and messages, moves of a day in all |
| `OneStartInItsCooldown` | `StartsAreSpaced` | any clicks and cooldown |
| `WithdrawnKeysStop` | `RevokedKeysStop` | any keys, rotations and expiry |
| `CompleteDaysAreExact` | `CompleteIsExact` | any installs, days and upsets |
| `OnlyWholeSweepsArePublished` | `PublishedIsOneSweep` | any workers, catalogs and interval |
| `SnapshotsTellTheirAge`, `SourcesFailSafely` | `StampIsHonest`, `NothingIsLost` | any keys and cycles |
| `NoDayIsLost` | `GapsAreNamed` | any items, days, windows and runs |

Every safety property of the passing runs, invariant or action property, is in
this table.

**Assumptions.** Each module names its own, in the form `...Constants`,
`...Bounds`, `...Names`. They say that bounds are numbers, that times the code
divides or compares by are positive, that finite sets are finite where they are
counted, and that marker values differ from data. TLC evaluates them in every
run. `Solo` is an assumption of five theorems alone: with two tasks for batches
they are false, as `stale_resume` shows. Bounds on how often something happens
are constants like the others: the theorems hold for all of them.

**Arguments.** None of the properties is inductive by itself. The invariants are
definitions of the modules, with a comment each; those of the first proofs stand
in their `...Proofs`.

- *ListingPlan.* `Base` (types, what each task's locals hold where it is, the
  guard, and `MarkedBeforeSend`: the disk says "uncertain" from before the order
  list is read until the result is saved) is inductive for any tasks. `SoloInv`
  adds: the task's copy is the journal while it works (`CopyIsJournal`), a batch
  not yet handed out has no request (`Issued`), at most one request of an item is
  alive or was carried out (`WireOnce`), an item in hand is marked (`Hands`), and
  a recorded status agrees with the wire (`JournalSafe`). At most once follows
  because an item offered is pending in the journal, and a pending item has
  nothing outstanding; that is also what maps a send to an offer of `OfferOnce`.
- *WfmSession.* `Sound`: who is in the credential section holds the lock, a task
  that captured the current generation works for a sign-in no logout has voided,
  and a task past the section's test is still at the current generation, because a
  logout needs the same lock.
- *Governor.* `Untouched`: a mutation that may have landed is past its last try.
  `Covered`: unless a write was lost, the announced time is within both the
  cooldown in memory and the one saved. The count of calls is kept as a disjoint
  union of queue, permits and hands; the streak bounds what overtakes a waiting
  background call.
- *ReadCache.* `UpToDate`: an entry still in the map carries, or will carry, at
  least the newest settled version, since the mutation's second invalidation
  removes every older one. `InFlight`: no two loads under way own the same entry,
  and an entry is complete only once its owner has said so, so neither eviction nor
  the failure of another load touches it.
- *AccessPolicy.* `Ordered`: while running, the policy in force is the newest
  ever in force, and the file is that one or the one about to be activated.
- *Publication.* `Sound`: in each phase, how the file, the feed in the database
  and the mark are related; every page's revision, if it is the current one,
  shows the current view (`Seen`); and what was refused is either behind the
  revision or under an identifier used for another change (`Final`).
- *Presence.* `AnsweredFirst`: an announcement in the inbox of a change made over
  this socket is at most the revision the program has heard of, or stands behind
  its answer.
  `LoopKept` adds the brain (`Sane`) and what it sends. A renewal falls due when
  nothing else is under way, so it is alone on the wire when it is sent (`DueAlone`,
  `RenewalsLead`). A change on the website that the program has heard of while it
  keeps something up can only be one it is overruling itself, after a reconnection
  (`Yields`), and then no renewal is due.
- *Artifacts, Definitions.* `HandsAreRight`: who writes holds the lock, and what it
  verified still replaces the body when it writes it. `StampsArePast`: no stamp
  is of a file yet to come. For the definitions, `FetchedIsNewest`: with its body
  written, or else counted as lost, what is fetched is the draft when its tag is
  written.
- *PriceReports.* What was removed, or traded in private, is behind the mark and
  behind every pass that read it (`RemovedIsPast`, `PrivateIsPast`); a consent
  under way moves the mark to a trade that is later than both (`ConsentIsLater`),
  and so does an erasure that has read the newest id (`ErasureIsLater`), since
  nothing counts as private while it is about to move the mark.
- *Watches.* While an alert is fresh, the checkpoint of the row is as fresh, in
  whatever copy the watch is looked at (`MarkHolds`, `CopiesAgree`).
- *AutoScan.* The newest snapshot is at hand, excused or on its way, and nothing
  older is loaded over it unnoticed (`LatestIsSomewhere`, `NotOverwritten`).
- *SoldListings.* `OnTheWay`: an order that was read is still to adjust, adjusted,
  or for review; what is called adjusted was carried out.
- *Reminders.* A checkpoint lasts at least as long as the visit can still be put
  off, or the clock set back into it (`Outlasts`); what was told is at most what
  it says (`Remembered`).
- *Jobs.* As long as no start went unrecorded, the rows are the starts but for the
  one being recorded, and a click that may start has read the newest.
- *SignInKeys.* Every key in the set was published when the fetch began or later
  (`SetIsYoung`), and a fetch takes at most its timeout.
- *CheckIn.* One token a day (`OneToken`), nothing is counted later than the last
  tick (`NothingLater`), a complete row counts what landed and its hashes hold
  those installs (`Sound`), and so does an export (`ExportKept`).
- *Sweep.* Until a sweep fails, every item is to be claimed, held or done with, and
  every row kept is with the collector or in the channel (`NothingMissed`).
- *Surfaces.* The stamp and the age kept for a key are at most the day it was read.
- *TradeLog.* `TradesKept` is inductive. A success is known by its session and its
  line, whether from the log, what is read of it, the held trades or the ledger,
  and belongs to one trade that was carried out before (`OnceEach`); so a position
  already in the ledger is the same trade and no other. The figure of a row, or of
  a scan under way, and the trades it counts add up to the allowance, and the
  looks at the log bound what it counts (`Tallied`); what it does not count is
  ahead of the tailer or recorded (`Accounted`), and recorded only if counted
  (`ObsKept`). A scan that no gap made blind misses nothing but what was logged
  after its first look (`ScanKept`), and that is what `MadeUp` makes up for. For
  the order of the ledger, `QueueKept`: ledger, held trades and the lines to come
  follow each other, and trades are numbered as they are logged.
- *PriceHistory.* `HistoryKept`: days after the last one with data are empty, and
  the rest is `GapsAreNamed` over the window, which a run extends, fills and moves.

Three definitions recurse over data: `MadeUp` over the ledger, `Drained` over the
commands of a turn, and the days that a run of the price history applies. The
theorems of induction are not usable here, since they take an operator as a
parameter; the proofs take the least number for which the claim fails instead
(`Foremost`, from the well-foundedness of the naturals as a set), both for the
function to exist and for what it keeps.

**Only model-checked.**

- Liveness is out of the prover's reach, as is ENABLED: `Returns`,
  `EveryCallLeaves`, `CatchesUp`, `TradesAreRecorded`, `PublicCatchesUp`,
  `KeptUpIsShown`, `SatisfiedIsAlerted`, `AgreedArrives`, `SnapshotArrives`,
  `NoticeComesDown`.
- Of the type invariants, those of `ListingPlan`, `WfmSession`, `Publication` and
  `Presence` are theorems; the others are part of a proof's invariant where it needs them
  (`Artifacts`, `Definitions`, `PriceReports`, `Watches`) or were checked by TLC
  alone (`Governor`, where the longest wait is a maximum over `Policies`, which
  are not assumed finite; `TradeLog`, `Overlay`, `AutoScan`).
- Properties a module states and no run is given: `AccountReleased`,
  `ReadsReturn` and `PassesEnd`, which are liveness, held when TLC was last asked,
  on instances like those of the runs; `SiteChangeStands`, `OneOfTwoPasses` and
  `RewardIsDismissed` are not kept by the code, see below.

No module declares a RECURSIVE operator. Proofs are checked with `tlapm`.

## Divergences found

Five are runs that TLC must find violated.

- `stale_resume`. `resume_pending_plan` reads the journal before it takes the
  guard and runs that copy. A second resume that waits sends what the first has
  sent; after a discard and a new batch it brings the old one back. The comment on
  `plan_running` promises "busy" instead of a race on the file.
- `newer_entry`. `unlock` looks at the login file's salt and then changes the
  keyring. A sign-in that completes between the two loses its keyring entry. The
  comment there says that it may not. The login itself is not harmed.
- `scan_gap`. A gap in the log marks the allowance row there is. One reported
  between a scan's second look and its row marks the old row, and the new one is
  certified. The comment says that every kind of gap stops certifying.
- `offer_lost`. A scan that was offered, taken and then cannot be loaded is gone:
  `adopt` swallows the error that `loadPending` waits for to put the offer back.
- `reports_consent`. The loop looks at consent, then the pass at the mark, then at
  the trades, then at consent again before each post. A pass that lives through a
  withdrawal and a new consent reads a trade recorded in between, since its mark is
  the old one, and posts it. The document says that only trades recorded after
  consent are ever read.

Others were seen while modelling and have no run. The models contain them, and
the properties are stated so that they hold beside them.

- *Accounts.* The journal names no account: a batch saved under one is resumed
  after a sign-in with another. An absolute quantity may raise a listing the user
  lowered meanwhile, where `trades.rs` says it only ever decreases. A sale whose
  row was kept although its insertion was refused is known when it is offered
  again, and its listing is not adjusted. Order rows that cannot be decoded are
  passed over silently.
- *Presence.* A change made on the website while the socket is down is overruled on
  reconnection (`SiteChangeStands`). A change the app sent over a socket that was
  then dropped, and that the server takes after the next one has signed in, is
  answered to nobody and announced with a revision above `own_revision`: the app
  takes it for an external one and stops following (`OwnChangeKept` speaks of the
  open socket). A game started during the goodbye of a quit leaves its status up.
- *Watches.* SQLite gives the id of the last watch, once removed, to the next one,
  which inherits its checkpoint and is silent for up to six hours.
- *Reports.* A post given up may arrive after a confirmed erasure. An erasure reads
  the newest id and then moves the mark: a trade recorded between the two with
  sharing off is posted when consent is given in the same moment, because the
  erasure's older mark overwrites the one of the consent (`PrivateStaysLocal`
  leaves out what is recorded in that moment; TLC finds the post without that).
- *Check-in.* After a clock set back across midnight and a loss of the database
  before it caught up, a day can be served as complete with counts missing
  (`forgotten`).
- *Overlay.* `lifecycle.rs` says a late price response or timer must not replace a
  newer preview; check and act are apart. A card claimed before the screen closed
  and shown after stays up (`RewardIsDismissed`), and so does one over settings
  switched off meanwhile. A failed show leaves `current_result` set, and notices
  are refused from then on.
- *Scans.* A hold that begins between the walk and the record does not stop the
  record. An answer to the user's own scan is dropped when an older scan's event
  bumps the generation. An offer taken late replaces a newer screen.
- *Snapshot and definitions.* The definitions' tag is written although the body's
  write failed, and a removal that fails or is cut short leaves it: "not modified"
  then hides the file until the next version. A cached body that
  cannot be used is kept by a matching tag. A body stamped in the future gives way
  to an older one under its tag.
- *Scraper.* A column missing from the history is not always "null everywhere"; a
  long outage leaves days that are empty and not listed. A cache of statistics
  that could not be saved hides that an item was absent. The floor that
  `run-scrape.sh` demands moves with what it accepted.
- *Jobs.* A browser that leaves while the record is pending takes the admission
  lock with it, and the next click passes too (`OneOfTwoPasses`); a request whose
  write failed may still have woken the unit.
- *Reminders.* A crash leaves a row "pending" for ever. An end put off after "ends
  within an hour" gets none again, one put off by more than a day tells again, and
  keys of the calendar contain the end.

## Not modelled

`PROJECT.json` lists every component with its status. Left out for good: user
interface, image recognition, memory reading, updates, deployment,
localisation, the scraper's parsing and rendering and the arithmetic of the
market domain. They keep no state that another component relies on, or are pure
functions with their own fixtures. Cryptography is modelled by what it tells
apart: a signature by its key, a digest by its record, an encrypted file by
whether it opens. Effects of a power loss on renames that were not synced are not
modelled. Left out for now: the collectors' request gate, the banner that offers
a watched item, the weekly limit of a sender, migrations.

## Plan

1. `Gate`: window and slots, and two allowances around the edge of a window.
2. `TradeLog`: a second account and a second UTC day.
3. Composition: the cache over the governor, and a listing batch over the
   session, so that a logout, a batch and a resume meet in one module.
