------------------------------- MODULE Sweep -------------------------------
(***************************************************************************)
(* The scrape of the market every two hours: workers share one catalog,    *)
(* a collector puts their rows together, writes a checkpoint now and then  *)
(* and replaces the CSV once, when the sweep is complete.  Statistics are  *)
(* carried from sweep to sweep in a file of their own.  The script around  *)
(* it builds the snapshot from the CSV if that is new and long enough.     *)
(*                                                                         *)
(* A file holds, beside its rows, the number of its sweep, what its workers *)
(* had in truth kept when it was written, and whether they had been        *)
(* through the whole catalog; statistics hold the sweep that read them.    *)
(***************************************************************************)
EXTENDS Integers, FiniteSets, FiniteSetsExt, Sequences

CONSTANTS
  Catalogs,    \* sets of items, which are numbers in their order
  Workers,
  Retries, MaxWaits, \* RETRIES, and the waits a sweep may spend
  CheckpointEvery, Budget, \* checkpoint_every, max_coercions
  Interval,    \* of the statistics, counted in sweeps
  MinRows,     \* MIN_ROWS
  MaxSweeps, MaxCrashes, \* bounds
  None

VARIABLES
  sweep, catalog, \* the sweep under way, or the last, and what it goes through
  phase,       \* the run: idle, sweeping, completed, published, exited
  unclaimed, work, \* `next`, and each worker's item, step and attempt
  abort, failed, waits, \* the flag, whether a failure was reported, patience spent
  channel,     \* outcomes on their way to the collector
  rows, entries, completed, coercions, \* what the collector has
  out, cache, market, \* the CSV, the statistics, the snapshot
  before,      \* the CSV as the script found it
  kept, scanned, \* what the workers found, and the items they were done with
  crashes
run   == <<sweep, catalog, phase, before>>
crew  == <<unclaimed, work, abort, failed, waits, kept, scanned>>
desk  == <<rows, entries, completed, coercions>>
files == <<out, cache, market>>
vars  == <<run, crew, channel, desk, files, crashes>>

NoCache == [present |-> {}, entries |-> {}]
\* Statistics, each with the sweep it is stamped with and the one that in truth read it.
Entry(i, n, usable) == [item |-> i, at |-> n, read |-> n, usable |-> usable, emptyBook |-> FALSE]
Earlier(C) == [present |-> C, entries |-> {Entry(i, 0, TRUE) : i \in C}]
Resting == [item |-> None, step |-> "rests", attempt |-> 0, entry |-> None]
Fresh ==
  /\ abort' = FALSE /\ failed' = FALSE /\ waits' = 0 /\ channel' = <<>>
  /\ rows' = {} /\ entries' = {} /\ completed' = 0 /\ coercions' = 0
  /\ kept' = {} /\ scanned' = {}
Init ==
  /\ sweep = 0 /\ catalog = {} /\ phase = "idle" /\ before = None
  /\ unclaimed = {} /\ work = [w \in Workers |-> Resting]
  /\ abort = FALSE /\ failed = FALSE /\ waits = 0 /\ channel = <<>>
  /\ rows = {} /\ entries = {} /\ completed = 0 /\ coercions = 0
  /\ kept = {} /\ scanned = {}
  /\ out = None /\ market = None /\ crashes = 0
  /\ cache \in {NoCache} \cup {Earlier(C) : C \in Catalogs}

---------------------------------------------------------------------------
\* The script starts the sweep, whose catalog came through and is not empty; statistics
\* that cannot be read are as good as none.
Fault == crashes < MaxCrashes /\ crashes' = crashes + 1
Begin ==
  /\ phase = "idle" /\ sweep < MaxSweeps
  /\ sweep' = sweep + 1 /\ catalog' \in Catalogs /\ phase' = "sweeping"
  /\ unclaimed' = catalog' /\ work' = [w \in Workers |-> [Resting EXCEPT !.step = "claims"]]
  /\ before' = out /\ Fresh
  /\ \/ UNCHANGED <<cache, crashes>>
     \/ cache # NoCache /\ Fault /\ cache' = NoCache
  /\ UNCHANGED <<out, market>>

\* Cache::due: unknown, unusable, back after an absence, an empty book, or too old.
EntryOf(i) == {e \in cache.entries : e.item = i}
Due(i) == \/ EntryOf(i) = {} \/ i \notin cache.present
          \/ \E e \in EntryOf(i) : ~e.usable \/ e.emptyBook \/ sweep - e.at >= Interval
Does(w, step) == work' = [work EXCEPT ![w].step = step]
Reports(w) == failed' = TRUE /\ abort' = TRUE /\ Does(w, "rests")

Reused(e) == e
Claim(w) ==
  /\ work[w].step = "claims"
  /\ IF abort \/ unclaimed = {} THEN Does(w, "rests") /\ UNCHANGED unclaimed
     ELSE LET i == Min(unclaimed) IN
          /\ unclaimed' = unclaimed \ {i}
          /\ work' = [work EXCEPT ![w] =
               [item |-> i, attempt |-> 0, step |-> IF Due(i) THEN "statistics" ELSE "gate",
                entry |-> IF Due(i) THEN None
                          ELSE Reused(CHOOSE e \in EntryOf(i) : TRUE)]]
  /\ UNCHANGED <<run, channel, desk, files, abort, failed, waits, kept, scanned, crashes>>

\* fetch_json_in: an answer; a wait and another try, while there are both; or the end.
Fetching(w) == work[w].step \in {"statistics", "orders"}
Again(w) ==
  /\ Fetching(w) /\ work[w].attempt + 1 < Retries /\ waits < MaxWaits
  /\ waits' = waits + 1 /\ work' = [work EXCEPT ![w].attempt = @ + 1]
  /\ UNCHANGED <<run, channel, desk, files, unclaimed, abort, failed, kept, scanned, crashes>>
Gives(w) ==
  /\ Fetching(w) /\ Reports(w)
  /\ UNCHANGED <<run, channel, desk, files, unclaimed, waits, kept, scanned, crashes>>

\* scan_item: fresh statistics, the volume gate, the orders; the outcome is sent.
Statistics(w) ==
  /\ work[w].step = "statistics"
  /\ \E usable \in BOOLEAN :
       work' = [work EXCEPT ![w] =
         [item |-> work[w].item, attempt |-> 0, step |-> "gate",
          entry |-> Entry(work[w].item, sweep, usable)]]
  /\ UNCHANGED <<run, channel, desk, files, unclaimed, abort, failed, waits, kept, scanned, crashes>>
Sends(w, entry, row, coerced) ==
  LET i == work[w].item IN
  /\ channel' = Append(channel, [entry |-> entry, row |-> row, coerced |-> coerced])
  /\ kept' = IF row THEN kept \cup {[item |-> i, statistics |-> entry.read]} ELSE kept
  /\ scanned' = scanned \cup {i} /\ Does(w, "claims")
Gate(w) ==
  /\ work[w].step = "gate"
  /\ \/ Sends(w, work[w].entry, FALSE, 0)
     \/ work[w].entry.usable /\ Does(w, "orders") /\ UNCHANGED <<channel, kept, scanned>>
  /\ UNCHANGED <<run, desk, files, unclaimed, abort, failed, waits, crashes>>
Orders(w) ==
  /\ work[w].step = "orders"
  /\ \E row \in BOOLEAN, emptyBook \in BOOLEAN, coerced \in {0, 1} :
       /\ emptyBook => row
       /\ Sends(w, IF row THEN [work[w].entry EXCEPT !.emptyBook = emptyBook] ELSE work[w].entry,
                row, coerced)
  /\ UNCHANGED <<run, desk, files, unclaimed, abort, failed, waits, crashes>>

---------------------------------------------------------------------------
\* The collector. A row counts unless the budget is spent; a checkpoint goes to a file of its
\* own that nobody reads, and one that fails ends the sweep.
Written(of) == [rows |-> of, kept |-> kept, whole |-> scanned = catalog, sweep |-> sweep]
Checkpoint(file) == UNCHANGED out
Collect ==
  /\ phase = "sweeping" /\ channel # <<>>
  /\ LET o == Head(channel) IN
     /\ entries' = entries \cup {o.entry} /\ coercions' = coercions + o.coerced
     /\ IF coercions' > Budget
        THEN /\ abort' = TRUE /\ failed' = TRUE /\ channel' = Tail(channel)
             /\ UNCHANGED <<rows, completed, phase, out>>
        ELSE /\ rows' = IF o.row
                        THEN rows \cup {[item |-> o.entry.item, statistics |-> o.entry.read]}
                        ELSE rows
             /\ completed' = completed + 1
             /\ UNCHANGED abort
             /\ IF completed' % CheckpointEvery # 0 \/ rows' = {}
                THEN channel' = Tail(channel) /\ UNCHANGED <<out, phase, failed>>
                ELSE \/ Checkpoint(Written(rows')) /\ channel' = Tail(channel)
                        /\ UNCHANGED <<phase, failed>>
                     \/ /\ phase' = "exited" /\ failed' = TRUE /\ channel' = <<>>
                        /\ UNCHANGED out
  /\ IF phase' # phase THEN Fault ELSE UNCHANGED crashes
  /\ UNCHANGED <<sweep, catalog, before, cache, market, unclaimed, work, waits, kept, scanned>>
\* All senders are gone and the channel is empty: the sweep failed, or is complete.
Bug_IgnoresFailure(f) == FALSE
EndsInFailure(f) == f
Over ==
  /\ phase = "sweeping" /\ channel = <<>> /\ \A w \in Workers : work[w].step = "rests"
  /\ phase' = IF EndsInFailure(failed) \/ rows = {} THEN "exited" ELSE "completed"
  /\ UNCHANGED <<sweep, catalog, before, crew, channel, desk, files, crashes>>

\* run_scrape: the one replacement of the CSV, and then the statistics, which may fail.
Publish ==
  /\ phase = "completed"
  /\ \/ /\ phase' = "published" /\ UNCHANGED <<failed, crashes>>
        /\ out' = Written(rows)
     \/ Fault /\ failed' = TRUE /\ phase' = "exited" /\ UNCHANGED out
  /\ UNCHANGED <<sweep, catalog, before, unclaimed, work, abort, waits, kept, scanned, channel,
                 desk, cache, market>>
Save ==
  /\ phase = "published" /\ phase' = "exited"
  /\ \/ cache' = [present |-> catalog, entries |-> entries] /\ UNCHANGED crashes
     \/ Fault /\ UNCHANGED cache
  /\ UNCHANGED <<sweep, catalog, before, crew, channel, desk, out, market>>

---------------------------------------------------------------------------
\* run-scrape.sh: a sweep that succeeded, a CSV that was replaced, and its floors. The
\* build of the snapshot may fail.
Count(file) == IF file = None THEN 0 ELSE Cardinality(file.rows)
LongEnough ==
  /\ Count(out) >= MinRows
  /\ Count(before) > 0 => Count(out) >= (Count(before) * 3) \div 4
Script ==
  /\ phase = "exited" /\ phase' = "idle" /\ before' = None /\ catalog' = {} /\ unclaimed' = {}
  /\ work' = [w \in Workers |-> Resting] /\ Fresh
  /\ IF ~failed /\ rows # {} /\ out # before /\ LongEnough
     THEN market' \in {out, market} ELSE UNCHANGED market
  /\ UNCHANGED <<sweep, out, cache, crashes>>
Crash ==
  /\ phase \notin {"idle", "exited"} /\ Fault
  /\ phase' = "exited" /\ failed' = TRUE /\ channel' = <<>>
  /\ UNCHANGED <<sweep, catalog, before, unclaimed, work, abort, waits, kept, scanned, desk, files>>

Scan(w) == /\ phase = "sweeping"
           /\ Claim(w) \/ Again(w) \/ Gives(w) \/ Statistics(w) \/ Gate(w) \/ Orders(w)
Next == \/ Begin \/ (\E w \in Workers : Scan(w)) \/ Collect \/ Over
        \/ Publish \/ Save \/ Script \/ Crash
Spec == Init /\ [][Next]_vars

---------------------------------------------------------------------------
TypeOK ==
  /\ sweep \in 0 .. MaxSweeps /\ catalog \in Catalogs \cup {{}} /\ unclaimed \subseteq catalog
  /\ phase \in {"idle", "sweeping", "completed", "published", "exited"}
  /\ waits \in 0 .. MaxWaits /\ completed <= Cardinality(catalog)
  /\ \A e \in entries : e.item \in catalog
  /\ cache.present \in Catalogs \cup {{}} /\ {e.item : e \in cache.entries} \subseteq cache.present

(* The CSV and the snapshot are each the whole of one sweep: its workers went *)
(* through its catalog without a failure, every row they kept is there and no *)
(* other, and no row stands on statistics as old as the interval, however the *)
(* workers, checkpoints, failures and crashes of this sweep and the ones      *)
(* before it fell. (sweep_items, run_scrape, stats_cache, run-scrape.sh)      *)
PublishedIsOneSweep ==
  \A file \in {out, market} \ {None} :
    /\ file.whole /\ file.rows = file.kept /\ file.rows # {}
    /\ \A r \in file.rows : file.sweep - r.statistics < Interval

---------------------------------------------------------------------------
(* What makes it inductive.  Statistics are stamped with the sweep that     *)
(* read them, and none is used that is as old as the interval.              *)
Items == UNION Catalogs
Stats == {e \in [item : Items, at : Nat, read : Nat, usable : BOOLEAN, emptyBook : BOOLEAN] : e.read = e.at}
Outcomes == [entry : Stats, row : BOOLEAN, coerced : {0, 1}]
Work == [item : Items \cup {None}, step : {"rests", "claims", "statistics", "gate", "orders"},
         attempt : Nat, entry : Stats \cup {None}]
SweepShapes ==
  /\ sweep \in Nat /\ catalog \subseteq Items /\ unclaimed \subseteq catalog /\ scanned \subseteq catalog
  /\ work \in [Workers -> Work] /\ channel \in Seq(Outcomes) /\ entries \subseteq Stats
  /\ cache.entries \subseteq Stats
  /\ abort \in BOOLEAN /\ failed \in BOOLEAN

Holds(w) == work[w].step \in {"statistics", "gate", "orders"}
Young(n) == n \in Nat /\ sweep - n < Interval
HoldsWell ==
  \A w \in Workers :
    /\ Holds(w) => work[w].item \in catalog
    /\ work[w].step \in {"gate", "orders"} =>
         /\ work[w].entry \in Stats /\ work[w].entry.item = work[w].item
         /\ Young(work[w].entry.read)
KeptIsYoung == \A r \in kept : Young(r.statistics)

\* Until a sweep fails: each item is to be claimed, held or done with, and each row that was
\* kept is with the collector or on its way there.
RowOf(o) == [item |-> o.entry.item, statistics |-> o.entry.read]
OnItsWay(r) == \E n \in 1 .. Len(channel) : channel[n].row /\ r = RowOf(channel[n])
NothingMissed ==
  /\ ~abort
  /\ \A i \in catalog \ (unclaimed \cup scanned) : \E w \in Workers : Holds(w) /\ work[w].item = i
  /\ \A w \in Workers : work[w].step = "rests" => unclaimed = {}
  /\ \A r \in kept : r \in rows \/ OnItsWay(r)
  /\ rows \subseteq kept /\ \A n \in 1 .. Len(channel) : channel[n].row => RowOf(channel[n]) \in kept
IsOver ==
  /\ ~failed /\ channel = <<>> /\ rows # {}
  /\ \A w \in Workers : work[w].step = "rests"
SweepKept ==
  /\ SweepShapes /\ HoldsWell /\ KeptIsYoung /\ PublishedIsOneSweep
  /\ phase \in {"sweeping", "completed"} /\ ~failed => NothingMissed
  /\ phase = "completed" => IsOver
=============================================================================
