------------------------------ MODULE TradeLog ------------------------------
(***************************************************************************)
(* The trade ledger.  The game writes a line to EE.log when it asks for a   *)
(* trade and another when the trade went through; the tailer thread polls   *)
(* the file and hands each confirmed trade to handle_trade, which records   *)
(* it, keeps the account's remaining trades up to date in the same          *)
(* transaction and adjusts the sold listing.  A scan of the game takes the  *)
(* remaining trades from the server between two looks at the log.           *)
(*                                                                          *)
(* The file is a sequence of whole lines that always identify the session,  *)
(* positions count lines, and all happens in one UTC day and one account.   *)
(***************************************************************************)
EXTENDS Naturals, Sequences, FiniteSets

CONSTANTS
  Daily,       \* trades the server allows today
  MaxTrades, MaxScans, \* bounds
  MaxUpsets,   \* bound: refusals of the database or the file, unreadable dialogs, new
               \* starts of the game and of the program, and seconds, together
  None         \* no dialog, no row

ASSUME TradeConstants == Daily \in Nat /\ MaxTrades \in Nat /\ None \notin Nat

Trades == 1 .. MaxTrades
\* LogPosition of a confirmed trade: the lines it spans, and the last time the log
\* was known to be read to its end before the dialog.
Event(t, s, a, b, at) == [trade |-> t, session |-> s, start |-> a, end |-> b, after |-> at]

VARIABLES
  session, log, \* EE.log: the game session and its trade lines
  dialog,       \* the trade the game asks about, if any
  done,         \* trades the server has carried out
  clock,        \* unix_now, in seconds
  run,          \* run_id of this run of the program
  tpc, now,     \* the tailer: where it is, and the tick's clock
  tsession, offset, \* the file it reads, and up to which line
  batch,        \* the lines read and not yet fed
  buffer,       \* TradeMachine: the dialog being read
  drained,      \* observed_after
  held,         \* trades the ledger has not accepted, oldest first
  sold,         \* the trade whose listing is to be adjusted, and where to go on
  ledger,       \* trade and trade_log_event rows
  obs,          \* the trade_allowance row
  spc, scan,    \* a scan under way
  adjusted,     \* how often each trade's listing was to be adjusted
  missed,       \* confirmed trades this program will not record: it could not read their
                \* dialog, or it started after their line was written
  trades, scans, upsets \* how many so far, for the bounds

game   == <<session, log, dialog, done, trades>>
tailer == <<tpc, now, tsession, offset, batch, buffer, drained, held, sold>>
db     == <<ledger, obs>>
scanner == <<spc, scan, scans>>
vars   == <<game, clock, run, tailer, db, scanner, adjusted, upsets, missed>>

Init ==
  /\ session = 1 /\ log = <<>> /\ dialog = None /\ done = {} /\ clock = 0 /\ run = 1
  /\ tpc = "sleep" /\ now = 0 /\ tsession = 1 /\ offset = 0 /\ batch = <<>>
  /\ buffer = None /\ drained = 0 /\ held = <<>> /\ sold = None
  /\ ledger = <<>> /\ obs = None
  /\ spc = "idle" /\ scan = None
  /\ adjusted = [t \in Trades |-> 0]
  /\ trades = 0 /\ scans = 0 /\ upsets = 0 /\ missed = {}

---------------------------------------------------------------------------
Upset == upsets < MaxUpsets /\ upsets' = upsets + 1

\* The game asks, instead of a trade that was declined; the server carries the trade
\* out if one is left today, and the log says so.  Starting the game again replaces the log.
Ask ==
  /\ dialog \notin done /\ trades < MaxTrades
  /\ trades' = trades + 1
  /\ dialog' = trades'
  /\ log' = Append(log, [line |-> "ask", trade |-> trades'])
  /\ UNCHANGED <<session, done, clock, run, tailer, db, scanner, adjusted, upsets, missed>>
Settle ==
  /\ dialog # None /\ dialog \notin done /\ Cardinality(done) < Daily
  /\ done' = done \cup {dialog}
  /\ UNCHANGED <<session, log, dialog, trades, clock, run, tailer, db, scanner, adjusted,
                 upsets, missed>>
Confirm ==
  /\ dialog \in done
  /\ log' = Append(log, [line |-> "done", trade |-> dialog])
  /\ dialog' = None
  /\ UNCHANGED <<session, done, trades, clock, run, tailer, db, scanner, adjusted, upsets, missed>>
StartGame ==
  /\ Upset
  /\ session' = session + 1 /\ log' = <<>> /\ dialog' = None
  /\ UNCHANGED <<done, trades, clock, run, tailer, db, scanner, adjusted, missed>>
Second ==
  /\ Upset /\ clock' = clock + 1
  /\ UNCHANGED <<game, run, tailer, db, scanner, adjusted, missed>>

---------------------------------------------------------------------------
\* Observation::mark_uncertain and Observation::reconcile.
Uncertain(o) == [o EXCEPT !.sure = FALSE, !.monitoring = FALSE]
Overlaps(o, e) == e.start < o.to \/ e.after < o.at
Reconcile(o, e) ==
  IF e.session # o.session THEN Uncertain(o)
  ELSE IF e.end <= o.from \/ ~o.monitoring THEN o
  ELSE IF Overlaps(o, e) THEN Uncertain(o)
  ELSE [o EXCEPT !.remaining = IF @ = 0 THEN 0 ELSE @ - 1, !.counts = @ \cup {e.trade}]
\* allowance_gap; a gap while a scan is between the server's answer and its row marks
\* only the row the scan is about to replace.
MarkGap == obs' = IF obs = None \/ ~obs.monitoring THEN obs ELSE Uncertain(obs)
Unmarked == obs' = IF obs = None THEN None ELSE [obs EXCEPT !.unmarked = TRUE]
Gap == \/ MarkGap /\ UNCHANGED upsets
       \/ Unmarked /\ Upset
BlindScan == scan' = IF spc \in {"walked", "seen"} THEN [scan EXCEPT !.blind = TRUE] ELSE scan

\* insert_trade.
Duplicate(e) ==
  \E i \in 1 .. Len(ledger) : ledger[i].session = e.session /\ ledger[i].end = e.end
Insert(e) ==
  /\ ledger' = Append(ledger, e)
  /\ obs' = IF obs = None THEN None
            ELSE IF obs.run = run THEN Reconcile(obs, e) ELSE Uncertain(obs)
\* handle_trade as the tailer sees it: accepted (new, or known) or refused.  A refused
\* write may have been kept by the database all the same.
Accepted(e, next) ==
  /\ IF Duplicate(e) THEN UNCHANGED <<ledger, obs, sold>> /\ tpc' = next
     ELSE Insert(e) /\ sold' = [trade |-> e.trade, next |-> next] /\ tpc' = "adjust"
  /\ UNCHANGED upsets
Refused(e) ==
  /\ ~Duplicate(e)
  /\ Upset
  /\ \/ Insert(e)
     \/ UNCHANGED ledger /\ (MarkGap \/ UNCHANGED obs)
  /\ UNCHANGED sold
\* The sold listing is looked for and adjusted; a busy or locked account leaves it to
\* the user.
Adjust ==
  /\ tpc = "adjust"
  /\ tpc' = sold.next /\ sold' = None
  /\ adjusted' = [adjusted EXCEPT ![sold.trade] = @ + 1]
  /\ UNCHANGED <<game, clock, run, now, tsession, offset, batch, buffer, drained, held, db,
                 scanner, upsets, missed>>

---------------------------------------------------------------------------
\* One poll: the held trades first, in order; then the file; then each new line.
Tick ==
  /\ tpc = "sleep"
  /\ tpc' = (IF held = <<>> THEN "open" ELSE "offer") /\ now' = clock
  /\ UNCHANGED <<game, clock, run, tsession, offset, batch, buffer, drained, held, sold, db,
                 scanner, adjusted, upsets, missed>>
Reoffer ==
  /\ tpc = "offer"
  /\ \/ Accepted(Head(held), IF Len(held) = 1 THEN "open" ELSE "offer") /\ held' = Tail(held)
     \/ Refused(Head(held)) /\ tpc' = "open" /\ UNCHANGED held
  /\ UNCHANGED <<game, clock, run, now, tsession, offset, batch, buffer, drained, scanner,
                 adjusted, missed>>
Unopened ==
  /\ tpc = "open"
  /\ Upset
  /\ MarkGap \/ Unmarked
  /\ tpc' = "sleep"
  /\ UNCHANGED <<game, clock, run, now, tsession, offset, batch, buffer, drained, held, sold, ledger,
                 scanner, adjusted, missed>>
Rotated ==
  /\ tpc = "open" /\ session # tsession
  /\ tsession' = session /\ offset' = 0 /\ buffer' = None
  /\ Gap /\ BlindScan
  /\ UNCHANGED <<game, clock, run, tpc, now, batch, drained, held, sold, ledger, spc, scans,
                 adjusted, missed>>
Open ==
  /\ tpc = "open" /\ session = tsession
  /\ batch' = SubSeq(log, offset + 1, Len(log)) /\ tpc' = "lines"
  /\ UNCHANGED <<game, clock, run, now, tsession, offset, buffer, drained, held, sold, db,
                 scanner, adjusted, upsets, missed>>

Reads(line) ==
  /\ tpc = "lines" /\ batch # <<>> /\ Head(batch).line = line
  /\ offset' = offset + 1 /\ batch' = Tail(batch)
AskLine ==
  /\ Reads("ask")
  /\ buffer' = [start |-> offset, after |-> drained]
  /\ UNCHANGED <<game, clock, run, tpc, now, tsession, drained, held, sold, db,
                 scanner, adjusted, upsets, missed>>
Bug_Forgotten(e) == held
KeptBack(e) == Append(held, e)
DoneLine ==
  /\ Reads("done") /\ buffer # None
  /\ LET e == Event(Head(batch).trade, tsession, buffer.start, offset', buffer.after)
     IN IF held = <<>>
        THEN \/ Accepted(e, "lines") /\ UNCHANGED held
             \/ Refused(e) /\ held' = KeptBack(e) /\ UNCHANGED tpc
        ELSE held' = KeptBack(e) /\ UNCHANGED <<db, sold, tpc, upsets>>
  /\ buffer' = None
  /\ UNCHANGED <<game, clock, run, now, tsession, drained, scanner, adjusted, missed>>
\* A success without a dialog, or with one that cannot be read.
Unrecognized ==
  /\ Reads("done")
  /\ \/ buffer = None /\ Gap
     \/ buffer # None /\ MarkGap /\ Upset
  /\ missed' = missed \cup {Head(batch).trade}
  /\ buffer' = None
  /\ BlindScan
  /\ UNCHANGED <<game, clock, run, tpc, now, tsession, drained, held, sold, ledger, spc, scans,
                 adjusted>>
ReadAll ==
  /\ tpc = "lines" /\ batch = <<>>
  /\ tpc' = "sleep" /\ drained' = now
  /\ UNCHANGED <<game, clock, run, now, tsession, offset, batch, buffer, held, sold, db,
                 scanner, adjusted, upsets, missed>>

---------------------------------------------------------------------------
\* scan_and_record: a look at the log, the server's answer, a second look, the row.
Here == [session |-> session, end |-> Len(log)]
ScanBegins ==
  /\ spc = "idle" /\ scans < MaxScans
  /\ scans' = scans + 1
  /\ scan' = [before |-> Here] /\ spc' = "walk"
  /\ UNCHANGED <<game, clock, run, tailer, db, adjusted, upsets, missed>>
ScanAnswered ==
  /\ spc = "walk"
  /\ scan' = [before |-> scan.before, remaining |-> Daily - Cardinality(done), counts |-> done,
              blind |-> FALSE]
  /\ spc' = "walked"
  /\ UNCHANGED <<game, clock, run, tailer, db, scans, adjusted, upsets, missed>>
ScanSeen ==
  /\ spc = "walked"
  /\ scan' = [run |-> run, session |-> session, before |-> scan.before.session,
              from |-> scan.before.end, to |-> Len(log), at |-> clock,
              remaining |-> scan.remaining, counts |-> scan.counts, sure |-> TRUE,
              monitoring |-> scan.before.session = session,
              blind |-> scan.blind, unmarked |-> FALSE]
  /\ spc' = "seen"
  /\ UNCHANGED <<game, clock, run, tailer, db, scans, adjusted, upsets, missed>>
\* save_allowance: the trades recorded since the first look are made up for.
Bug_NoMakeUp(o) == o
MadeUp(o) ==
  LET upTo[n \in 0 .. Len(ledger)] ==
        IF n = 0 THEN o
        ELSE IF ledger[n].session = o.before /\ ledger[n].end > o.from
             THEN Reconcile(upTo[n - 1], ledger[n])
             ELSE upTo[n - 1]
  IN upTo[Len(ledger)]
ScanSaved ==
  /\ spc = "seen"
  /\ obs' = MadeUp(scan)
  /\ spc' = "idle" /\ scan' = None
  /\ UNCHANGED <<game, clock, run, tailer, ledger, scans, adjusted, upsets, missed>>
\* The game is not there, the scan is discarded, or its row cannot be written.
ScanLost ==
  /\ spc # "idle"
  /\ IF spc = "seen" THEN Upset /\ obs' \in {None, obs} ELSE UNCHANGED <<obs, upsets>>
  /\ spc' = "idle" /\ scan' = None
  /\ UNCHANGED <<game, clock, run, tailer, ledger, scans, adjusted, missed>>

Written(t, lines) == \E i \in 1 .. Len(lines) : lines[i] = [line |-> "done", trade |-> t]
Recorded(t) == \E i \in 1 .. Len(ledger) : ledger[i].trade = t
\* The program ends and starts again: the tailer starts at the end of the log.
Restart ==
  /\ Upset
  /\ run' = run + 1
  /\ tpc' = "sleep" /\ now' = clock /\ tsession' = session
  /\ offset' = Len(log) /\ batch' = <<>> /\ buffer' = None /\ drained' = clock
  /\ held' = <<>> /\ sold' = None
  /\ spc' = "idle" /\ scan' = None
  /\ missed' = missed \cup {t \in Trades : Written(t, log) /\ ~Recorded(t)}
  /\ UNCHANGED <<game, clock, db, scans, adjusted>>

Tailer == \/ Tick \/ Reoffer \/ Unopened \/ Rotated \/ Open
          \/ AskLine \/ DoneLine \/ Unrecognized \/ ReadAll \/ Adjust
Scanner == ScanBegins \/ ScanAnswered \/ ScanSeen \/ ScanSaved \/ ScanLost
Next == Ask \/ Settle \/ Confirm \/ StartGame \/ Second \/ Tailer \/ Scanner \/ Restart
Spec == Init /\ [][Next]_vars
\* The tailer thread polls for ever; how often it is refused is bounded.
LiveSpec == Spec /\ WF_vars(Tailer)

---------------------------------------------------------------------------
Observation ==
  [run : 1 .. MaxUpsets + 1, session : 1 .. MaxUpsets + 1, before : 1 .. MaxUpsets + 1,
   from : Nat, to : Nat, at : 0 .. MaxUpsets, remaining : 0 .. Daily, counts : SUBSET Trades,
   sure : BOOLEAN, monitoring : BOOLEAN, blind : BOOLEAN, unmarked : BOOLEAN]
TypeOK ==
  /\ session \in 1 .. MaxUpsets + 1 /\ dialog \in Trades \cup {None} /\ done \subseteq Trades
  /\ tpc \in {"sleep", "offer", "open", "lines", "adjust"}
  /\ tpc = "adjust" <=> sold # None
  /\ offset + Len(batch) \in Nat
  /\ obs \in Observation \cup {None}
  /\ spc \in {"idle", "walk", "walked", "seen"} /\ (spc = "idle" <=> scan = None)

\* The ledger holds each trade once, in the order they happened, and no trade's
\* listing is adjusted twice: "re-offering a trade must not become a second
\* adjustment or a duplicate row", "none is recorded ahead of an earlier one".
RecordedOnce ==
  /\ \A i, j \in 1 .. Len(ledger) : i < j => ledger[i].trade < ledger[j].trade
  /\ \A t \in Trades : adjusted[t] <= 1
  /\ \A t \in Trades : adjusted[t] > 0 => \E i \in 1 .. Len(ledger) : ledger[i].trade = t

\* The remaining trades shown as scanned or tracked.
Certified == obs # None /\ obs.run = run /\ obs.sure /\ obs.monitoring
\* A trade the tailer has still to account for: it is going on, its success is not
\* yet read, or the ledger has refused it so far.
Ahead(t) ==
  \/ t = dialog
  \/ Written(t, batch)
  \/ Written(t, SubSeq(log, offset + Len(batch) + 1, Len(log)))
  \/ \E i \in 1 .. Len(held) : held[i].trade = t
\* A certified figure counts no trade twice and misses only trades still to be
\* accounted for, unless the database refused to take the certificate back.
Exact == obs.remaining + Cardinality(obs.counts) = Daily
Missed == {t \in done \ obs.counts : ~Ahead(t)}
\* A log the tailer has not yet seen replaced is a gap about to be reported.
Noticed == session = tsession
CertifiedFigure ==
  Certified /\ Noticed /\ ~obs.unmarked /\ ~obs.blind => Exact /\ Missed = {}
\* GapKind: "the allowance logic treats every kind as 'stop certifying the tracked
\* figure'".
EveryGapStops == Certified /\ Noticed /\ ~obs.unmarked => Missed = {}

\* The tailer catches up: every trade the log confirms is recorded in the end, unless
\* its dialog could not be read or the program had not accounted for it when it ended.
TradesAreRecorded ==
  []<>(\A t \in Trades : Written(t, log) => Recorded(t) \/ t \in missed)
---------------------------------------------------------------------------
\* What CertifiedFigure rests on.  A success is known by the session and the line it was
\* logged at: from the log, from what is read of it, from the held trades, from the ledger.
Success(t, s, p) == [trade |-> t, session |-> s, end |-> p]
Logged(lines, s, first) ==
  {Success(lines[j].trade, s, first + j) : j \in {i \in 1 .. Len(lines) : lines[i].line = "done"}}
Kept(events) ==
  {Success(events[i].trade, events[i].session, events[i].end) : i \in 1 .. Len(events)}
Known == Logged(log, session, 0) \cup Logged(batch, tsession, offset) \cup Kept(held) \cup Kept(ledger)
RecordedTrades == {ledger[i].trade : i \in 1 .. Len(ledger)}

Lines     == [line : {"ask", "done"}, trade : Trades]
Positions == [trade : Trades, session : Nat, start : Nat, end : Nat, after : Nat]
Ends      == [session : Nat, end : Nat]
Figures ==
  [run : Nat, session : Nat, before : Nat, from : Nat, to : Nat, at : Nat, remaining : Nat,
   counts : SUBSET Trades, sure : BOOLEAN, monitoring : BOOLEAN, blind : BOOLEAN, unmarked : BOOLEAN]
GameShapes ==
  /\ session \in Nat /\ trades \in 0 .. MaxTrades /\ log \in Seq(Lines)
  /\ dialog \in Trades \cup {None} /\ done \subseteq Trades
TailerShapes ==
  /\ now \in Nat /\ tsession \in Nat /\ offset \in Nat /\ drained \in Nat
  /\ batch \in Seq(Lines) /\ held \in Seq(Positions)
  /\ buffer # None => buffer \in [start : Nat, after : Nat]
RowShapes == ledger \in Seq(Positions) /\ (obs # None => obs \in Figures)
ScanShapes ==
  /\ spc = "walk" => scan \in [before : Ends]
  /\ spc = "walked" => scan \in [before : Ends, remaining : Nat, counts : SUBSET Trades, blind : BOOLEAN]
  /\ spc = "seen" => scan \in Figures
TradeShapes == /\ GameShapes /\ TailerShapes /\ RowShapes /\ ScanShapes
               /\ clock \in Nat /\ run \in Nat

\* What is read is the log's as long as the file is the one read; a dialog ends with the
\* line before; and what was kept spans two lines of a session no later than the one read.
InStep ==
  /\ tsession <= session
  /\ tsession = session => /\ offset + Len(batch) <= Len(log)
                           /\ \A j \in 1 .. Len(batch) : batch[j] = log[offset + j]
  /\ tpc \notin {"lines", "adjust"} => batch = <<>>
  /\ tpc = "adjust" => sold.next # "adjust" /\ (sold.next = "lines" \/ batch = <<>>)
  /\ tpc = "offer" \/ (tpc = "adjust" /\ sold.next = "offer") => held # <<>>
  /\ buffer # None => buffer.start + 1 = offset
  /\ \A i \in 1 .. Len(held) : held[i].start + 2 = held[i].end /\ held[i].session <= tsession
  /\ \A i \in 1 .. Len(ledger) : ledger[i].start + 2 = ledger[i].end /\ ledger[i].session <= tsession

\* A trade is the success of one line and no other, was carried out before, and is not
\* asked about again.
OnceEach ==
  /\ \A k, l \in Known : k.trade = l.trade <=> k.session = l.session /\ k.end = l.end
  /\ \A k \in Known : /\ k.trade \in done /\ k.trade # dialog
                      /\ k.session <= session /\ (k.session = session => k.end <= Len(log))
  /\ \A i, j \in 1 .. Len(ledger) : ledger[i].trade = ledger[j].trade => i = j
  /\ \A t \in done \cup {dialog} : t # None => t <= trades
  /\ IsFiniteSet(done) /\ Cardinality(done) <= Daily

\* A figure adds up; what it counts began before its second look, unless it was recorded
\* since; and what was logged before its first look it counts.
Tallied(o, since) ==
  /\ o.counts \subseteq done /\ o.remaining + Cardinality(o.counts) = Daily
  /\ o.session <= session /\ (o.session = session => o.to <= Len(log))
  /\ o.session = session /\ dialog \in o.counts => Len(log) <= o.to
  /\ \A k \in Known : k.session = o.session /\ k.trade \in o.counts \ since => k.end < o.to + 2
  /\ o.monitoring => /\ o.before = o.session /\ o.from <= o.to
                     /\ \A k \in Known : k.session = o.session /\ k.end <= o.from => k.trade \in o.counts
\* What is not counted is ahead of the tailer, or recorded.
Accounted(counts) == \A t \in done \ counts : Ahead(t) \/ t \in RecordedTrades
ObsKept ==
  obs # None =>
    /\ Tallied(obs, RecordedTrades) /\ obs.run <= run
    /\ Certified /\ ~obs.unmarked /\ ~obs.blind =>
         RecordedTrades \subseteq obs.counts /\ (Noticed => Accounted(obs.counts))

\* A scan counts what was logged before its first look.
CountsEarlier(counts, at) ==
  \A k \in Known : k.session < at.session \/ (k.session = at.session /\ k.end <= at.end) => k.trade \in counts
MissesLater(counts, at) ==
  tsession = at.session /\ session = at.session => Accounted(counts)
InSession(at) == at.session <= session /\ (at.session = session => at.end <= Len(log))
ScanKept ==
  /\ spc \in {"walk", "walked"} => InSession(scan.before)
  /\ spc = "walked" =>
       /\ scan.counts \subseteq done /\ scan.remaining + Cardinality(scan.counts) = Daily
       /\ CountsEarlier(scan.counts, scan.before)
       /\ ~scan.blind => MissesLater(scan.counts, scan.before)
  /\ spc = "seen" =>
       LET at == [session |-> scan.before, end |-> scan.from] IN
       /\ Tallied(scan, {}) /\ scan.run = run
       /\ scan.monitoring => CountsEarlier(scan.counts, at)
       /\ scan.monitoring /\ ~scan.blind => tsession <= at.session /\ MissesLater(scan.counts, at)
TradesKept == TradeShapes /\ InStep /\ OnceEach /\ ObsKept /\ ScanKept

\* What RecordedOnce rests on besides.  Trades are numbered as they are logged; the ledger,
\* the held trades and the lines to come follow each other in that order; and a listing
\* that was adjusted, or is about to be, is a recorded trade's.
Before(x, y) == x.session < y.session \/ (x.session = y.session /\ x.end < y.end)
Numbered == /\ dialog # None => dialog = trades
            /\ \A k, l \in Known : Before(k, l) => k.trade < l.trade
Behind(x) == x.session < tsession \/ (x.session = tsession /\ x.end <= offset)
Queued ==
  /\ \A i, j \in 1 .. Len(ledger) : i < j => Before(ledger[i], ledger[j])
  /\ \A i, j \in 1 .. Len(held) : i < j => Before(held[i], held[j])
  /\ \A i \in 1 .. Len(ledger), j \in 1 .. Len(held) : ~Before(held[j], ledger[i])
  /\ \A i \in 1 .. Len(ledger) : Behind(ledger[i])
  /\ \A j \in 1 .. Len(held) : Behind(held[j])
AdjustedKept ==
  /\ adjusted \in [Trades -> {0, 1}]
  /\ tpc = "adjust" => sold.trade \in RecordedTrades /\ adjusted[sold.trade] = 0
  /\ \A t \in Trades : adjusted[t] = 1 => t \in RecordedTrades
QueueKept == Numbered /\ Queued /\ AdjustedKept
=============================================================================
