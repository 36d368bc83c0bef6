---------------------------- MODULE Publication ----------------------------
(***************************************************************************)
(* The announcement publisher: a SQLite store of drafts, published         *)
(* messages and official events, and the public feed file it exports.      *)
(*                                                                         *)
(* Authors work from a dashboard page: every change names the revision of  *)
(* the snapshot the page shows, and may reach the service much later,      *)
(* more than once, or after its author gave up on it.  The store runs one  *)
(* request at a time under its mutex: it commits one transaction, then     *)
(* replaces the feed file through a temporary file and a rename, then      *)
(* records in the database that the revision was exported.  The process    *)
(* may stop between any two of these.  Beside the service the host takes   *)
(* backups, restores one, loses a file, and runs `recover`.                *)
(*                                                                         *)
(* A feed is its update stamp, its messages and its events.  A content is  *)
(* an opaque value with the instant at which it ends.  The wall clock is   *)
(* any member of Clock at each request: it may be set back.                *)
(***************************************************************************)
EXTENDS Naturals, Integers, FiniteSets

CONSTANTS
  Actors,      \* signed-in authors
  Ids,         \* identifiers the store generates for messages and events
  Contents,    \* contents of drafts and events
  Ends,        \* [Contents -> Nat]: when a content ends
  Malformed,   \* contents the feed's limits do not admit
  MaxRids,     \* request identifiers
  Clock,       \* readings of the wall clock
  Retention,   \* how long a finished event stays (EVENT_RETENTION)
  MaxListed,   \* limit of the feed on its messages, and on its events
  None,        \* no value
  Missing,     \* no such file
  Blank,       \* a database file without publication state
  MaxChanges,  \* changes composed by the authors
  MaxUpsets    \* crashes, refusals of the disk, lost files and restores

ASSUME PublicationAssumption ==
  /\ Ends \in [Contents -> Nat]
  /\ Clock \subseteq Nat
  /\ {Retention, MaxRids, MaxChanges, MaxUpsets} \subseteq Nat
  /\ None \notin Contents \cup Ids
  /\ IsFiniteSet(Ids)

VARIABLES
  db,       \* the publication database
  disk,     \* the public feed file
  proc,     \* where the service is
  serving,  \* it has opened its store
  named,    \* identifiers generated so far
  sent,     \* requests composed so far: any may arrive, again and again
  refused,  \* those answered that another revision exists
  backup,   \* the newest backup
  epoch,    \* restores and losses of the database so far
  touched,  \* one of them since the store was last opened or recovered
  upsets

clients == <<sent, refused>>
host == <<backup, epoch, touched, upsets>>
vars == <<db, disk, proc, serving, named, clients, host>>

----------------------------------------------------------------------------
(* Feeds and database states. *)

Listing == [Ids -> Contents \cup {None}]
Nothing == [i \in Ids |-> None]
Listed(l) == {i \in Ids : l[i] # None}

Feed == [stamp : Nat, messages : Listing, events : Listing]
Seed == [stamp |-> 0, messages |-> Nothing, events |-> Nothing]

(* The limit `parse` puts on a whole feed. *)
Fits(feed) ==
  /\ Cardinality(Listed(feed.messages)) <= MaxListed
  /\ Cardinality(Listed(feed.events)) <= MaxListed

Rids == 1..MaxRids
Operations == {"save", "publish", "withdraw", "event_publish", "event_remove"}
Change == [actor : Actors, rid : Rids, expected : Nat, op : Operations,
           id : Ids \cup {None}, content : Contents \cup {None}]

Database == [rev : Nat, feedRev : Nat, expRev : Int, feed : Feed,
             draft : Listing, live : Listing, requests : SUBSET Change]
SeedDb == [rev |-> 0, feedRev |-> 0, expRev |-> -1, feed |-> Seed,
           draft |-> Nothing, live |-> Nothing, requests |-> {}]

ASSUME FilesApart ==
  Missing \notin Database \cup Feed /\ Blank \notin Database /\ None \notin Database

HasState == db \notin {Missing, Blank}

(* What a snapshot shows an author: the drafts, what is published of them, *)
(* and the events.                                                         *)
View(d) == [draft |-> d.draft, live |-> d.live, events |-> d.feed.events]
Views == [draft : Listing, live : Listing, events : Listing]

(* A snapshot as a page shows it, and a change with the page it was        *)
(* composed on.                                                            *)
Page == [rev : Nat, epoch : Nat, view : Views]
Request == [change : Change, from : Page]

Snapshot == [rev |-> db.rev, epoch |-> epoch, view |-> View(db)]

(* `open_with` starts on a feed file that is not ahead of the database.    *)
(* (Bug_ operators are plausible mistakes, used to test the properties.)   *)
Agrees == disk # Missing => disk = db.feed \/ disk.stamp < db.feed.stamp

----------------------------------------------------------------------------
(* One change against the stored state: `apply` and `apply_event`. *)

Known(c) == \E r \in db.requests : r.rid = c.rid /\ r.actor = c.actor
Replayed(c) == c \in db.requests
Bug_IgnoresRevision(c) == Known(c) /\ ~Replayed(c)
Conflicts(c) == IF Known(c) THEN ~Replayed(c) ELSE c.expected # db.rev

Stamped(d, now) == IF now > d.feed.stamp THEN now ELSE d.feed.stamp + 1
Showing(live, now) ==
  [i \in Ids |-> IF live[i] # None /\ Ends[live[i]] > now THEN live[i] ELSE None]
Pruned(events, now) ==
  [i \in Ids |-> IF events[i] # None /\ Ends[events[i]] + Retention >= now
                 THEN events[i] ELSE None]

(* The entry a change works on must exist, and what it publishes must not  *)
(* have ended.                                                             *)
Allowed(d, c, now) ==
  CASE c.op = "save" ->
         /\ c.id # None => d.draft[c.id] # None
         /\ c.content \notin Malformed
    [] c.op = "publish" ->
         /\ d.draft[c.id] # None
         /\ Ends[d.draft[c.id]] > now
    [] c.op = "withdraw" ->
         d.draft[c.id] # None /\ d.live[c.id] # None
    [] c.op = "event_publish" ->
         /\ Ends[c.content] > now
         /\ c.id # None => d.feed.events[c.id] # None
         /\ c.content \notin Malformed
    [] c.op = "event_remove" -> d.feed.events[c.id] # None

NewDraft(d, c, id) == IF c.op = "save" THEN [d.draft EXCEPT ![id] = c.content] ELSE d.draft
NewLive(d, c, id) ==
  CASE c.op = "publish" -> [d.live EXCEPT ![id] = d.draft[id]]
    [] c.op = "withdraw" -> [d.live EXCEPT ![id] = None]
    [] OTHER -> d.live
NewEvents(d, c, id) ==
  CASE c.op = "event_publish" -> [d.feed.events EXCEPT ![id] = c.content]
    [] c.op = "event_remove" -> [d.feed.events EXCEPT ![id] = None]
    [] OTHER -> d.feed.events
NewFeed(d, c, id, now) ==
  IF c.op = "save" THEN d.feed
  ELSE [stamp |-> Stamped(d, now),
        messages |-> IF c.op \in {"publish", "withdraw"}
                     THEN Showing(NewLive(d, c, id), now) ELSE d.feed.messages,
        events |-> Pruned(NewEvents(d, c, id), now)]

(* The committed transaction. *)
Bug_WithdrawnNotExported(d, c, id, now) ==
  [rev |-> d.rev + 1,
   feedRev |-> IF c.op \in {"save", "withdraw"} THEN d.feedRev ELSE d.rev + 1,
   expRev |-> d.expRev,
   feed |-> NewFeed(d, c, id, now),
   draft |-> NewDraft(d, c, id),
   live |-> NewLive(d, c, id),
   requests |-> d.requests \cup {c}]
Committed(d, c, id, now) ==
  [rev |-> d.rev + 1,
   feedRev |-> IF c.op = "save" THEN d.feedRev ELSE d.rev + 1,
   expRev |-> d.expRev,
   feed |-> NewFeed(d, c, id, now),
   draft |-> NewDraft(d, c, id),
   live |-> NewLive(d, c, id),
   requests |-> d.requests \cup {c}]

(* `retry_export` acts only on a revision that was not exported. *)
Pending(d) == d.feedRev # d.expRev
Exported(d) == [d EXCEPT !.expRev = d.feedRev]

----------------------------------------------------------------------------
Init ==
  /\ db = Missing /\ disk = Missing
  /\ proc = "down" /\ serving = FALSE /\ named = {}
  /\ sent = {} /\ refused = {}
  /\ backup = None /\ epoch = 0 /\ touched = FALSE /\ upsets = 0

(* First start on an empty host: the file is created before anything is in *)
(* it.  A start that finds the file without state has no seed to read and  *)
(* fails; so does one that finds a feed and no database.                   *)
CreateFile ==
  /\ proc = "down" /\ db = Missing /\ disk = Missing
  /\ db' = Blank /\ proc' = "seeding"
  /\ UNCHANGED <<disk, serving, named, clients, host>>

InsertSeed ==
  /\ proc = "seeding"
  /\ db' = SeedDb /\ proc' = "export" /\ touched' = FALSE
  /\ UNCHANGED <<disk, serving, named, clients, backup, epoch, upsets>>

Start ==
  /\ proc = "down" /\ HasState /\ Agrees
  /\ proc' = "export" /\ touched' = FALSE
  /\ UNCHANGED <<db, disk, serving, named, clients, backup, epoch, upsets>>

(* `export_current`: the rename replaces the file, the last statement      *)
(* records it.  While the store is being opened a failure ends the         *)
(* process; afterwards it is left for the next request or the timer.       *)
Replace ==
  /\ proc = "export" /\ (serving => Pending(db))
  /\ disk' = db.feed /\ proc' = "mark"
  /\ UNCHANGED <<db, serving, named, clients, host>>

ExportRefused ==
  /\ proc \in {"export", "mark"} /\ (serving => Pending(db))
  /\ upsets < MaxUpsets /\ upsets' = upsets + 1
  /\ proc' = IF serving THEN "idle" ELSE "down"
  /\ UNCHANGED <<db, disk, serving, named, clients, backup, epoch, touched>>

Mark ==
  /\ proc = "mark"
  /\ db' = Exported(db)
  /\ proc' = "idle" /\ serving' = TRUE
  /\ UNCHANGED <<disk, named, clients, host>>

NothingToExport ==
  /\ proc = "export" /\ serving /\ ~Pending(db)
  /\ proc' = "idle"
  /\ UNCHANGED <<db, disk, serving, named, clients, host>>

(* The timer that retries a pending export every fifteen seconds. *)
Bug_NoTimer == proc = "idle" /\ Pending(db) /\ UNCHANGED vars
Maintenance ==
  /\ proc = "idle" /\ Pending(db)
  /\ proc' = "export"
  /\ UNCHANGED <<db, disk, serving, named, clients, host>>

(* An author composes a change on the snapshot a page loaded.  The change  *)
(* depends on that page alone, so that loading and composing are one step  *)
(* however old the page is when the request is sent.  Request identifiers  *)
(* are told apart by equality alone: one already used, or the next.        *)
Offered(op, id, content) ==
  CASE op = "save" -> id \in Listed(db.draft) \cup {None} /\ content # None
    [] op = "publish" -> id \in Listed(db.draft) /\ content = None
    [] op = "withdraw" -> id \in Listed(db.live) /\ content = None
    [] op = "event_publish" -> id \in Listed(db.feed.events) \cup {None} /\ content # None
    [] op = "event_remove" -> id \in Listed(db.feed.events) /\ content = None

Compose(a) ==
  /\ proc = "idle" /\ Cardinality(sent) < MaxChanges
  /\ \E rid \in Rids, op \in Operations, id \in Ids \cup {None}, content \in Contents \cup {None} :
       /\ rid <= Cardinality({q.change.rid : q \in sent}) + 1
       /\ Offered(op, id, content)
       /\ sent' = sent \cup {[change |-> [actor |-> a, rid |-> rid, expected |-> db.rev, op |-> op,
                                          id |-> id, content |-> content],
                               from |-> Snapshot]}
  /\ UNCHANGED <<db, disk, proc, serving, named, refused, host>>

(* A request reaches the service: refused, replayed, or committed. *)
RefuseConflict(q) ==
  /\ proc = "idle" /\ Conflicts(q.change)
  /\ refused' = refused \cup {q}
  /\ UNCHANGED <<db, disk, proc, serving, named, sent, host>>

Replay(q) ==
  /\ proc = "idle" /\ ~Conflicts(q.change) /\ Replayed(q.change)
  /\ proc' = "export"
  /\ UNCHANGED <<db, disk, serving, named, clients, host>>

(* A change that names no entry creates one under a new identifier. *)
Target(c) == IF c.id # None THEN {c.id} ELSE Ids \ named

Accept(q) ==
  /\ proc = "idle" /\ ~Conflicts(q.change) /\ ~Replayed(q.change)
  /\ \E now \in Clock, id \in Target(q.change) :
       /\ Allowed(db, q.change, now)
       /\ Fits(NewFeed(db, q.change, id, now))
       /\ db' = Committed(db, q.change, id, now)
       /\ named' = named \cup {id}
  /\ proc' = "export"
  /\ UNCHANGED <<disk, serving, clients, host>>

----------------------------------------------------------------------------
(* The host. *)

Upset == upsets < MaxUpsets /\ upsets' = upsets + 1

(* The process stops, anywhere. *)
Crash ==
  /\ proc # "down" /\ Upset
  /\ proc' = "down" /\ serving' = FALSE
  /\ UNCHANGED <<db, disk, named, clients, backup, epoch, touched>>

(* `backup_file` and `snapshot` read the database while the service runs. *)
TakeBackup ==
  /\ HasState
  /\ backup' = db
  /\ UNCHANGED <<db, disk, proc, serving, named, clients, epoch, touched, upsets>>

Restore ==
  /\ proc = "down" /\ backup # None /\ Upset
  /\ db' = backup /\ epoch' = epoch + 1 /\ touched' = TRUE
  /\ UNCHANGED <<disk, proc, serving, named, clients, backup>>

LoseDatabase ==
  /\ proc = "down" /\ db # Missing /\ Upset
  /\ db' = Missing /\ epoch' = epoch + 1 /\ touched' = TRUE
  /\ UNCHANGED <<disk, proc, serving, named, clients, backup>>

LoseExport ==
  /\ disk # Missing /\ Upset
  /\ disk' = Missing
  /\ UNCHANGED <<db, proc, serving, named, clients, backup, epoch, touched>>

(* `recover`: the operator of a restored database republishes its state    *)
(* above the feed that is already public.                                  *)
Above(d, public) == IF public.stamp > d.feed.stamp THEN public.stamp + 1 ELSE d.feed.stamp + 1
Recovered(d, public, now) ==
  [rev |-> d.rev + 1, feedRev |-> d.rev + 1, expRev |-> -1,
   feed |-> [d.feed EXCEPT !.stamp = IF now > Above(d, public) THEN now ELSE Above(d, public)],
   draft |-> d.draft, live |-> d.live, requests |-> d.requests]

Recover ==
  /\ proc = "down" /\ HasState /\ disk # Missing /\ touched
  /\ \E now \in Clock : db' = Recovered(db, disk, now)
  /\ touched' = FALSE
  /\ UNCHANGED <<disk, proc, serving, named, clients, backup, epoch, upsets>>

----------------------------------------------------------------------------
Service ==
  \/ CreateFile \/ InsertSeed \/ Start
  \/ Replace \/ Mark \/ NothingToExport \/ Maintenance

Next ==
  \/ Service \/ ExportRefused
  \/ \E a \in Actors : Compose(a)
  \/ \E q \in sent : RefuseConflict(q)
  \/ \E q \in sent : Replay(q)
  \/ \E q \in sent : Accept(q)
  \/ Crash \/ TakeBackup \/ Restore \/ LoseDatabase \/ LoseExport \/ Recover

Spec == Init /\ [][Next]_vars

(* systemd restarts the service, the timer runs, and a call of the store   *)
(* ends.  Nothing is assumed of the authors or of the operator.            *)
LiveSpec == Spec /\ WF_vars(Service)

----------------------------------------------------------------------------
(* Types, and the order of the three revisions of a database. *)
RevisionsOK(d) == d.expRev <= d.feedRev /\ d.feedRev <= d.rev
TypeOK ==
  /\ HasState => RevisionsOK(db)
  /\ backup # None => RevisionsOK(backup)
  /\ db \in Database \cup {Missing, Blank}
  /\ disk \in Feed \cup {Missing}
  /\ proc \in {"down", "seeding", "export", "mark", "idle"}
  /\ serving \in BOOLEAN
  /\ named \subseteq Ids
  /\ sent \subseteq Request /\ refused \subseteq sent
  /\ backup \in Database \cup {None}
  /\ epoch \in Nat /\ touched \in BOOLEAN
  /\ upsets \in 0..MaxUpsets

(* The public feed only moves forward: a file that replaces another        *)
(* carries a later stamp, so two different feeds never share one and a     *)
(* reader that compares stamps never takes an older feed for news.         *)
(* (`open_with`'s comparison, `updated_at` of `apply`, `recover`.)         *)
FeedMovesForward ==
  [][disk # Missing /\ disk' # Missing /\ disk' # disk => disk'.stamp > disk.stamp]_vars

(* However the service stopped, between the commit, the rename and the     *)
(* record of the export included, it can start again by itself; only a     *)
(* restored database needs `recover`, and then `recover` is enough.        *)
Restartable == HasState /\ ~touched => Agrees

(* A revision recorded as exported by the running service is what the      *)
(* public reads, unless the file was taken away: the "Feed published"      *)
(* receipt is true, and a pending export is never forgotten.               *)
ExportedIsPublic ==
  serving /\ HasState /\ ~Pending(db) => disk \in {db.feed, Missing}

(* A change is carried out only on the state its author was looking at,    *)
(* whatever was retried, delayed or sent twice in between.  A page loaded  *)
(* before a restore is outside: revisions of the lost database come again. *)
Saved == IF HasState THEN db.requests ELSE {}
ReviewedIsApplied ==
  [][\A q \in sent :
       /\ q.change \in Saved' \ Saved
       /\ epoch' = epoch /\ q.from.epoch = epoch
       => q.from.view = View(db)]_vars

(* An author told that another revision exists has not changed anything,   *)
(* and that request never will: a retry of a saved change is answered as   *)
(* saved, whatever happened since.                                         *)
ConflictIsFinal == \A q \in refused : q.from.epoch = epoch => q.change \notin Saved

(* The public feed catches up with the database again and again, as long   *)
(* as the database may start and nobody took the file away.                *)
CannotStart == proc = "down" /\ (db = Blank \/ (HasState /\ ~Agrees) \/ (db = Missing /\ disk # Missing))
PublicCatchesUp == []<>(CannotStart \/ disk = Missing \/ (HasState /\ disk = db.feed))
=============================================================================
