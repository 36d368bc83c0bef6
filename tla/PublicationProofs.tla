------------------------- MODULE PublicationProofs -------------------------
(* Proofs about the publisher, for every set of authors, identifiers and   *)
(* contents and every bound.                                               *)
EXTENDS Publication, TLAPS

----------------------------------------------------------------------------
(* Lemmas about the transactions. *)

(* What a change makes of the three listings, whatever is asked. *)
LEMMA ListingsTyped ==
  ASSUME NEW d \in Database, NEW c \in Change, NEW id \in Ids, NEW now \in Clock,
         Allowed(d, c, now)
  PROVE  /\ NewDraft(d, c, id) \in Listing
         /\ NewLive(d, c, id) \in Listing
         /\ NewFeed(d, c, id, now) \in Feed
<1>1. d.draft \in Listing /\ d.live \in Listing /\ d.feed \in Feed
  BY DEF Database
<1>2. c.content \in Contents \cup {None} BY DEF Change
<1>3. NewDraft(d, c, id) \in Listing
  BY <1>1, <1>2 DEF NewDraft, Listing
<1>4. NewLive(d, c, id) \in Listing
  BY <1>1 DEF NewLive, Listing
<1>5. NewEvents(d, c, id) \in Listing
  BY <1>1, <1>2 DEF NewEvents, Listing, Feed
<1>6. Stamped(d, now) \in Nat
  BY <1>1, PublicationAssumption DEF Stamped, Feed
<1>7. Showing(NewLive(d, c, id), now) \in Listing
  BY <1>4 DEF Showing, Listing
<1>8. Pruned(NewEvents(d, c, id), now) \in Listing
  BY <1>5 DEF Pruned, Listing
<1>9. d.feed.messages \in Listing BY <1>1 DEF Feed
<1>10. NewFeed(d, c, id, now) \in Feed
  BY <1>1, <1>6, <1>7, <1>8, <1>9 DEF NewFeed, Feed
<1> QED BY <1>3, <1>4, <1>10

LEMMA CommitTyped ==
  ASSUME NEW d \in Database, RevisionsOK(d), NEW c \in Change, NEW id \in Ids, NEW now \in Clock,
         Allowed(d, c, now)
  PROVE  /\ Committed(d, c, id, now) \in Database
         /\ RevisionsOK(Committed(d, c, id, now))
         /\ Committed(d, c, id, now).rev = d.rev + 1
         /\ Committed(d, c, id, now).requests = d.requests \cup {c}
         /\ \/ /\ Committed(d, c, id, now).feed = d.feed
               /\ Committed(d, c, id, now).feedRev = d.feedRev
               /\ Committed(d, c, id, now).expRev = d.expRev
            \/ /\ Committed(d, c, id, now).feed.stamp > d.feed.stamp
               /\ Pending(Committed(d, c, id, now))
<1>1. /\ NewDraft(d, c, id) \in Listing
      /\ NewLive(d, c, id) \in Listing
      /\ NewFeed(d, c, id, now) \in Feed
  BY ListingsTyped
<1>2. d.rev \in Nat /\ d.feedRev \in Nat /\ d.expRev \in Int /\ d.requests \in SUBSET Change /\ d.feed.stamp \in Nat
  BY DEF Database, Feed
<1>3. Committed(d, c, id, now) \in Database
  BY <1>1, <1>2 DEF Committed, Database
<1>4. RevisionsOK(Committed(d, c, id, now))
  BY <1>2 DEF Committed, RevisionsOK
<1>5. CASE c.op = "save"
  BY <1>3, <1>4, <1>5 DEF Committed, NewFeed
<1>6. CASE c.op # "save"
  <2>1. NewFeed(d, c, id, now).stamp = Stamped(d, now) BY <1>6 DEF NewFeed
  <2>2. Stamped(d, now) > d.feed.stamp BY <1>2, PublicationAssumption DEF Stamped
  <2>3. Pending(Committed(d, c, id, now)) BY <1>2, <1>6 DEF Committed, Pending, RevisionsOK
  <2>4. Committed(d, c, id, now).feed.stamp > d.feed.stamp BY <2>1, <2>2 DEF Committed
  <2> QED BY <1>3, <1>4, <2>3, <2>4 DEF Committed
<1> QED BY <1>5, <1>6

LEMMA ExportTyped ==
  ASSUME NEW d \in Database, RevisionsOK(d)
  PROVE  /\ Exported(d) \in Database /\ RevisionsOK(Exported(d))
         /\ Exported(d).rev = d.rev /\ Exported(d).feed = d.feed
         /\ Exported(d).requests = d.requests /\ View(Exported(d)) = View(d)
<1> QED BY DEF Exported, Database, RevisionsOK, View

LEMMA RecoverTyped ==
  ASSUME NEW d \in Database, RevisionsOK(d), NEW public \in Feed, NEW now \in Clock
  PROVE  /\ Recovered(d, public, now) \in Database
         /\ RevisionsOK(Recovered(d, public, now))
         /\ Recovered(d, public, now).rev = d.rev + 1
         /\ Recovered(d, public, now).requests = d.requests
         /\ Recovered(d, public, now).feed.stamp > public.stamp
<1>1. d.feed.stamp \in Nat /\ public.stamp \in Nat /\ now \in Nat /\ d.rev \in Nat /\ d.feed \in Feed
  BY PublicationAssumption DEF Database, Feed
<1>2. Above(d, public) \in Nat /\ Above(d, public) > public.stamp
  BY <1>1 DEF Above
<1>3. Recovered(d, public, now).feed \in Feed
  BY <1>1, <1>2 DEF Recovered, Feed
<1>4. Recovered(d, public, now).feed.stamp > public.stamp
  BY <1>1, <1>2 DEF Recovered, Feed
<1>5. Recovered(d, public, now) \in Database
  BY <1>1, <1>3 DEF Recovered, Database
<1> QED
  BY <1>1, <1>4, <1>5 DEF Recovered, RevisionsOK

----------------------------------------------------------------------------
(* The inductive invariant. *)

Opened == proc \in {"export", "mark", "idle"}

(* The service works on a database nobody replaced since it was opened,    *)
(* and an export that is being recorded is still in place.                 *)
Phases ==
  /\ Opened => HasState /\ ~touched
  /\ serving => Opened
  /\ proc = "mark" => disk \in {db.feed, Missing}
  /\ proc = "seeding" => db = Blank /\ disk = Missing

(* A page of this database shows a revision it has had, and the newest     *)
(* one as it is.                                                           *)
Seen ==
  \A q \in sent :
    /\ q.from.epoch <= epoch
    /\ q.from.epoch = epoch =>
         /\ HasState
         /\ q.change.expected = q.from.rev /\ q.from.rev <= db.rev
         /\ q.from.rev = db.rev => q.from.view = View(db)

(* A refused change was not carried out, and never can be: its identifier  *)
(* is taken, or its revision has passed.                                   *)
Final ==
  \A q \in refused :
    q.from.epoch = epoch =>
      /\ HasState /\ q.change \notin db.requests
      /\ Known(q.change) \/ q.from.rev < db.rev

Sound == TypeOK /\ Phases /\ Restartable /\ ExportedIsPublic /\ Seen /\ Final

LEMMA StateIsDatabase ==
  ASSUME TypeOK PROVE HasState <=> db \in Database
BY FilesApart DEF TypeOK, HasState

LEMMA SeedTyped == SeedDb \in Database /\ RevisionsOK(SeedDb) /\ Pending(SeedDb)
<1>1. Nothing \in Listing BY DEF Nothing, Listing
<1>2. Seed \in Feed BY <1>1 DEF Seed, Feed
<1> QED BY <1>1, <1>2 DEF SeedDb, Database, RevisionsOK, Pending

(* What a request of the service is. *)
LEMMA RequestTyped ==
  ASSUME NEW q \in Request
  PROVE  q.change \in Change /\ q.from \in Page /\ q.from.epoch \in Nat /\ q.from.rev \in Nat
         /\ q.change.expected \in Nat
BY DEF Request, Page, Change

(* A transaction of Accept, from the point of view of the database. *)
LEMMA AcceptCommits ==
  ASSUME TypeOK, Phases, NEW q \in sent, Accept(q)
  PROVE  /\ db \in Database /\ db' \in Database /\ RevisionsOK(db')
         /\ db'.rev = db.rev + 1
         /\ db'.requests = db.requests \cup {q.change}
         /\ q.change \notin db.requests /\ ~Known(q.change) /\ q.change.expected = db.rev
         /\ \/ db'.feed = db.feed /\ db'.feedRev = db.feedRev /\ db'.expRev = db.expRev
            \/ db'.feed.stamp > db.feed.stamp /\ Pending(db')
<1>1. HasState /\ db \in Database /\ RevisionsOK(db)
  BY StateIsDatabase DEF Accept, Phases, Opened, TypeOK
<1>2. q.change \in Change
  BY RequestTyped DEF TypeOK
<1>3. PICK now \in Clock, id \in Target(q.change) :
        Allowed(db, q.change, now) /\ db' = Committed(db, q.change, id, now)
  BY DEF Accept
<1>4. id \in Ids
  <2>1. q.change.id \in Ids \cup {None} BY <1>2 DEF Change
  <2> QED BY <2>1 DEF Target
<1>5. ~Replayed(q.change) /\ ~Conflicts(q.change)
  BY DEF Accept
<1>6. q.change \notin db.requests /\ ~Known(q.change) /\ q.change.expected = db.rev
  BY <1>5 DEF Replayed, Conflicts
<1> HIDE DEF Committed, Allowed
<1> QED
  BY <1>1, <1>2, <1>3, <1>4, <1>6, CommitTyped

LEMMA InitSound == Init => Sound
<1> SUFFICES ASSUME Init PROVE Sound
  OBVIOUS
<1>1. TypeOK
  <2>1. MaxUpsets \in Nat BY PublicationAssumption
  <2>2. ~HasState BY DEF Init, HasState
  <2>3. serving \in BOOLEAN /\ touched \in BOOLEAN BY DEF Init
  <2>4. upsets \in 0..MaxUpsets /\ epoch \in Nat BY <2>1 DEF Init
  <2>5. db \in {Missing} /\ disk \in {Missing} /\ backup = None BY DEF Init
  <2>6. proc = "down" /\ named = {} /\ sent = {} /\ refused = {} BY DEF Init
  <2> QED BY <2>2, <2>3, <2>4, <2>5, <2>6 DEF TypeOK
<1>2. Phases /\ Seen /\ Final BY DEF Init, Phases, Opened, Seen, Final
<1>3. Restartable /\ ExportedIsPublic BY DEF Init, Restartable, ExportedIsPublic, HasState
<1> QED BY <1>1, <1>2, <1>3 DEF Sound

LEMMA NextTyped == TypeOK /\ Phases /\ [Next]_vars => TypeOK'
<1> SUFFICES ASSUME TypeOK, Phases, [Next]_vars PROVE TypeOK'
  OBVIOUS
<1> USE DEF TypeOK, HasState, host, clients
<1>1. CASE CreateFile BY <1>1 DEF CreateFile
<1>2. CASE InsertSeed BY <1>2, SeedTyped DEF InsertSeed
<1>3. CASE Start BY <1>3 DEF Start
<1>4. CASE Replace
  <2>1. db \in Database BY <1>4, StateIsDatabase DEF Replace, Phases, Opened
  <2>2. db.feed \in Feed BY <2>1 DEF Database
  <2> QED BY <1>4, <2>2 DEF Replace
<1>5. CASE ExportRefused BY <1>5, PublicationAssumption DEF ExportRefused
<1>6. CASE Mark
  <2>1. db \in Database /\ RevisionsOK(db) BY <1>6, StateIsDatabase DEF Mark, Phases, Opened
  <2>2. db' \in Database /\ RevisionsOK(db') BY <1>6, <2>1, ExportTyped DEF Mark
  <2> QED BY <1>6, <2>2 DEF Mark
<1>7. CASE NothingToExport BY <1>7 DEF NothingToExport
<1>8. CASE Maintenance BY <1>8 DEF Maintenance
<1>9. ASSUME NEW a \in Actors, Compose(a) PROVE TypeOK'
  <2>1. db \in Database BY <1>9, StateIsDatabase DEF Compose, Phases, Opened
  <2>2. Snapshot \in Page /\ db.rev \in Nat
    BY <2>1 DEF Snapshot, Page, View, Views, Database, Feed
  <2>3. PICK rid \in Rids, op \in Operations, id \in Ids \cup {None}, content \in Contents \cup {None} :
          sent' = sent \cup {[change |-> [actor |-> a, rid |-> rid, expected |-> db.rev, op |-> op,
                                          id |-> id, content |-> content],
                              from |-> Snapshot]}
    BY <1>9 DEF Compose
  <2>4. [actor |-> a, rid |-> rid, expected |-> db.rev, op |-> op, id |-> id, content |-> content] \in Change
    BY <2>2 DEF Change
  <2>5. sent' \subseteq Request BY <2>2, <2>3, <2>4 DEF Request
  <2> QED BY <1>9, <2>3, <2>5 DEF Compose
<1>10. ASSUME NEW q \in sent, RefuseConflict(q) PROVE TypeOK' BY <1>10 DEF RefuseConflict
<1>11. ASSUME NEW q \in sent, Replay(q) PROVE TypeOK' BY <1>11 DEF Replay
<1>12. ASSUME NEW q \in sent, Accept(q) PROVE TypeOK'
  <2>1. db' \in Database /\ RevisionsOK(db') BY <1>12, AcceptCommits
  <2>2. named' \subseteq Ids
    <3>1. q.change.id \in Ids \cup {None} BY RequestTyped DEF Change
    <3>2. PICK now \in Clock, id \in Target(q.change) : named' = named \cup {id}
      BY <1>12 DEF Accept
    <3> QED BY <3>1, <3>2 DEF Target
  <2> QED BY <1>12, <2>1, <2>2 DEF Accept
<1>13. CASE Crash
  <2>1. upsets' \in 0..MaxUpsets BY <1>13, PublicationAssumption DEF Crash, Upset
  <2>2. proc' = "down" /\ serving' = FALSE BY <1>13 DEF Crash
  <2>3. UNCHANGED <<db, disk, named, sent, refused, backup, epoch, touched>> BY <1>13 DEF Crash
  <2> QED BY <2>1, <2>2, <2>3
<1>14. CASE TakeBackup BY <1>14, StateIsDatabase DEF TakeBackup
<1>15. CASE Restore BY <1>15, PublicationAssumption DEF Restore, Upset
<1>16. CASE LoseDatabase BY <1>16, PublicationAssumption DEF LoseDatabase, Upset
<1>17. CASE LoseExport BY <1>17, PublicationAssumption DEF LoseExport, Upset
<1>18. CASE Recover
  <2>1. db \in Database /\ RevisionsOK(db) /\ disk \in Feed BY <1>18, StateIsDatabase DEF Recover
  <2>2. db' \in Database /\ RevisionsOK(db') BY <1>18, <2>1, RecoverTyped DEF Recover
  <2> QED BY <1>18, <2>2 DEF Recover
<1>19. CASE UNCHANGED vars BY <1>19 DEF vars
<1> QED
  BY <1>1, <1>2, <1>3, <1>4, <1>5, <1>6, <1>7, <1>8, <1>9, <1>10, <1>11, <1>12, <1>13, <1>14,
     <1>15, <1>16, <1>17, <1>18, <1>19 DEF Next, Service

(* The steps that leave the database, the file and the phase alone. *)
LEMMA Elsewhere ==
  ASSUME Phases, Restartable, ExportedIsPublic,
         UNCHANGED <<db, disk, proc, serving, touched>>
  PROVE  Phases' /\ Restartable' /\ ExportedIsPublic'
<1>1. Phases' BY DEF Phases, Opened, HasState
<1>2. Restartable' BY DEF Restartable, Agrees, HasState
<1>3. ExportedIsPublic' BY DEF ExportedIsPublic, HasState, Pending
<1> QED BY <1>1, <1>2, <1>3

LEMMA NextPhases ==
  TypeOK /\ Phases /\ Restartable /\ ExportedIsPublic /\ [Next]_vars
    => Phases' /\ Restartable' /\ ExportedIsPublic'
<1> SUFFICES ASSUME TypeOK, Phases, Restartable, ExportedIsPublic, [Next]_vars
             PROVE  Phases' /\ Restartable' /\ ExportedIsPublic'
  OBVIOUS
<1> USE DEF host, clients
<1>1. CASE CreateFile
  <2>1. ~serving' /\ proc' = "seeding" /\ db' = Blank /\ disk' = Missing
    BY <1>1 DEF CreateFile, Phases, Opened
  <2> QED BY <2>1 DEF Phases, Opened, Restartable, ExportedIsPublic, HasState
<1>2. CASE InsertSeed
  <2>1. db' = SeedDb /\ proc' = "export" /\ disk' = Missing /\ ~serving' /\ touched' = FALSE
    BY <1>2 DEF InsertSeed, Phases, Opened
  <2>2. HasState' BY <2>1, SeedTyped, FilesApart DEF HasState
  <2> QED BY <2>1, <2>2 DEF Phases, Opened, Restartable, Agrees, ExportedIsPublic
<1>3. CASE Start
  <2>1. /\ HasState /\ Agrees /\ UNCHANGED <<db, disk>>
        /\ proc' = "export" /\ ~serving' /\ touched' = FALSE
    BY <1>3 DEF Start, Phases, Opened
  <2>2. HasState' /\ Agrees' BY <2>1 DEF HasState, Agrees
  <2> QED BY <2>1, <2>2 DEF Phases, Opened, Restartable, ExportedIsPublic
<1>4. CASE Replace
  <2>1. /\ proc = "export" /\ proc' = "mark" /\ disk' = db.feed /\ UNCHANGED <<db, serving, touched>>
    BY <1>4 DEF Replace
  <2>2. HasState' /\ ~touched' BY <2>1 DEF Phases, Opened, HasState
  <2> QED BY <2>1, <2>2 DEF Phases, Opened, Restartable, Agrees, ExportedIsPublic
<1>5. CASE ExportRefused
  <2>1. /\ proc \in {"export", "mark"} /\ UNCHANGED <<db, disk, serving, touched>>
        /\ proc' = IF serving THEN "idle" ELSE "down"
    BY <1>5 DEF ExportRefused
  <2>2. HasState' /\ ~touched' BY <2>1 DEF Phases, Opened, HasState
  <2>3. Restartable' BY <2>1 DEF Restartable, Agrees, HasState
  <2>4. ExportedIsPublic' BY <2>1 DEF ExportedIsPublic, HasState, Pending
  <2> QED BY <2>1, <2>2, <2>3, <2>4 DEF Phases, Opened
<1>6. CASE Mark
  <2>1. /\ proc = "mark" /\ proc' = "idle" /\ serving' = TRUE /\ db' = Exported(db)
        /\ UNCHANGED <<disk, touched>>
    BY <1>6 DEF Mark
  <2>2. db \in Database /\ RevisionsOK(db) /\ HasState /\ ~touched /\ disk \in {db.feed, Missing}
    BY <2>1, StateIsDatabase DEF Phases, Opened, TypeOK
  <2>3. db' \in Database /\ db'.feed = db.feed BY <2>1, <2>2, ExportTyped
  <2>4. HasState' BY <2>3, FilesApart DEF HasState
  <2> QED BY <2>1, <2>2, <2>3, <2>4 DEF Phases, Opened, Restartable, Agrees, ExportedIsPublic
<1>7. CASE NothingToExport
  <2>1. proc = "export" /\ serving /\ proc' = "idle" /\ UNCHANGED <<db, disk, serving, touched>>
    BY <1>7 DEF NothingToExport
  <2>2. Phases' BY <2>1 DEF Phases, Opened, HasState
  <2>3. Restartable' BY <2>1 DEF Restartable, Agrees, HasState
  <2>4. ExportedIsPublic' BY <2>1 DEF ExportedIsPublic, HasState, Pending
  <2> QED BY <2>2, <2>3, <2>4
<1>8. CASE Maintenance
  <2>1. proc = "idle" /\ proc' = "export" /\ UNCHANGED <<db, disk, serving, touched>>
    BY <1>8 DEF Maintenance
  <2>2. Phases' BY <2>1 DEF Phases, Opened, HasState
  <2>3. Restartable' BY <2>1 DEF Restartable, Agrees, HasState
  <2>4. ExportedIsPublic' BY <2>1 DEF ExportedIsPublic, HasState, Pending
  <2> QED BY <2>2, <2>3, <2>4
<1>9. ASSUME NEW a \in Actors, Compose(a) PROVE Phases' /\ Restartable' /\ ExportedIsPublic'
  BY <1>9, Elsewhere DEF Compose
<1>10. ASSUME NEW q \in sent, RefuseConflict(q) PROVE Phases' /\ Restartable' /\ ExportedIsPublic'
  BY <1>10, Elsewhere DEF RefuseConflict
<1>11. ASSUME NEW q \in sent, Replay(q) PROVE Phases' /\ Restartable' /\ ExportedIsPublic'
  <2>1. proc = "idle" /\ proc' = "export" /\ UNCHANGED <<db, disk, serving, touched>>
    BY <1>11 DEF Replay
  <2>2. Phases' BY <2>1 DEF Phases, Opened, HasState
  <2>3. Restartable' BY <2>1 DEF Restartable, Agrees, HasState
  <2>4. ExportedIsPublic' BY <2>1 DEF ExportedIsPublic, HasState, Pending
  <2> QED BY <2>2, <2>3, <2>4
<1>12. ASSUME NEW q \in sent, Accept(q) PROVE Phases' /\ Restartable' /\ ExportedIsPublic'
  <2>1. proc = "idle" /\ proc' = "export" /\ UNCHANGED <<disk, serving, touched>>
    BY <1>12 DEF Accept
  <2>2. HasState /\ ~touched BY <2>1 DEF Phases, Opened
  <2>3. /\ db \in Database /\ db' \in Database
        /\ \/ db'.feed = db.feed /\ db'.feedRev = db.feedRev /\ db'.expRev = db.expRev
           \/ db'.feed.stamp > db.feed.stamp /\ Pending(db')
    BY <1>12, AcceptCommits
  <2>4. HasState' BY <2>3, FilesApart DEF HasState
  <2>5. Phases' BY <2>1, <2>2, <2>4 DEF Phases, Opened
  <2>6. Restartable'
    <3>1. db.feed.stamp \in Nat /\ db'.feed.stamp \in Nat /\ (disk # Missing => disk.stamp \in Nat)
      BY <2>3 DEF Database, Feed, TypeOK
    <3>2. Agrees BY <2>2 DEF Restartable
    <3>3. Agrees' BY <2>1, <2>3, <3>1, <3>2 DEF Agrees
    <3> QED BY <3>3 DEF Restartable
  <2>7. ExportedIsPublic' BY <2>1, <2>2, <2>3 DEF ExportedIsPublic, Pending
  <2> QED BY <2>5, <2>6, <2>7
<1>13. CASE Crash
  <2>1. proc' = "down" /\ ~serving' /\ UNCHANGED <<db, disk, touched>> BY <1>13 DEF Crash
  <2>2. Restartable' BY <2>1 DEF Restartable, Agrees, HasState
  <2> QED BY <2>1, <2>2 DEF Phases, Opened, ExportedIsPublic
<1>14. CASE TakeBackup BY <1>14, Elsewhere DEF TakeBackup
<1>15. CASE Restore
  <2>1. proc' = "down" /\ ~serving' /\ touched' = TRUE
    BY <1>15 DEF Restore, Phases, Opened
  <2> QED BY <2>1 DEF Phases, Opened, Restartable, ExportedIsPublic
<1>16. CASE LoseDatabase
  <2>1. proc' = "down" /\ ~serving' /\ touched' = TRUE
    BY <1>16 DEF LoseDatabase, Phases, Opened
  <2> QED BY <2>1 DEF Phases, Opened, Restartable, ExportedIsPublic
<1>17. CASE LoseExport
  <2>1. disk' = Missing /\ UNCHANGED <<db, proc, serving, touched>> BY <1>17 DEF LoseExport
  <2>2. Phases' BY <2>1 DEF Phases, Opened, HasState
  <2> QED BY <2>1, <2>2 DEF Restartable, Agrees, ExportedIsPublic
<1>18. CASE Recover
  <2>1. /\ proc = "down" /\ proc' = "down" /\ HasState /\ disk # Missing /\ touched' = FALSE
        /\ UNCHANGED <<disk, serving>>
    BY <1>18 DEF Recover
  <2>2. PICK now \in Clock : db' = Recovered(db, disk, now) BY <1>18 DEF Recover
  <2>3. db \in Database /\ RevisionsOK(db) /\ disk \in Feed BY <2>1, StateIsDatabase DEF TypeOK
  <2>4. db'.feed.stamp > disk.stamp /\ db' \in Database /\ disk.stamp \in Nat
    BY <2>2, <2>3, RecoverTyped DEF Feed
  <2>5. db'.feed.stamp \in Nat BY <2>4 DEF Database, Feed
  <2>6. Restartable' BY <2>1, <2>4, <2>5 DEF Restartable, Agrees
  <2>7. ~serving' BY <2>1 DEF Phases, Opened
  <2> QED BY <2>1, <2>6, <2>7 DEF Phases, Opened, ExportedIsPublic
<1>19. CASE UNCHANGED vars BY <1>19, Elsewhere DEF vars
<1> QED
  BY <1>1, <1>2, <1>3, <1>4, <1>5, <1>6, <1>7, <1>8, <1>9, <1>10, <1>11, <1>12, <1>13, <1>14,
     <1>15, <1>16, <1>17, <1>18, <1>19 DEF Next, Service

(* Requests keep what they say of the database while its revision and its  *)
(* contents stay, and lose nothing when the revision passes theirs.        *)
LEMMA SeenKept ==
  ASSUME TypeOK, Seen, sent' = sent, epoch' = epoch,
         HasState => HasState' /\ db'.rev = db.rev /\ View(db') = View(db)
  PROVE  Seen'
BY DEF Seen

LEMMA SeenPassed ==
  ASSUME TypeOK, Seen, sent' = sent, epoch' = epoch,
         HasState, HasState', db \in Database, db'.rev = db.rev + 1
  PROVE  Seen'
<1> SUFFICES ASSUME NEW q \in sent
             PROVE  /\ q.from.epoch <= epoch
                    /\ q.from.epoch = epoch =>
                         /\ q.change.expected = q.from.rev /\ q.from.rev <= db'.rev
                         /\ q.from.rev # db'.rev
  BY DEF Seen
<1>1. q.from.rev \in Nat /\ db.rev \in Nat BY RequestTyped DEF TypeOK, Database
<1> QED BY <1>1 DEF Seen

LEMMA SeenOlder ==
  ASSUME TypeOK, Seen, sent' = sent, epoch' = epoch + 1
  PROVE  Seen'
<1> SUFFICES ASSUME NEW q \in sent
             PROVE  q.from.epoch <= epoch + 1 /\ q.from.epoch # epoch + 1
  BY DEF Seen
<1>1. q.from.epoch \in Nat /\ epoch \in Nat BY RequestTyped DEF TypeOK
<1> QED BY <1>1 DEF Seen

LEMMA NextSeen == TypeOK /\ Phases /\ Seen /\ [Next]_vars => Seen'
<1> SUFFICES ASSUME TypeOK, Phases, Seen, [Next]_vars PROVE Seen'
  OBVIOUS
<1> USE DEF host, clients
<1>1. CASE CreateFile BY <1>1, SeenKept DEF CreateFile, HasState
<1>2. CASE InsertSeed BY <1>2, SeenKept DEF InsertSeed, HasState, Phases
<1>3. CASE Start BY <1>3, SeenKept DEF Start, HasState
<1>4. CASE Replace BY <1>4, SeenKept DEF Replace, HasState
<1>5. CASE ExportRefused BY <1>5, SeenKept DEF ExportRefused, HasState
<1>6. CASE Mark
  <2>1. db \in Database /\ RevisionsOK(db) /\ db' = Exported(db)
    BY <1>6, StateIsDatabase DEF Mark, Phases, Opened, TypeOK
  <2>2. db' \in Database /\ db'.rev = db.rev /\ View(db') = View(db) BY <2>1, ExportTyped
  <2>3. HasState' BY <2>2, FilesApart DEF HasState
  <2> QED BY <1>6, <2>2, <2>3, SeenKept DEF Mark
<1>7. CASE NothingToExport BY <1>7, SeenKept DEF NothingToExport, HasState
<1>8. CASE Maintenance BY <1>8, SeenKept DEF Maintenance, HasState
<1>9. ASSUME NEW a \in Actors, Compose(a) PROVE Seen'
  <2>1. HasState /\ db \in Database BY <1>9, StateIsDatabase DEF Compose, Phases, Opened
  <2>2. PICK rid \in Rids, op \in Operations, id \in Ids \cup {None}, content \in Contents \cup {None} :
          sent' = sent \cup {[change |-> [actor |-> a, rid |-> rid, expected |-> db.rev, op |-> op,
                                          id |-> id, content |-> content],
                              from |-> Snapshot]}
    BY <1>9 DEF Compose
  <2>3. UNCHANGED <<db, epoch>> BY <1>9 DEF Compose
  <2>4. db.rev \in Nat /\ epoch \in Nat BY <2>1 DEF Database, TypeOK
  <2>5. Snapshot.rev = db.rev /\ Snapshot.epoch = epoch /\ Snapshot.view = View(db)
    BY DEF Snapshot
  <2>6. HasState' /\ View(db') = View(db) BY <2>1, <2>3 DEF HasState
  <2>7. ASSUME NEW q \in sent'
        PROVE  /\ q.from.epoch <= epoch
               /\ q.from.epoch = epoch =>
                    /\ q.change.expected = q.from.rev /\ q.from.rev <= db.rev
                    /\ q.from.rev = db.rev => q.from.view = View(db)
    <3>1. CASE q \in sent BY <3>1 DEF Seen
    <3>2. CASE q \notin sent
      <4>1. q.from = Snapshot /\ q.change.expected = db.rev BY <2>2, <3>2
      <4> QED BY <4>1, <2>4, <2>5
    <3> QED BY <3>1, <3>2
  <2> QED BY <2>3, <2>6, <2>7 DEF Seen
<1>10. ASSUME NEW q \in sent, RefuseConflict(q) PROVE Seen'
  BY <1>10, SeenKept DEF RefuseConflict, HasState
<1>11. ASSUME NEW q \in sent, Replay(q) PROVE Seen' BY <1>11, SeenKept DEF Replay, HasState
<1>12. ASSUME NEW q \in sent, Accept(q) PROVE Seen'
  <2>1. HasState BY <1>12 DEF Accept, Phases, Opened
  <2>2. db \in Database /\ db' \in Database /\ db'.rev = db.rev + 1 BY <1>12, AcceptCommits
  <2>3. HasState' BY <2>2, FilesApart DEF HasState
  <2> QED BY <1>12, <2>1, <2>2, <2>3, SeenPassed DEF Accept
<1>13. CASE Crash BY <1>13, SeenKept DEF Crash, HasState
<1>14. CASE TakeBackup BY <1>14, SeenKept DEF TakeBackup, HasState
<1>15. CASE Restore BY <1>15, SeenOlder DEF Restore
<1>16. CASE LoseDatabase BY <1>16, SeenOlder DEF LoseDatabase
<1>17. CASE LoseExport BY <1>17, SeenKept DEF LoseExport, HasState
<1>18. CASE Recover
  <2>1. HasState /\ disk \in Feed BY <1>18 DEF Recover, TypeOK
  <2>2. db \in Database /\ RevisionsOK(db) BY <2>1, StateIsDatabase DEF TypeOK
  <2>3. db' \in Database /\ db'.rev = db.rev + 1 BY <1>18, <2>1, <2>2, RecoverTyped DEF Recover
  <2>4. HasState' BY <2>3, FilesApart DEF HasState
  <2> QED BY <1>18, <2>1, <2>2, <2>3, <2>4, SeenPassed DEF Recover
<1>19. CASE UNCHANGED vars BY <1>19, SeenKept DEF vars, HasState
<1> QED
  BY <1>1, <1>2, <1>3, <1>4, <1>5, <1>6, <1>7, <1>8, <1>9, <1>10, <1>11, <1>12, <1>13, <1>14,
     <1>15, <1>16, <1>17, <1>18, <1>19 DEF Next, Service

(* What was refused stays refused while the requests carried out and the   *)
(* revision only grow.                                                     *)
LEMMA FinalKept ==
  ASSUME TypeOK, Final, refused' = refused, epoch' = epoch,
         HasState => /\ HasState' /\ db \in Database
                     /\ db'.rev \in {db.rev, db.rev + 1} /\ db'.requests = db.requests
  PROVE  Final'
<1> SUFFICES ASSUME NEW q \in refused, q.from.epoch = epoch
             PROVE  /\ HasState' /\ q.change \notin db'.requests
                    /\ Known(q.change)' \/ q.from.rev < db'.rev
  BY DEF Final
<1>1. HasState /\ q.change \notin db.requests /\ (Known(q.change) \/ q.from.rev < db.rev)
  BY DEF Final
<1>2. db.rev \in Nat /\ q.from.rev \in Nat BY <1>1, RequestTyped DEF Database, TypeOK
<1> QED BY <1>1, <1>2 DEF Known

LEMMA FinalOlder ==
  ASSUME TypeOK, Seen, Final, refused' = refused, epoch' = epoch + 1
  PROVE  Final'
<1> SUFFICES ASSUME NEW q \in refused PROVE q.from.epoch # epoch + 1
  BY DEF Final
<1>1. q.from.epoch <= epoch /\ q.from.epoch \in Nat /\ epoch \in Nat
  BY RequestTyped DEF Seen, TypeOK
<1> QED BY <1>1

LEMMA NextFinal == TypeOK /\ Phases /\ Seen /\ Final /\ [Next]_vars => Final'
<1> SUFFICES ASSUME TypeOK, Phases, Seen, Final, [Next]_vars PROVE Final'
  OBVIOUS
<1> USE DEF host, clients
<1>0. HasState => db \in Database BY StateIsDatabase
<1>1. CASE CreateFile BY <1>1, FinalKept DEF CreateFile, HasState
<1>2. CASE InsertSeed BY <1>2, FinalKept DEF InsertSeed, HasState, Phases
<1>3. CASE Start BY <1>0, <1>3, FinalKept DEF Start, HasState
<1>4. CASE Replace BY <1>0, <1>4, FinalKept DEF Replace, HasState
<1>5. CASE ExportRefused BY <1>0, <1>5, FinalKept DEF ExportRefused, HasState
<1>6. CASE Mark
  <2>1. db \in Database /\ RevisionsOK(db) /\ db' = Exported(db)
    BY <1>6, StateIsDatabase DEF Mark, Phases, Opened, TypeOK
  <2>2. db' \in Database /\ db'.rev = db.rev /\ db'.requests = db.requests BY <2>1, ExportTyped
  <2>3. HasState' BY <2>2, FilesApart DEF HasState
  <2> QED BY <1>6, <2>1, <2>2, <2>3, FinalKept DEF Mark
<1>7. CASE NothingToExport BY <1>0, <1>7, FinalKept DEF NothingToExport, HasState
<1>8. CASE Maintenance BY <1>0, <1>8, FinalKept DEF Maintenance, HasState
<1>9. ASSUME NEW a \in Actors, Compose(a) PROVE Final'
  BY <1>0, <1>9, FinalKept DEF Compose, HasState
<1>10. ASSUME NEW q \in sent, RefuseConflict(q) PROVE Final'
  <2>1. HasState /\ db \in Database BY <1>0, <1>10 DEF RefuseConflict, Phases, Opened
  <2>2. UNCHANGED <<db, epoch>> /\ refused' = refused \cup {q} /\ Conflicts(q.change)
    BY <1>10 DEF RefuseConflict
  <2>3. ASSUME q.from.epoch = epoch
        PROVE  q.change \notin db.requests /\ (Known(q.change) \/ q.from.rev < db.rev)
    <3>1. q.change.expected = q.from.rev /\ q.from.rev <= db.rev BY <2>3 DEF Seen
    <3>2. q.from.rev \in Nat /\ db.rev \in Nat BY <2>1, RequestTyped DEF TypeOK, Database
    <3>3. CASE Known(q.change) BY <2>2, <3>3 DEF Conflicts, Replayed
    <3>4. CASE ~Known(q.change) BY <2>2, <3>1, <3>2, <3>4 DEF Conflicts, Known
    <3> QED BY <3>3, <3>4
  <2> QED BY <2>1, <2>2, <2>3 DEF Final, HasState, Known
<1>11. ASSUME NEW q \in sent, Replay(q) PROVE Final' BY <1>0, <1>11, FinalKept DEF Replay, HasState
<1>12. ASSUME NEW q \in sent, Accept(q) PROVE Final'
  <2>1. HasState BY <1>12 DEF Accept, Phases, Opened
  <2>2. /\ db \in Database /\ db' \in Database /\ db'.rev = db.rev + 1
        /\ db'.requests = db.requests \cup {q.change}
        /\ ~Known(q.change) /\ q.change.expected = db.rev
    BY <1>12, AcceptCommits
  <2>3. HasState' BY <2>2, FilesApart DEF HasState
  <2>4. UNCHANGED <<refused, epoch>> BY <1>12 DEF Accept
  <2>5. ASSUME NEW r \in refused, r.from.epoch = epoch
        PROVE  r.change \notin db'.requests /\ (Known(r.change)' \/ r.from.rev < db'.rev)
    <3>1. r.change \notin db.requests /\ (Known(r.change) \/ r.from.rev < db.rev) BY <2>5 DEF Final
    <3>2. r \in sent /\ r.change.expected = r.from.rev /\ r.from.rev \in Nat /\ db.rev \in Nat
      BY <2>2, <2>5, RequestTyped DEF Seen, TypeOK, Database
    <3>3. r.change # q.change BY <2>2, <3>1, <3>2
    <3> QED BY <2>2, <3>1, <3>2, <3>3 DEF Known
  <2> QED BY <2>3, <2>4, <2>5 DEF Final
<1>13. CASE Crash BY <1>0, <1>13, FinalKept DEF Crash, HasState
<1>14. CASE TakeBackup BY <1>0, <1>14, FinalKept DEF TakeBackup, HasState
<1>15. CASE Restore BY <1>15, FinalOlder DEF Restore
<1>16. CASE LoseDatabase BY <1>16, FinalOlder DEF LoseDatabase
<1>17. CASE LoseExport BY <1>0, <1>17, FinalKept DEF LoseExport, HasState
<1>18. CASE Recover
  <2>1. HasState /\ disk \in Feed BY <1>18 DEF Recover, TypeOK
  <2>2. db \in Database /\ RevisionsOK(db) BY <2>1, StateIsDatabase DEF TypeOK
  <2>3. db' \in Database /\ db'.rev = db.rev + 1 /\ db'.requests = db.requests
    BY <1>18, <2>1, <2>2, RecoverTyped DEF Recover
  <2>4. HasState' BY <2>3, FilesApart DEF HasState
  <2> QED BY <1>18, <2>2, <2>3, <2>4, FinalKept DEF Recover
<1>19. CASE UNCHANGED vars BY <1>0, <1>19, FinalKept DEF vars, HasState
<1> QED
  BY <1>1, <1>2, <1>3, <1>4, <1>5, <1>6, <1>7, <1>8, <1>9, <1>10, <1>11, <1>12, <1>13, <1>14,
     <1>15, <1>16, <1>17, <1>18, <1>19 DEF Next, Service

LEMMA AlwaysSound == Spec => []Sound
<1>1. Sound /\ [Next]_vars => Sound'
  BY NextTyped, NextPhases, NextSeen, NextFinal DEF Sound
<1> QED BY InitSound, <1>1, PTL DEF Spec

----------------------------------------------------------------------------
(* Every reachable state is typed, and a database never counts more        *)
(* revisions as exported than it published, nor as published than it has.  *)
THEOREM PublicationTyped == Spec => []TypeOK
<1>1. Sound => TypeOK BY DEF Sound
<1> QED BY AlwaysSound, <1>1, PTL

(* A service that stopped anywhere can start again by itself unless its    *)
(* database was replaced, and after `recover` also then (`open_with`).     *)
THEOREM StartsAgain == Spec => []Restartable
<1>1. Sound => Restartable BY DEF Sound
<1> QED BY AlwaysSound, <1>1, PTL

(* What the running service counts as exported is what the public reads    *)
(* (`export_current`, `retry_export`).                                     *)
THEOREM ExportMarkIsTrue == Spec => []ExportedIsPublic
<1>1. Sound => ExportedIsPublic BY DEF Sound
<1> QED BY AlwaysSound, <1>1, PTL

(* An author told of another revision changed nothing and never will by    *)
(* that request (`apply`, `apply_event`).                                  *)
THEOREM RefusalsAreFinal == Spec => []ConflictIsFinal
<1>1. Sound => ConflictIsFinal BY DEF Sound, Final, ConflictIsFinal, Saved
<1> QED BY AlwaysSound, <1>1, PTL

(* A change is carried out only on the state its author reviewed.          *)
THEOREM AppliesWhatWasReviewed == Spec => ReviewedIsApplied
<1>1. Sound /\ [Next]_vars =>
        [\A q \in sent :
           /\ q.change \in Saved' \ Saved
           /\ epoch' = epoch /\ q.from.epoch = epoch
           => q.from.view = View(db)]_vars
  <2> SUFFICES ASSUME Sound, [Next]_vars, NEW q \in sent,
                      q.change \in Saved' \ Saved, epoch' = epoch, q.from.epoch = epoch
               PROVE  q.from.view = View(db)
    OBVIOUS
  <2>0. HasState /\ q.change.expected = q.from.rev /\ (q.from.rev = db.rev => q.from.view = View(db))
    BY DEF Sound, Seen
  <2>1. CASE \E r \in sent : Accept(r)
    <3>1. PICK r \in sent : Accept(r) BY <2>1
    <3>2. db'.requests = db.requests \cup {r.change} /\ r.change.expected = db.rev
      BY <3>1, AcceptCommits DEF Sound
    <3>3. q.change = r.change BY <2>0, <3>2 DEF Saved
    <3> QED BY <2>0, <3>2, <3>3
  <2>2. CASE Mark
    <3>1. db \in Database /\ RevisionsOK(db) BY <2>0, StateIsDatabase DEF Sound, TypeOK
    <3>2. db'.requests = db.requests BY <2>2, <3>1, ExportTyped DEF Mark
    <3> QED BY <2>0, <3>2 DEF Saved
  <2>3. CASE Recover
    <3>1. db'.requests = db.requests BY <2>3 DEF Recover, Recovered
    <3> QED BY <2>0, <3>1 DEF Saved
  <2>4. CASE Restore \/ LoseDatabase
    <3>1. epoch \in Nat BY DEF Sound, TypeOK
    <3> QED BY <2>4, <3>1 DEF Restore, LoseDatabase
  <2>5. CASE db' = db BY <2>5 DEF Saved, HasState
  <2>6. CASE CreateFile \/ InsertSeed
    BY <2>0, <2>6 DEF CreateFile, InsertSeed, HasState, Sound, Phases
  <2>7. \/ db' = db \/ CreateFile \/ InsertSeed \/ Mark \/ Recover \/ Restore \/ LoseDatabase
        \/ \E r \in sent : Accept(r)
    BY DEF Next, Service, vars, Start, Replace, ExportRefused, NothingToExport, Maintenance, Compose,
           RefuseConflict, Replay, Crash, TakeBackup, LoseExport
  <2> QED BY <2>1, <2>2, <2>3, <2>4, <2>5, <2>6, <2>7
<1> QED BY AlwaysSound, <1>1, PTL DEF Spec, ReviewedIsApplied

(* The public feed never goes back and never changes under one stamp.      *)
THEOREM FeedNeverGoesBack == Spec => FeedMovesForward
<1>1. Sound /\ [Next]_vars =>
        [disk # Missing /\ disk' # Missing /\ disk' # disk => disk'.stamp > disk.stamp]_vars
  <2> SUFFICES ASSUME Sound, [Next]_vars, disk # Missing, disk' # Missing, disk' # disk
               PROVE  disk'.stamp > disk.stamp
    OBVIOUS
  <2>1. Replace
    BY DEF Next, Service, vars, CreateFile, InsertSeed, Start, Mark, ExportRefused, NothingToExport,
           Maintenance, Compose, RefuseConflict, Replay, Accept, Crash, TakeBackup, Restore,
           LoseDatabase, LoseExport, Recover
  <2>2. disk' = db.feed /\ HasState /\ ~touched BY <2>1 DEF Replace, Sound, Phases, Opened
  <2>3. Agrees BY <2>2 DEF Sound, Restartable
  <2>4. db \in Database /\ disk \in Feed BY <2>2, StateIsDatabase DEF Sound, TypeOK
  <2>5. db.feed.stamp \in Nat /\ disk.stamp \in Nat BY <2>4 DEF Database, Feed
  <2> QED BY <2>2, <2>3, <2>5 DEF Agrees
<1> QED BY AlwaysSound, <1>1, PTL DEF Spec, FeedMovesForward
=============================================================================
