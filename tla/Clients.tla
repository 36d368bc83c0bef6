------------------------------- MODULE Clients -------------------------------
(***************************************************************************)
(* What the desktop keeps in step with a server: the market snapshot and   *)
(* the scan definitions, files of its own site that it keeps with their    *)
(* entity tags, and the user's status on warframe.market.  The two files   *)
(* share nothing but the rule that a tag must not outlive its body.        *)
(***************************************************************************)
EXTENDS Naturals, Sequences, SequencesExt

CONSTANTS Refreshers, Readers, Nobody, MaxVersions, MaxWrites, MaxDefinitions, MaxFaults,
  UserSettings, MaxEvents, NoStatus

VARIABLES
  made, ahead, served, signed, body, tag, file, lock, pc, got, parsed, stamp, faults,
  pushed, quality, draft, draftTag, found, starting, fetched, installed, lost, blocked,
  queue, brain, ended, phase, todo, pending, socket, own, refusedGen, answers,
  wire, inbox, stray, market, signedIn, gen, paused, pid, said, misheard, events

A == INSTANCE Artifacts
D == INSTANCE Definitions WITH faults <- blocked, held <- found
P == INSTANCE Presence WITH None <- NoStatus
avars == <<made, ahead, served, signed, body, tag, file, lock, pc, got, parsed, stamp, faults>>
dvars == <<pushed, quality, draft, draftTag, found, starting, fetched, installed, lost, blocked>>
pvars == <<queue, brain, ended, phase, todo, pending, socket, own, refusedGen, answers,
  wire, inbox, stray, market, signedIn, gen, paused, pid, said, misheard, events>>

\* Nobody is a refresher, and no stamp of a file reads like the absence of one.
ASSUME NobodyIsNobody == Nobody \notin Refreshers /\ Nobody \notin 0 .. MaxWrites
ASSUME BoundsAreNumbers ==
  /\ MaxVersions \in Nat /\ MaxWrites \in Nat /\ MaxDefinitions \in Nat /\ MaxFaults \in Nat
  /\ MaxEvents \in Nat
ASSUME SettingsAreChosen == UserSettings \subseteq P!Settings

(* Over both files: a tag kept on disk belongs to the body beside it or to   *)
(* an older one, so a "not modified" hides no newer file.  For the snapshot  *)
(* that holds whatever fails; for the definitions it holds of every tag but  *)
(* that of the version whose own body the disk refused, or removed without   *)
(* its tag, which fetch() and reset_cache() do not look at.                  *)
TagsNameWhatIsHeld == A!TagNamesWhatIsHeld /\ D!TagNamesTheDraft

(* parsed_market: what native readers work from is the file, and never a     *)
(* parse kept under the stamp of another one.                                *)
ParsedIsTheFile == A!ParsedIsTheFile

(* stamp_replaces: a good snapshot is never replaced by an older one.        *)
SnapshotsMoveForward == A!SnapshotsMoveForward

(* A change made over the socket that is open is never taken for one made    *)
(* elsewhere, whatever arrives between its answer and its announcement and   *)
(* whatever dropped sockets left under way. (Loop::own_revision)             *)
OwnChangeKept == P!OwnChangeKept

----------------------------------------------------------------------------
(* What makes these four inductive.                                         *)

\* REFRESH_LOCK: whoever is not idle holds it, so there is one at a time.
LockHeld == \A t \in Refreshers : pc[t] # "idle" => lock = t

\* Whatever is held, fetched or served was made, so what is made next is newer.
NothingUnmade ==
  /\ ahead \subseteq 1 .. made /\ served <= made /\ signed <= made /\ body <= made
  /\ \A t \in Refreshers : got[t] <= made

\* A refresher that has not written yet found room for one more write, what it
\* verified still replaces the body when it writes it, and what it wrote is the
\* body when it writes the tag.
HandsAreRight ==
  \A t \in Refreshers :
    /\ pc[t] \in {"fetch", "verify", "body"} => file < MaxWrites
    /\ pc[t] = "body" => A!Replaces(got[t])
    /\ pc[t] = "tag" => body = got[t]

\* No stamp is of a file yet to come.
StampsArePast ==
  \A s \in {parsed.at} \cup {stamp[r] : r \in Readers} : s = Nobody \/ s \in 0 .. file

SnapshotKept ==
  /\ A!TypeOK /\ LockHeld /\ NothingUnmade /\ HandsAreRight /\ StampsArePast
  /\ A!TagNamesWhatIsHeld /\ A!ParsedIsTheFile

\* What a start fetched is the newest there was, and with its body written the
\* draft is that very file.
FetchedIsNewest ==
  /\ draft <= pushed /\ draftTag <= pushed /\ fetched <= pushed
  /\ starting = "body" => fetched # 0 /\ draft <= fetched /\ draftTag <= fetched
  /\ starting = "tag" => fetched # 0 /\ draftTag <= fetched /\ (draft = fetched \/ fetched \in lost)

DraftKept == D!TypeOK /\ FetchedIsNewest /\ D!TagNamesTheDraft

\* The server answers a change before it announces it, and frames keep their order: the
\* program has heard of an announced change made over this socket, or will before it hears
\* of it.  It forgets no revision it heard of, over any number of sockets.
AnsweredFirst ==
  \A i \in 1 .. Len(inbox) :
    inbox[i].kind \in {"changed", "first"} /\ inbox[i].own =>
      \/ inbox[i].rev <= own
      \/ \E j \in 1 .. i - 1 : inbox[j].kind = "ok" /\ inbox[j].rev = inbox[i].rev
RevisionsAreNumbers ==
  /\ market.rev \in Nat /\ own \in Nat
  /\ inbox \in Seq(ToSet(inbox))
  /\ \A i \in 1 .. Len(inbox) : inbox[i].kind # "no" => inbox[i].rev \in Nat
StatusKept == RevisionsAreNumbers /\ AnsweredFirst /\ P!OwnChangeKept
=============================================================================
