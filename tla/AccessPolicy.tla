---------------------------- MODULE AccessPolicy ----------------------------
(***************************************************************************)
(* wfm-client's signed restrictions: one thread of a process fetches them,  *)
(* verifies the signature, refuses what is not newer than the policy in     *)
(* force, writes the file and only then activates it.  The file is read     *)
(* back when the process starts, under a newer build perhaps, whose key     *)
(* replaced the one that signed it.                                         *)
(*                                                                          *)
(* An envelope is its revision, its restrictions and the key that signed    *)
(* it; a signature is valid under that key alone.  Builds are numbered by   *)
(* the key they were built with, and know the earlier ones as retired.      *)
(* The governor's revision and the store's current policy change together,  *)
(* under the store's lock, and are one variable.                            *)
(***************************************************************************)
EXTENDS Naturals

CONSTANTS
  MaxRevision,   \* revisions 1 .. MaxRevision
  Bodies,        \* restrictions a policy may bring
  MaxKey,        \* keys and builds 1 .. MaxKey
  None,          \* no policy, no tag
  MaxServes, MaxFailures, MaxCrashes \* bounds

Builds    == 1 .. MaxKey
Envelopes == [revision : 1 .. MaxRevision, body : Bodies, key : Builds]

VARIABLES
  served,            \* what the policy address serves
  file,              \* wfm-policy.json
  build,             \* the build installed
  pc, home,          \* where the policy thread is, and where a fetch returns to
  current,           \* the policy in force; None for the built-in defaults
  etag,              \* the tag of the last policy accepted
  raw, tag,          \* the answer in hand and its tag
  persistenceFailed, \* everything is paused until the process starts again
  best,              \* the newest policy that was ever in force
  inherited,         \* the file when the build was installed
  serves, failures, crashes

process == <<pc, home, current, etag, raw, tag, persistenceFailed>>
ghosts  == <<best, inherited>>
bounds  == <<serves, failures, crashes>>
vars    == <<served, file, build, process, ghosts, bounds>>

Revision(e) == IF e = None THEN 0 ELSE e.revision
Payload(e)  == IF e = None THEN <<0, None>> ELSE <<e.revision, e.body>>
\* verify and verify_cached.
Verified(e) == e.key = build
Fresh(e) == Verified(e)
Trusted(e) == e.key <= build
Newer(e) == e.revision > Revision(current)
Same(e)  == Payload(e) = Payload(current)

Init ==
  /\ served \in Envelopes
  /\ file = None /\ inherited = None
  /\ build = 1
  /\ pc = "down" /\ home = "spawn"
  /\ current = None /\ best = None
  /\ etag = None /\ raw = None /\ tag = None
  /\ persistenceFailed = FALSE
  /\ serves = 0 /\ failures = 0 /\ crashes = 0

---------------------------------------------------------------------------
\* start: the saved policy is activated before the first fetch; a file that
\* cannot be trusted or read, or safeguards that cannot be, pause everything.
InForce(e) == current' = e /\ best' = e
Start ==
  /\ pc = "down"
  /\ \/ file = None /\ pc' = "ready" /\ current' = None /\ UNCHANGED best
     \/ file # None /\ Trusted(file) /\ pc' = "ready" /\ InForce(file)
  /\ home' = "spawn" /\ etag' = None /\ raw' = None /\ tag' = None
  /\ persistenceFailed' = FALSE
  /\ UNCHANGED <<served, file, build, inherited, bounds>>
StartFails ==
  /\ pc = "down"
  /\ failures < MaxFailures
  /\ failures' = failures + 1
  /\ pc' = "paused"
  /\ UNCHANGED <<served, file, build, home, current, etag, raw, tag, persistenceFailed, ghosts,
                 serves, crashes>>
\* After the first fetch the thread is started, or it cannot be.
Spawn ==
  /\ pc = "spawn"
  /\ \/ pc' = "ready" /\ UNCHANGED failures
     \/ failures < MaxFailures /\ failures' = failures + 1 /\ pc' = "paused"
  /\ home' = "ready"
  /\ UNCHANGED <<served, file, build, current, etag, raw, tag, persistenceFailed, ghosts,
                 serves, crashes>>

\* fetch: no answer, nothing new, or a policy whose body is still to be read.  An
\* address that ignored the tag would only send the policy in force again.
Bug_TagFirst == etag' = served
TagLater == UNCHANGED etag
Answer == served
Fetch ==
  /\ pc = "ready"
  /\ \/ failures < MaxFailures /\ failures' = failures + 1
        /\ pc' = home /\ UNCHANGED <<etag, raw, tag>>
     \/ etag = served /\ pc' = home /\ UNCHANGED <<etag, raw, tag, failures>>
     \/ /\ etag # served
        /\ raw' = Answer /\ tag' \in {served, None}
        /\ TagLater
        /\ pc' = "body" /\ UNCHANGED failures
  /\ UNCHANGED <<served, file, build, home, current, persistenceFailed, ghosts, serves, crashes>>
\* The body, and accept's checks: a policy that is not signed by this build's key,
\* is older, or changes a revision already accepted is refused; one already in
\* force only renews the tag.
Refused ==
  /\ pc = "body"
  /\ \/ ~Fresh(raw) /\ UNCHANGED failures
     \/ Fresh(raw) /\ ~Newer(raw) /\ ~Same(raw) /\ UNCHANGED failures
     \/ failures < MaxFailures /\ failures' = failures + 1
  /\ pc' = home
  /\ UNCHANGED <<served, file, build, home, current, etag, raw, tag, persistenceFailed, ghosts,
                 serves, crashes>>
Known ==
  /\ pc = "body" /\ Fresh(raw) /\ Same(raw)
  /\ etag' = tag
  /\ pc' = home
  /\ UNCHANGED <<served, file, build, home, current, raw, tag, persistenceFailed, ghosts, bounds>>
\* atomic_write: the file is the old one or the new one, whether or not the write
\* is reported as done.
Bug_NotWritten == file
Written == raw
Persist ==
  /\ pc = "body" /\ Fresh(raw) /\ Newer(raw)
  /\ file' = Written
  /\ pc' = "written"
  /\ UNCHANGED <<served, build, home, current, etag, raw, tag, persistenceFailed, ghosts, bounds>>
PersistFails ==
  /\ pc = "body" /\ Fresh(raw) /\ Newer(raw)
  /\ failures < MaxFailures /\ failures' = failures + 1
  /\ file' \in {file, raw}
  /\ persistenceFailed' = TRUE
  /\ pc' = home
  /\ UNCHANGED <<served, build, home, current, etag, raw, tag, ghosts, serves, crashes>>
\* The policy is activated, becomes current, and its tag is kept.
Activate ==
  /\ pc = "written"
  /\ InForce(raw)
  /\ etag' = tag
  /\ pc' = home
  /\ UNCHANGED <<served, file, build, home, raw, tag, persistenceFailed, inherited, bounds>>

---------------------------------------------------------------------------
\* The address may serve any envelope: an old one, a changed one, one signed
\* by another key.
Serve ==
  /\ serves < MaxServes
  /\ serves' = serves + 1
  /\ served' \in Envelopes
  /\ UNCHANGED <<file, build, process, ghosts, failures, crashes>>
\* The process ends, and a newer build may be installed before it starts again.
Crash ==
  /\ pc # "down" /\ crashes < MaxCrashes
  /\ crashes' = crashes + 1
  /\ pc' = "down" /\ home' = "spawn"
  /\ current' = None /\ etag' = None /\ raw' = None /\ tag' = None /\ persistenceFailed' = FALSE
  /\ UNCHANGED <<served, file, build, ghosts, serves, failures>>
Update ==
  /\ pc = "down" /\ build < MaxKey
  /\ build' = build + 1
  /\ inherited' = file
  /\ UNCHANGED <<served, file, process, best, bounds>>

PolicyThread == Start \/ Spawn \/ Fetch \/ Refused \/ Known \/ Persist \/ PersistFails \/ Activate
Next == PolicyThread \/ StartFails \/ Serve \/ Crash \/ Update
Spec == Init /\ [][Next]_vars

\* The thread runs, every fetch times out after five seconds, and what the network
\* and the disk refuse is bounded by MaxFailures.
LiveSpec == Spec /\ WF_vars(PolicyThread)

---------------------------------------------------------------------------
TypeOK ==
  /\ served \in Envelopes /\ file \in Envelopes \cup {None} /\ build \in Builds
  /\ pc \in {"down", "paused", "spawn", "ready", "body", "written"}
  /\ home \in {"spawn", "ready"}
  /\ current \in Envelopes \cup {None} /\ etag \in Envelopes \cup {None}
  /\ raw \in Envelopes \cup {None} /\ tag \in Envelopes \cup {None}
  /\ pc \in {"body", "written"} => raw # None
  /\ persistenceFailed \in BOOLEAN
  /\ best \in Envelopes \cup {None} /\ inherited \in Envelopes \cup {None}

Running == pc \notin {"down", "paused"}
\* The policy in force never falls back to an earlier one, or to another form of the
\* same revision, across failed writes, crashes, updates and replays by the server:
\* "persisted before activation".
NeverRollsBack == [][best' # best => Revision(best') > Revision(best)]_vars
NewestInForce  == Running => current = best
\* A retired key is trusted only for the policy that was cached when the build that
\* retired it was installed: it brings in nothing new.
RetiredKeyStops ==
  Running /\ current # None => current.key = build \/ current = inherited
\* The tag sent with a fetch names the policy in force, so that "not modified" never
\* hides a policy that was not accepted.
TagIsCurrent == etag # None => Same(etag)
\* A policy that goes on being served, signed by this build's key, comes into
\* force, or one as new is, unless access is paused.
CatchesUp ==
  <>[](\/ ~Running \/ persistenceFailed \/ ~Fresh(served)
       \/ Revision(current) >= served.revision)
=============================================================================
