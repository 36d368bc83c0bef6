------------------------------ MODULE Artifacts ------------------------------
(***************************************************************************)
(* The snapshot the program fetches from its own site, market.json (the    *)
(* history and the announcements follow the same routine), and keeps as a  *)
(* body and an entity tag, two files.  A version is what the site served   *)
(* at one time; its tag is its number.                                     *)
(***************************************************************************)
EXTENDS Naturals

CONSTANTS Refreshers,   \* tasks that ask for a refresh of the market
          Readers,      \* native readers of the parsed market
          Nobody,
          MaxVersions,  \* bound: versions the site makes
          MaxWrites,    \* bound: times the body is written
          MaxFaults     \* bound: refused writes, restarts

Files    == 0 .. MaxVersions      \* 0: there is none

VARIABLES
  made,       \* versions made so far
  ahead,      \* those stamped more than an hour in the future
  served,     \* the version the site serves, 0 before the first
  signed,     \* the version its signature file vouches for
  body, tag,  \* market.json and market.etag
  file,       \* length and time of market.json, as a number; 0: there is none
  lock,       \* REFRESH_LOCK
  pc, got,    \* each refresher, and the version in its hands
  parsed,     \* MarketCache.parsed: the stamp and what was parsed
  stamp,      \* a reader's stamp of the file, Nobody outside of a call
  faults

site   == <<made, ahead, served, signed>>
market == <<body, tag, file, lock, pc, got>>
memory == <<parsed, stamp>>
vars   == <<site, market, memory, faults>>

Init ==
  /\ made = 0 /\ ahead = {} /\ served = 0 /\ signed = 0
  /\ body = 0 /\ tag = 0 /\ file = 0 /\ lock = Nobody
  /\ pc = [t \in Refreshers |-> "idle"] /\ got = [t \in Refreshers |-> 0]
  /\ parsed = [at |-> Nobody, market |-> 0] /\ stamp = [r \in Readers |-> Nobody]
  /\ faults = 0

Fault == faults < MaxFaults /\ faults' = faults + 1

----------------------------------------------------------------------------
\* The site replaces a file, then its signature, and may go back to an old one.
Publish ==
  /\ \/ /\ made < MaxVersions /\ made' = made + 1 /\ served' = made + 1
        /\ ahead' \in {ahead, ahead \cup {made + 1}} /\ UNCHANGED signed
     \/ /\ served' \in 1 .. made /\ served' # served /\ UNCHANGED <<made, ahead, signed>>
     \/ /\ signed # served /\ signed' = served /\ UNCHANGED <<made, ahead, served>>
  /\ UNCHANGED <<market, memory, faults>>

Goto(t, p) == pc' = [pc EXCEPT ![t] = p]
\* Bug_NoLock lets two refreshes overlap.
Bug_NoLock(t) == lock' = lock
TakesLock(t)  == lock = Nobody /\ lock' = t
Released(t)   == lock' = IF lock = t THEN Nobody ELSE lock
Return(t) == Goto(t, "idle") /\ got' = [got EXCEPT ![t] = 0] /\ Released(t)

Begin(t) ==
  /\ pc[t] = "idle" /\ file < MaxWrites /\ TakesLock(t) /\ Goto(t, "fetch")
  /\ UNCHANGED <<site, body, tag, file, got, memory, faults>>

\* Offline, an error status and a body too large keep the cache, as 304 does.
Fetch(t) ==
  /\ pc[t] = "fetch"
  /\ \/ Return(t)
     \/ /\ served # 0 /\ served # tag
        /\ Goto(t, "verify") /\ got' = [got EXCEPT ![t] = served] /\ UNCHANGED lock
  /\ UNCHANGED <<site, body, tag, file, memory, faults>>

\* stamp_replaces: a file that reads as absent, or stamped too far ahead of the
\* clock, is no evidence; otherwise the older snapshot is refused.
Replaces(v) == body \notin {0} \cup ahead /\ v \notin ahead => v >= body
Verify(t) ==
  /\ pc[t] = "verify"
  /\ \/ signed = got[t] /\ Replaces(got[t]) /\ Goto(t, "body") /\ UNCHANGED <<got, lock>>
     \/ Return(t)
  /\ UNCHANGED <<site, body, tag, file, memory, faults>>

\* The body first, then its tag: Bug_TagFirst is the other order.
WriteBody(t) ==
  /\ pc[t] = "body"
  /\ \/ body' = got[t] /\ file' = file + 1 /\ Goto(t, "tag") /\ UNCHANGED <<got, lock, faults>>
     \/ Fault /\ Return(t) /\ UNCHANGED <<body, file>>
  /\ UNCHANGED <<site, tag, memory>>
\* The answer may come without a tag: the old one is removed.
WriteTag(t) ==
  /\ pc[t] = "tag" /\ Return(t)
  /\ \/ tag' \in {got[t], 0} /\ UNCHANGED faults
     \/ Fault /\ UNCHANGED tag
  /\ UNCHANGED <<site, body, file, memory>>
Bug_TagFirst(t) ==
  \/ /\ pc[t] = "body" /\ tag' = got[t] /\ Goto(t, "tag")
     /\ UNCHANGED <<site, body, file, got, lock, memory, faults>>
  \/ /\ pc[t] = "tag" /\ Return(t)
     /\ \/ body' = got[t] /\ file' = file + 1 /\ UNCHANGED faults
        \/ Fault /\ UNCHANGED <<body, file>>
     /\ UNCHANGED <<site, tag, memory>>
Writes(t) == WriteBody(t) \/ WriteTag(t)

----------------------------------------------------------------------------
\* parsed_market: the file's stamp first, then under the lock what was parsed
\* last, or the file again.
Stat(r) ==
  /\ stamp[r] = Nobody /\ stamp' = [stamp EXCEPT ![r] = file]
  /\ UNCHANGED <<site, market, parsed, faults>>
Bug_AnyFile(r) == IF parsed.at # Nobody THEN [parsed EXCEPT !.at = stamp[r]]
                  ELSE [at |-> stamp[r], market |-> body]
Parsed(r) == IF parsed.at = stamp[r] THEN parsed
             ELSE [at |-> stamp[r], market |-> body]
Parse(r) ==
  /\ stamp[r] # Nobody /\ parsed' = Parsed(r) /\ stamp' = [stamp EXCEPT ![r] = Nobody]
  /\ UNCHANGED <<site, market, faults>>

----------------------------------------------------------------------------
\* The program ends, anywhere, and starts again.
Restart ==
  /\ Fault /\ lock' = Nobody
  /\ pc' = [t \in Refreshers |-> "idle"] /\ got' = [t \in Refreshers |-> 0]
  /\ parsed' = [at |-> Nobody, market |-> 0] /\ stamp' = [r \in Readers |-> Nobody]
  /\ UNCHANGED <<site, body, tag, file>>
Refresh(t) == Fetch(t) \/ Verify(t) \/ Writes(t)
Next == \/ Publish \/ Restart
        \/ \E t \in Refreshers : Begin(t) \/ Refresh(t)
        \/ \E r \in Readers : Stat(r) \/ Parse(r)
Spec == Init /\ [][Next]_vars

TypeOK ==
  /\ {made, served, signed, body, tag} \subseteq Files /\ ahead \subseteq 1 .. made
  /\ file \in 0 .. MaxWrites /\ faults \in 0 .. MaxFaults
  /\ lock \in Refreshers \cup {Nobody}
  /\ pc \in [Refreshers -> {"idle", "fetch", "verify", "body", "tag"}]
  /\ got \in [Refreshers -> Files]
  /\ parsed \in [at : {Nobody} \cup 0 .. MaxWrites, market : Files]
  /\ stamp \in [Readers -> {Nobody} \cup 0 .. MaxWrites]
  /\ \A t \in Refreshers : pc[t] \in {"verify", "body", "tag"} => got[t] # 0

(* A "not modified" never hides a newer file: a tag on disk belongs to the    *)
(* body beside it or to an older one, whatever write failed and wherever the  *)
(* program died - as long as the site stamps nothing in the future, since     *)
(* such a body gives way to any other.                                        *)
TagNamesWhatIsHeld == ahead = {} => body >= tag

(* What native readers work from is what the file holds, or held when they    *)
(* asked: a parse is never kept under the stamp of another file.              *)
ParsedIsTheFile == parsed.at = file => parsed.market = body

(* A good snapshot is never replaced by an older one, although refreshes      *)
(* overlap and the site goes back to an old version.                          *)
SnapshotsMoveForward ==
  [][body' # body /\ body \notin {0} \cup ahead
       => body' \in ahead \/ body' > body]_vars
=============================================================================
