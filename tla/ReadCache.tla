----------------------------- MODULE ReadCache -----------------------------
(***************************************************************************)
(* wfm-client's shared reads (read_json_observed) beside mutations (send):  *)
(* one load per key serves every caller that asks while it runs and for a   *)
(* while after; every mutation empties the cache before it is sent and      *)
(* again when it ends, so that a read begun after it never shows the        *)
(* account as it was before.  Versions of the account are numbers.          *)
(***************************************************************************)
EXTENDS Naturals, FiniteSets

CONSTANTS
  Readers, Mutators, \* threads
  Keys,              \* ReadKey
  None,              \* no entry, no payload
  Failure,           \* an AccessError
  MaxEntries,        \* room in the cache (256)
  MaxLoads,          \* bound: entries made
  MaxReads,          \* bound: reads begun
  MaxChanges,        \* bound: versions of the account
  MaxMutations,      \* bound: mutations begun
  MaxClears          \* bound: sign-ins and logouts that empty the cache

Entries  == 1 .. MaxLoads
Versions == 0 .. MaxChanges

ASSUME CacheConstants ==
  /\ MaxEntries \in Nat \ {0} /\ MaxLoads \in Nat /\ MaxReads \in Nat
  /\ MaxChanges \in Nat /\ MaxMutations \in Nat /\ MaxClears \in Nat
  /\ None \notin Nat /\ Failure \notin Nat /\ None # Failure
  /\ Readers \cap Mutators = {} /\ Keys # {}

VARIABLES
  truth,             \* the account's version at the market
  settled,           \* newest version made by a mutation that has returned
  cache,             \* the map: entry of each key
  payload,           \* Cached.payload of each entry
  completed,         \* Cached.completed of each entry is set
  detached,          \* entries an invalidation took out of the map
  pc, key, fresh,    \* where a reader is, and what it reads
  entry, got,        \* its entry, and what its own load returned
  since,             \* settled when it began
  result,            \* what it returned last
  woken,             \* notified since it looked at the wake revision
  mpc, made,         \* where a mutator is, and the version it made
  loads, reads, mutations, clears

readerVars == <<pc, key, fresh, entry, got, since, result, woken>>
mutatorVars == <<mpc, made>>
counts == <<loads, reads, mutations, clears>>
vars == <<truth, settled, cache, payload, completed, detached, readerVars, mutatorVars, counts>>

Goto(t, p) == pc' = [pc EXCEPT ![t] = p]
Empty == [k \in Keys |-> None]
Held(c) == {c[k] : k \in Keys} \ {None}
\* invalidate_reads.
Invalidate == cache' = Empty /\ detached' = detached \cup Held(cache)
Return(t, r) == Goto(t, "idle") /\ result' = [result EXCEPT ![t] = r]

Init ==
  /\ truth = 0 /\ settled = 0
  /\ cache = Empty
  /\ payload = [e \in Entries |-> None]
  /\ completed = [e \in Entries |-> FALSE]
  /\ detached = {}
  /\ pc = [t \in Readers |-> "idle"]
  /\ key \in [Readers -> {CHOOSE k \in Keys : TRUE}]
  /\ fresh = [t \in Readers |-> FALSE]
  /\ entry = [t \in Readers |-> None] /\ got = [t \in Readers |-> None]
  /\ since = [t \in Readers |-> 0] /\ result = [t \in Readers |-> None]
  /\ woken = [t \in Readers |-> FALSE]
  /\ mpc = [m \in Mutators |-> "idle"] /\ made = [m \in Mutators |-> 0]
  /\ loads = 0 /\ reads = 0 /\ mutations = 0 /\ clears = 0

---------------------------------------------------------------------------
\* A read begins; a fresh one goes to the market past the cache.
StartRead(t) ==
  /\ pc[t] = "idle" /\ reads < MaxReads
  /\ reads' = reads + 1
  /\ \E k \in Keys, f \in BOOLEAN :
       /\ key' = [key EXCEPT ![t] = k] /\ fresh' = [fresh EXCEPT ![t] = f]
       /\ Goto(t, IF f THEN "load" ELSE "lookup")
  /\ since' = [since EXCEPT ![t] = settled]
  /\ entry' = [entry EXCEPT ![t] = None] /\ got' = [got EXCEPT ![t] = None]
  /\ result' = [result EXCEPT ![t] = None]
  /\ UNCHANGED <<truth, settled, cache, payload, completed, detached, woken, mutatorVars,
                 loads, mutations, clears>>

\* The lookup: an entry whose time is over goes, the one left is shared, and
\* without one this thread becomes the owner of a new entry if there is room.
Expired(k) == cache[k] # None /\ completed[cache[k]]
Unfinished(c) == [k \in Keys |-> IF c[k] # None /\ completed[c[k]] THEN None ELSE c[k]]
Roomy(c) == Cardinality(Held(c)) < MaxEntries
Join(t, c) ==
  /\ entry' = [entry EXCEPT ![t] = c[key[t]]]
  /\ cache' = c
  /\ Goto(t, "observe")
  /\ UNCHANGED <<result, loads>>
Own(t, c) ==
  /\ loads < MaxLoads
  /\ loads' = loads + 1
  /\ entry' = [entry EXCEPT ![t] = loads + 1]
  /\ cache' = [c EXCEPT ![key[t]] = loads + 1]
  /\ Goto(t, "load")
  /\ UNCHANGED result
Lookup(t) ==
  /\ pc[t] = "lookup"
  /\ \E c \in {cache} \cup (IF Expired(key[t]) THEN {[cache EXCEPT ![key[t]] = None]} ELSE {}) :
       \/ c[key[t]] # None /\ Join(t, c)
       \/ c[key[t]] = None /\ Roomy(c) /\ Own(t, c)
       \/ c[key[t]] = None /\ ~Roomy(c) /\ Roomy(Unfinished(c)) /\ Own(t, Unfinished(c))
       \/ /\ c[key[t]] = None /\ ~Roomy(c) /\ ~Roomy(Unfinished(c))
          /\ cache' = Unfinished(c) /\ Return(t, Failure)
          /\ UNCHANGED <<entry, loads>>
  /\ UNCHANGED <<truth, settled, payload, completed, detached, key, fresh, got, since, woken,
                 mutatorVars, reads, mutations, clears>>

\* The market answers with what it holds now, or the call fails.
Load(t) ==
  /\ pc[t] = "load"
  /\ \E v \in {truth, Failure} :
       IF fresh[t]
       THEN Return(t, v) /\ UNCHANGED got
       ELSE got' = [got EXCEPT ![t] = v] /\ Goto(t, "publish") /\ UNCHANGED result
  /\ UNCHANGED <<truth, settled, cache, payload, completed, detached, key, fresh, entry, since,
                 woken, mutatorVars, counts>>
\* The owner stores the payload, marks the entry complete and wakes everyone; a
\* failed entry is taken out of the map if it is still the one there.
Publish(t) ==
  /\ pc[t] = "publish"
  /\ payload' = [payload EXCEPT ![entry[t]] = got[t]]
  /\ Goto(t, "complete")
  /\ UNCHANGED <<truth, settled, cache, completed, detached, key, fresh, entry, got, since, result,
                 woken, mutatorVars, counts>>
Everyone == [u \in Readers |-> TRUE]
AfterComplete(t) == IF got[t] = Failure THEN "cleanup" ELSE "idle"
Complete(t) ==
  /\ pc[t] = "complete"
  /\ completed' = [completed EXCEPT ![entry[t]] = TRUE]
  /\ woken' = Everyone
  /\ Goto(t, AfterComplete(t))
  /\ result' = [result EXCEPT ![t] = got[t]]
  /\ UNCHANGED <<truth, settled, cache, payload, detached, key, fresh, entry, got, since,
                 mutatorVars, counts>>
StillMine(t) == cache[key[t]] = entry[t]
Cleanup(t) ==
  /\ pc[t] = "cleanup"
  /\ cache' = IF StillMine(t) THEN [cache EXCEPT ![key[t]] = None] ELSE cache
  /\ Goto(t, "idle")
  /\ UNCHANGED <<truth, settled, payload, completed, detached, key, fresh, entry, got, since, result,
                 woken, mutatorVars, counts>>

\* The others wait for the payload, or give up when their own call is refused.
Observe(t) ==
  /\ pc[t] = "observe"
  /\ woken' = [woken EXCEPT ![t] = FALSE]
  /\ Goto(t, "look")
  /\ UNCHANGED <<truth, settled, cache, payload, completed, detached, key, fresh, entry, got, since,
                 result, mutatorVars, counts>>
Look(t) ==
  /\ pc[t] = "look"
  /\ IF payload[entry[t]] # None
     THEN Return(t, payload[entry[t]])
     ELSE \/ Return(t, Failure)
          \/ Goto(t, "wait") /\ UNCHANGED result
  /\ UNCHANGED <<truth, settled, cache, payload, completed, detached, key, fresh, entry, got, since,
                 woken, mutatorVars, counts>>
WakeUp(t) ==
  /\ pc[t] = "wait" /\ woken[t]
  /\ Goto(t, "observe")
  /\ UNCHANGED <<truth, settled, cache, payload, completed, detached, key, fresh, entry, got, since,
                 result, woken, mutatorVars, counts>>

---------------------------------------------------------------------------
\* send with Kind::Mutation: the cache is emptied, the request is sent ...
StartMutation(m) ==
  /\ mpc[m] = "idle" /\ mutations < MaxMutations
  /\ mutations' = mutations + 1
  /\ Invalidate
  /\ mpc' = [mpc EXCEPT ![m] = "sent"]
  /\ UNCHANGED <<truth, settled, payload, completed, readerVars, made, loads, reads, clears>>
\* ... the market carries it out ...
Applied(m) ==
  /\ mpc[m] = "sent" /\ truth < MaxChanges
  /\ truth' = truth + 1
  /\ made' = [made EXCEPT ![m] = truth + 1]
  /\ mpc' = [mpc EXCEPT ![m] = "applied"]
  /\ UNCHANGED <<settled, cache, payload, completed, detached, readerVars, counts>>
\* ... and the cache is emptied again before send returns, however it ended.
Bug_OnlyBefore == UNCHANGED <<cache, detached>>
InvalidateAfter == Invalidate
EndMutation(m) ==
  /\ mpc[m] \in {"sent", "applied"}
  /\ settled' = IF mpc[m] = "applied" /\ made[m] > settled THEN made[m] ELSE settled
  /\ InvalidateAfter
  /\ mpc' = [mpc EXCEPT ![m] = "idle"]
  /\ UNCHANGED <<truth, payload, completed, readerVars, made, counts>>
\* The account changes elsewhere, or a late request lands.
AccountChanges ==
  /\ truth < MaxChanges
  /\ truth' = truth + 1
  /\ UNCHANGED <<settled, cache, payload, completed, detached, readerVars, mutatorVars, counts>>
\* Sign-in, unlock and logout empty the cache.
SessionChanges ==
  /\ clears < MaxClears
  /\ clears' = clears + 1
  /\ Invalidate
  /\ UNCHANGED <<truth, settled, payload, completed, readerVars, mutatorVars, loads, reads, mutations>>

ReadStep(t) ==
  Lookup(t) \/ Load(t) \/ Publish(t) \/ Complete(t) \/ Cleanup(t) \/ Observe(t) \/ Look(t) \/ WakeUp(t)
Next ==
  \/ \E t \in Readers : StartRead(t) \/ ReadStep(t)
  \/ \E m \in Mutators : StartMutation(m) \/ Applied(m) \/ EndMutation(m)
  \/ AccountChanges \/ SessionChanges
Spec == Init /\ [][Next]_vars

\* The client's timeouts end every load, and threads run.
LiveSpec == Spec /\ \A t \in Readers : WF_vars(ReadStep(t))

---------------------------------------------------------------------------
TypeOK ==
  /\ truth \in Versions /\ settled \in Versions
  /\ cache \in [Keys -> Entries \cup {None}] /\ Cardinality(Held(cache)) <= MaxEntries
  /\ payload \in [Entries -> Versions \cup {None, Failure}]
  /\ completed \in [Entries -> BOOLEAN] /\ detached \subseteq Entries
  /\ pc \in [Readers -> {"idle", "lookup", "load", "publish", "complete", "cleanup",
                         "observe", "look", "wait"}]
  /\ key \in [Readers -> Keys] /\ fresh \in [Readers -> BOOLEAN]
  /\ entry \in [Readers -> Entries \cup {None}]
  /\ got \in [Readers -> Versions \cup {None, Failure}]
  /\ since \in [Readers -> Versions] /\ result \in [Readers -> Versions \cup {None, Failure}]
  /\ woken \in [Readers -> BOOLEAN]
  /\ mpc \in [Mutators -> {"idle", "sent", "applied"}] /\ made \in [Mutators -> Versions]
  /\ loads \in 0 .. MaxLoads

\* A read begun after a mutation returned shows that mutation, whatever loads
\* were under way while it was sent.
FreshAfterMutation ==
  \A t \in Readers : result[t] \in Versions => result[t] >= since[t]

\* A load under way stays the one its key is served from until an invalidation:
\* the failure of an older load does not evict it, and no second load starts.
InFlightShared ==
  \A t \in Readers :
    pc[t] \in {"load", "publish", "complete"} /\ ~fresh[t] /\ entry[t] \notin detached
      => cache[key[t]] = entry[t]

\* Every read returns: a waiter always learns of the payload it waits for.
ReadsReturn == \A t \in Readers : []<>(pc[t] = "idle")
=============================================================================
