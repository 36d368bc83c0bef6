---------------------------- MODULE ServiceProofs ----------------------------
(***************************************************************************)
(* Safety of components nothing is asked of in the end.  The response cache *)
(* is the module's own; the others come under the names of Services: the    *)
(* sign-in keys K, the surfaces F, the jobs J, the listings of what was     *)
(* sold D, the reminders R, the sweeps of the market S, the price history   *)
(* H.  Each has a section here: its inductive invariant is defined in its   *)
(* own module, and the section proves that it holds at first, that every    *)
(* step keeps it, and that the property follows, for every value of the     *)
(* constants.                                                               *)
(***************************************************************************)
EXTENDS Services, Sequences, FiniteSetTheorems, WellFoundedInduction, TLAPS

Places == {"idle", "lookup", "load", "publish", "complete", "cleanup", "observe", "look", "wait"}
Values == Nat \cup {None, Failure}
Since(v, n) == v \in Nat => v >= n

Shape ==
  /\ truth \in Nat /\ settled \in Nat /\ loads \in Nat /\ loads <= MaxLoads
  /\ cache \in [Keys -> Nat \cup {None}]
  /\ payload \in [Entries -> Values]
  /\ pc \in [Readers -> Places] /\ key \in [Readers -> Keys] /\ fresh \in [Readers -> BOOLEAN]
  /\ entry \in [Readers -> Nat \cup {None}]
  /\ got \in [Readers -> Values] /\ since \in [Readers -> Nat] /\ result \in [Readers -> Values]
  /\ mpc \in [Mutators -> {"idle", "sent", "applied"}] /\ made \in [Mutators -> Nat]

\* No reader began, and no mutation ended, after the market's own version.
Clocks ==
  /\ settled <= truth
  /\ \A t \in Readers : since[t] <= settled
  /\ \A m \in Mutators : mpc[m] = "applied" => made[m] <= truth

\* Entries are numbered as they are made; one is filled only once it is made, and
\* whoever works on one has it.
Numbered ==
  /\ \A t \in Readers : entry[t] # None => entry[t] \in 1 .. loads
  /\ \A e \in Entries : e > loads => payload[e] = None
  /\ \A k \in Keys : cache[k] # None => cache[k] \in 1 .. loads
  /\ \A t \in Readers : pc[t] \in {"publish", "complete", "cleanup", "observe", "look", "wait"} =>
       entry[t] # None
  /\ \A t \in Readers : pc[t] = "load" /\ ~fresh[t] => entry[t] # None

\* What entry e holds, or is about to hold, is no older than version n.
Current(e, n) ==
  /\ Since(payload[e], n)
  /\ \A o \in Readers : entry[o] = e /\ pc[o] = "publish" => Since(got[o], n)

\* An entry in the cache is no older than the newest mutation that has returned,
\* and a reader's entry no older than the reader.
CacheCurrent == \A k \in Keys : cache[k] # None => Current(cache[k], settled)
ReadersCurrent ==
  \A t \in Readers : pc[t] \in {"load", "publish", "complete", "observe", "look", "wait"}
                       /\ entry[t] # None => Current(entry[t], since[t])
Served ==
  \A t \in Readers :
    /\ pc[t] \in {"publish", "complete"} => Since(got[t], since[t])
    /\ Since(result[t], since[t])

UpToDate == Shape /\ Clocks /\ Numbered /\ CacheCurrent /\ ReadersCurrent /\ Served

LEMMA Distinct == None \notin Nat /\ Failure \notin Nat
BY CacheConstants

LEMMA EntryRange == ASSUME NEW n \in Nat, n <= MaxLoads PROVE 1 .. n \subseteq Entries
BY CacheConstants DEF Entries

LEMMA InitUpToDate == Init => UpToDate
<1> SUFFICES ASSUME Init PROVE UpToDate
  OBVIOUS
<1> USE Distinct DEF Init
<1>1. Shape
  BY CacheConstants DEF Shape, Values, Places, Empty
<1>2. Clocks
  BY DEF Clocks
<1>3. Numbered
  BY DEF Numbered, Empty
<1>4. CacheCurrent
  BY DEF CacheCurrent, Empty
<1>5. ReadersCurrent
  BY DEF ReadersCurrent
<1>6. Served
  BY DEF Served, Since
<1> QED
  BY <1>1, <1>2, <1>3, <1>4, <1>5, <1>6 DEF UpToDate

\* The cache a lookup leaves holds entries of the one it found.
LEMMA LookupKeeps ==
  ASSUME cache \in [Keys -> Nat \cup {None}], NEW q \in Keys,
         NEW c \in {cache} \cup (IF Expired(q) THEN {[cache EXCEPT ![q] = None]} ELSE {})
  PROVE  /\ c \in [Keys -> Nat \cup {None}]
         /\ Unfinished(c) \in [Keys -> Nat \cup {None}]
         /\ \A k \in Keys : c[k] \in {cache[k], None} /\ Unfinished(c)[k] \in {cache[k], None}
BY DEF Unfinished

LEMMA StartReadStep ==
  ASSUME UpToDate, NEW t \in Readers, StartRead(t)
  PROVE  UpToDate'
<1> USE Distinct, CacheConstants DEF UpToDate, StartRead, Goto, readerVars, mutatorVars, counts
<1>1. Shape'
  BY DEF Shape, Values, Places
<1>2. Clocks'
  BY DEF Shape, Clocks
<1>3. Numbered'
  BY DEF Shape, Numbered, Entries
<1>4. CacheCurrent'
  BY DEF Shape, Clocks, Numbered, CacheCurrent, Current, Since, Values, Entries
<1>5. ReadersCurrent'
  BY DEF Shape, Clocks, Numbered, ReadersCurrent, CacheCurrent, Current, Since, Values, Entries
<1>6. Served'
  BY DEF Shape, Clocks, Numbered, ReadersCurrent, Served, Current, Since, Values, Entries
<1> QED
  BY <1>1, <1>2, <1>3, <1>4, <1>5, <1>6

LEMMA LoadStep ==
  ASSUME UpToDate, NEW t \in Readers, Load(t)
  PROVE  UpToDate'
<1> USE Distinct, CacheConstants DEF UpToDate, Load, Return, Goto, readerVars, mutatorVars, counts
<1>1. Shape'
  BY DEF Shape, Values, Places
<1>2. Clocks'
  BY DEF Shape, Clocks
<1>3. Numbered'
  BY DEF Shape, Numbered, Entries
<1>4. CacheCurrent'
  BY DEF Shape, Clocks, Numbered, CacheCurrent, Current, Since, Values, Entries
<1>5. ReadersCurrent'
  BY DEF Shape, Clocks, Numbered, ReadersCurrent, CacheCurrent, Current, Since, Values, Entries
<1>6. Served'
  <2>1. PICK v \in {truth, Failure} :
           IF fresh[t] THEN result' = [result EXCEPT ![t] = v] /\ pc' = [pc EXCEPT ![t] = "idle"] /\ UNCHANGED got
           ELSE got' = [got EXCEPT ![t] = v] /\ UNCHANGED result /\ pc' = [pc EXCEPT ![t] = "publish"]
    OBVIOUS
  <2>2. UNCHANGED since
    OBVIOUS
  <2>3. since[t] \in Nat /\ truth \in Nat /\ truth >= since[t]
    BY DEF Shape, Clocks
  <2>4. Since(v, since[t])
    BY <2>1, <2>3 DEF Since
  <2>5. ASSUME NEW u \in Readers PROVE  /\ pc'[u] \in {"publish", "complete"} => Since(got'[u], since[u])
                                      /\ Since(result'[u], since[u])
    BY <2>1, <2>2, <2>4 DEF Shape, Served
  <2> QED
    BY <2>5 DEF Served
<1> QED
  BY <1>1, <1>2, <1>3, <1>4, <1>5, <1>6

LEMMA PublishStep ==
  ASSUME UpToDate, NEW t \in Readers, Publish(t)
  PROVE  UpToDate'
<1> USE Distinct, CacheConstants DEF UpToDate, Publish, Goto, readerVars, mutatorVars, counts
<1>1. Shape'
  BY DEF Shape, Values, Places
<1>2. Clocks'
  BY DEF Shape, Clocks
<1>3. Numbered'
  BY DEF Shape, Numbered, Entries
<1>4. CacheCurrent'
  BY DEF Shape, Clocks, Numbered, CacheCurrent, Current, Since, Values, Entries
<1>5. ReadersCurrent'
  BY DEF Shape, Clocks, Numbered, ReadersCurrent, CacheCurrent, Current, Since, Values, Entries
<1>6. Served'
  BY DEF Shape, Clocks, Numbered, ReadersCurrent, Served, Current, Since, Values, Entries
<1> QED
  BY <1>1, <1>2, <1>3, <1>4, <1>5, <1>6

LEMMA CompleteStep ==
  ASSUME UpToDate, NEW t \in Readers, Complete(t)
  PROVE  UpToDate'
<1> USE Distinct, CacheConstants DEF UpToDate, Complete, Goto, AfterComplete, readerVars, mutatorVars, counts
<1>1. Shape'
  BY DEF Shape, Values, Places
<1>2. Clocks'
  BY DEF Shape, Clocks
<1>3. Numbered'
  BY DEF Shape, Numbered, Entries
<1>4. CacheCurrent'
  BY DEF Shape, Clocks, Numbered, CacheCurrent, Current, Since, Values, Entries
<1>5. ReadersCurrent'
  BY DEF Shape, Clocks, Numbered, ReadersCurrent, CacheCurrent, Current, Since, Values, Entries
<1>6. Served'
  BY DEF Shape, Clocks, Numbered, ReadersCurrent, Served, Current, Since, Values, Entries
<1> QED
  BY <1>1, <1>2, <1>3, <1>4, <1>5, <1>6

LEMMA CleanupStep ==
  ASSUME UpToDate, NEW t \in Readers, Cleanup(t)
  PROVE  UpToDate'
<1> USE Distinct, CacheConstants DEF UpToDate, Cleanup, Goto, StillMine, readerVars, mutatorVars, counts
<1>1. Shape'
  BY DEF Shape, Values, Places
<1>2. Clocks'
  BY DEF Shape, Clocks
<1>3. Numbered'
  BY DEF Shape, Numbered, Entries
<1>4. CacheCurrent'
  BY DEF Shape, Clocks, Numbered, CacheCurrent, Current, Since, Values, Entries
<1>5. ReadersCurrent'
  BY DEF Shape, Clocks, Numbered, ReadersCurrent, CacheCurrent, Current, Since, Values, Entries
<1>6. Served'
  BY DEF Shape, Clocks, Numbered, ReadersCurrent, Served, Current, Since, Values, Entries
<1> QED
  BY <1>1, <1>2, <1>3, <1>4, <1>5, <1>6

LEMMA ObserveStep ==
  ASSUME UpToDate, NEW t \in Readers, Observe(t)
  PROVE  UpToDate'
<1> USE Distinct, CacheConstants DEF UpToDate, Observe, Goto, readerVars, mutatorVars, counts
<1>1. Shape'
  BY DEF Shape, Values, Places
<1>2. Clocks'
  BY DEF Shape, Clocks
<1>3. Numbered'
  BY DEF Shape, Numbered, Entries
<1>4. CacheCurrent'
  BY DEF Shape, Clocks, Numbered, CacheCurrent, Current, Since, Values, Entries
<1>5. ReadersCurrent'
  BY DEF Shape, Clocks, Numbered, ReadersCurrent, CacheCurrent, Current, Since, Values, Entries
<1>6. Served'
  BY DEF Shape, Clocks, Numbered, ReadersCurrent, Served, Current, Since, Values, Entries
<1> QED
  BY <1>1, <1>2, <1>3, <1>4, <1>5, <1>6

LEMMA LookStep ==
  ASSUME UpToDate, NEW t \in Readers, Look(t)
  PROVE  UpToDate'
<1> USE Distinct, CacheConstants DEF UpToDate, Look, Return, Goto, readerVars, mutatorVars, counts
<1>1. Shape'
  <2>1. entry[t] \in Entries
    BY EntryRange DEF Shape, Numbered
  <2>2. payload[entry[t]] \in Values
    BY <2>1 DEF Shape
  <2>3. pc' \in [Readers -> Places] /\ result' \in [Readers -> Values]
    BY <2>2 DEF Shape, Places, Values
  <2> QED
    BY <2>3 DEF Shape
<1>2. Clocks'
  BY DEF Shape, Clocks
<1>3. Numbered'
  BY DEF Shape, Numbered, Entries
<1>4. CacheCurrent'
  BY DEF Shape, Clocks, Numbered, CacheCurrent, Current, Since, Values, Entries
<1>5. ReadersCurrent'
  BY DEF Shape, Clocks, Numbered, ReadersCurrent, CacheCurrent, Current, Since, Values, Entries
<1>6. Served'
  BY DEF Shape, Clocks, Numbered, ReadersCurrent, Served, Current, Since, Values, Entries
<1> QED
  BY <1>1, <1>2, <1>3, <1>4, <1>5, <1>6

LEMMA WakeUpStep ==
  ASSUME UpToDate, NEW t \in Readers, WakeUp(t)
  PROVE  UpToDate'
<1> USE Distinct, CacheConstants DEF UpToDate, WakeUp, Goto, readerVars, mutatorVars, counts
<1>1. Shape'
  BY DEF Shape, Values, Places
<1>2. Clocks'
  BY DEF Shape, Clocks
<1>3. Numbered'
  BY DEF Shape, Numbered, Entries
<1>4. CacheCurrent'
  BY DEF Shape, Clocks, Numbered, CacheCurrent, Current, Since, Values, Entries
<1>5. ReadersCurrent'
  BY DEF Shape, Clocks, Numbered, ReadersCurrent, CacheCurrent, Current, Since, Values, Entries
<1>6. Served'
  BY DEF Shape, Clocks, Numbered, ReadersCurrent, Served, Current, Since, Values, Entries
<1> QED
  BY <1>1, <1>2, <1>3, <1>4, <1>5, <1>6

LEMMA StartMutationStep ==
  ASSUME UpToDate, NEW m \in Mutators, StartMutation(m)
  PROVE  UpToDate'
<1> USE Distinct, CacheConstants DEF UpToDate, StartMutation, Invalidate, Empty, readerVars, mutatorVars, counts
<1>1. Shape'
  BY DEF Shape, Values, Places
<1>2. Clocks'
  BY DEF Shape, Clocks
<1>3. Numbered'
  BY DEF Shape, Numbered, Entries
<1>4. CacheCurrent'
  BY DEF Shape, Clocks, Numbered, CacheCurrent, Current, Since, Values, Entries
<1>5. ReadersCurrent'
  BY DEF Shape, Clocks, Numbered, ReadersCurrent, CacheCurrent, Current, Since, Values, Entries
<1>6. Served'
  BY DEF Shape, Clocks, Numbered, ReadersCurrent, Served, Current, Since, Values, Entries
<1> QED
  BY <1>1, <1>2, <1>3, <1>4, <1>5, <1>6

LEMMA AppliedStep ==
  ASSUME UpToDate, NEW m \in Mutators, Applied(m)
  PROVE  UpToDate'
<1> USE Distinct, CacheConstants DEF UpToDate, Applied, readerVars, mutatorVars, counts
<1>1. Shape'
  BY DEF Shape, Values, Places
<1>2. Clocks'
  BY DEF Shape, Clocks
<1>3. Numbered'
  BY DEF Shape, Numbered, Entries
<1>4. CacheCurrent'
  BY DEF Shape, Clocks, Numbered, CacheCurrent, Current, Since, Values, Entries
<1>5. ReadersCurrent'
  BY DEF Shape, Clocks, Numbered, ReadersCurrent, CacheCurrent, Current, Since, Values, Entries
<1>6. Served'
  BY DEF Shape, Clocks, Numbered, ReadersCurrent, Served, Current, Since, Values, Entries
<1> QED
  BY <1>1, <1>2, <1>3, <1>4, <1>5, <1>6

LEMMA EndMutationStep ==
  ASSUME UpToDate, NEW m \in Mutators, EndMutation(m)
  PROVE  UpToDate'
<1> USE Distinct, CacheConstants DEF UpToDate, EndMutation, InvalidateAfter, Invalidate, Empty, readerVars, mutatorVars, counts
<1>1. Shape'
  BY DEF Shape, Values, Places
<1>2. Clocks'
  BY DEF Shape, Clocks
<1>3. Numbered'
  BY DEF Shape, Numbered, Entries
<1>4. CacheCurrent'
  BY DEF Shape, Clocks, Numbered, CacheCurrent, Current, Since, Values, Entries
<1>5. ReadersCurrent'
  BY DEF Shape, Clocks, Numbered, ReadersCurrent, CacheCurrent, Current, Since, Values, Entries
<1>6. Served'
  BY DEF Shape, Clocks, Numbered, ReadersCurrent, Served, Current, Since, Values, Entries
<1> QED
  BY <1>1, <1>2, <1>3, <1>4, <1>5, <1>6

LEMMA AccountChangesStep ==
  ASSUME UpToDate, AccountChanges
  PROVE  UpToDate'
<1> USE Distinct, CacheConstants DEF UpToDate, AccountChanges, readerVars, mutatorVars, counts
<1>1. Shape'
  BY DEF Shape, Values, Places
<1>2. Clocks'
  BY DEF Shape, Clocks
<1>3. Numbered'
  BY DEF Shape, Numbered, Entries
<1>4. CacheCurrent'
  BY DEF Shape, Clocks, Numbered, CacheCurrent, Current, Since, Values, Entries
<1>5. ReadersCurrent'
  BY DEF Shape, Clocks, Numbered, ReadersCurrent, CacheCurrent, Current, Since, Values, Entries
<1>6. Served'
  BY DEF Shape, Clocks, Numbered, ReadersCurrent, Served, Current, Since, Values, Entries
<1> QED
  BY <1>1, <1>2, <1>3, <1>4, <1>5, <1>6

LEMMA SessionChangesStep ==
  ASSUME UpToDate, SessionChanges
  PROVE  UpToDate'
<1> USE Distinct, CacheConstants DEF UpToDate, SessionChanges, Invalidate, Empty, readerVars, mutatorVars, counts
<1>1. Shape'
  BY DEF Shape, Values, Places
<1>2. Clocks'
  BY DEF Shape, Clocks
<1>3. Numbered'
  BY DEF Shape, Numbered, Entries
<1>4. CacheCurrent'
  BY DEF Shape, Clocks, Numbered, CacheCurrent, Current, Since, Values, Entries
<1>5. ReadersCurrent'
  BY DEF Shape, Clocks, Numbered, ReadersCurrent, CacheCurrent, Current, Since, Values, Entries
<1>6. Served'
  BY DEF Shape, Clocks, Numbered, ReadersCurrent, Served, Current, Since, Values, Entries
<1> QED
  BY <1>1, <1>2, <1>3, <1>4, <1>5, <1>6

LEMMA LookupStep ==
  ASSUME UpToDate, NEW t \in Readers, Lookup(t)
  PROVE  UpToDate'
<1> USE Distinct, CacheConstants DEF UpToDate, readerVars, mutatorVars, counts
<1>1. PICK c \in {cache} \cup (IF Expired(key[t]) THEN {[cache EXCEPT ![key[t]] = None]} ELSE {}) :
       \/ c[key[t]] # None /\ Join(t, c)
       \/ \E d \in {c, Unfinished(c)} : c[key[t]] = None /\ Own(t, d)
       \/ cache' = Unfinished(c) /\ Return(t, Failure) /\ UNCHANGED <<entry, loads>>
  BY DEF Lookup
<1>2. UNCHANGED <<truth, settled, payload, key, fresh, got, since, mpc, made>> /\ pc[t] = "lookup"
  BY DEF Lookup
<1>3. /\ key[t] \in Keys /\ c \in [Keys -> Nat \cup {None}] /\ Unfinished(c) \in [Keys -> Nat \cup {None}]
      /\ \A k \in Keys : c[k] \in {cache[k], None} /\ Unfinished(c)[k] \in {cache[k], None}
  BY LookupKeeps DEF Shape
<1>4. CASE c[key[t]] # None /\ Join(t, c)
  <2>1. /\ pc' = [pc EXCEPT ![t] = "observe"] /\ entry' = [entry EXCEPT ![t] = cache[key[t]]]
        /\ cache' = c /\ cache[key[t]] # None /\ UNCHANGED <<result, loads>>
    BY <1>3, <1>4 DEF Join, Goto
  <2> USE <1>2, <1>3, <2>1
  <2>3. Shape'
    BY DEF Shape, Values, Places
  <2>4. Clocks'
    BY DEF Shape, Clocks
  <2>5. Numbered'
    BY DEF Shape, Numbered, Entries
  <2>6. CacheCurrent'
    BY DEF Shape, Clocks, Numbered, CacheCurrent, Current, Since, Values, Entries
  <2>7. ReadersCurrent'
    BY DEF Shape, Clocks, Numbered, ReadersCurrent, CacheCurrent, Current, Since, Values, Entries
  <2>8. Served'
    BY DEF Shape, Clocks, Numbered, ReadersCurrent, Served, Current, Since, Values, Entries
  <2> QED
    BY <2>3, <2>4, <2>5, <2>6, <2>7, <2>8
<1>5. CASE \E d \in {c, Unfinished(c)} : c[key[t]] = None /\ Own(t, d)
  <2>0. PICK d \in {c, Unfinished(c)} : Own(t, d)
    BY <1>5
  <2>1. /\ pc' = [pc EXCEPT ![t] = "load"] /\ entry' = [entry EXCEPT ![t] = loads + 1]
        /\ cache' = [d EXCEPT ![key[t]] = loads + 1] /\ loads' = loads + 1 /\ loads < MaxLoads
        /\ UNCHANGED result
    BY <2>0 DEF Own, Goto
  <2>2. d \in [Keys -> Nat \cup {None}] /\ \A k \in Keys : d[k] \in {cache[k], None}
    BY <1>3
  <2> USE <1>2, <2>1, <2>2
  <2>3. Shape'
    BY DEF Shape, Values, Places
  <2>4. Clocks'
    BY DEF Shape, Clocks
  <2>5. Numbered'
    BY DEF Shape, Numbered, Entries
  <2>6. CacheCurrent'
    BY DEF Shape, Clocks, Numbered, CacheCurrent, Current, Since, Values, Entries
  <2>7. ReadersCurrent'
    BY DEF Shape, Clocks, Numbered, ReadersCurrent, CacheCurrent, Current, Since, Values, Entries
  <2>8. Served'
    BY DEF Shape, Clocks, Numbered, ReadersCurrent, Served, Current, Since, Values, Entries
  <2> QED
    BY <2>3, <2>4, <2>5, <2>6, <2>7, <2>8
<1>6. CASE cache' = Unfinished(c) /\ Return(t, Failure) /\ UNCHANGED <<entry, loads>>
  <2>1. /\ pc' = [pc EXCEPT ![t] = "idle"] /\ result' = [result EXCEPT ![t] = Failure]
        /\ cache' = Unfinished(c) /\ UNCHANGED <<entry, loads>>
    BY <1>6 DEF Return, Goto
  <2> USE <1>2, <1>3, <2>1
  <2>3. Shape'
    BY DEF Shape, Values, Places
  <2>4. Clocks'
    BY DEF Shape, Clocks
  <2>5. Numbered'
    BY DEF Shape, Numbered, Entries
  <2>6. CacheCurrent'
    BY DEF Shape, Clocks, Numbered, CacheCurrent, Current, Since, Values, Entries
  <2>7. ReadersCurrent'
    BY DEF Shape, Clocks, Numbered, ReadersCurrent, CacheCurrent, Current, Since, Values, Entries
  <2>8. Served'
    BY DEF Shape, Clocks, Numbered, ReadersCurrent, Served, Current, Since, Values, Entries
  <2> QED
    BY <2>3, <2>4, <2>5, <2>6, <2>7, <2>8
<1> QED
  BY <1>1, <1>4, <1>5, <1>6

LEMMA NextUpToDate == UpToDate /\ [Next]_vars => UpToDate'
<1> SUFFICES ASSUME UpToDate, [Next]_vars PROVE UpToDate'
  OBVIOUS
<1>1. CASE UNCHANGED vars
  BY <1>1 DEF vars, readerVars, mutatorVars, counts, UpToDate, Shape, Clocks, Numbered, CacheCurrent,
     ReadersCurrent, Served, Current
<1>2. ASSUME NEW t \in Readers, StartRead(t) \/ ReadStep(t) PROVE UpToDate'
  BY <1>2, StartReadStep, LookupStep, LoadStep, PublishStep, CompleteStep, CleanupStep, ObserveStep,
     LookStep, WakeUpStep DEF ReadStep
<1>3. ASSUME NEW m \in Mutators, StartMutation(m) \/ Applied(m) \/ EndMutation(m) PROVE UpToDate'
  BY <1>3, StartMutationStep, AppliedStep, EndMutationStep
<1>4. CASE AccountChanges \/ SessionChanges
  BY <1>4, AccountChangesStep, SessionChangesStep
<1> QED
  BY <1>1, <1>2, <1>3, <1>4 DEF Next

\* A read begun after a mutation returned shows that mutation, whatever loads were
\* under way while it was sent (send_on empties the cache when it ends).
THEOREM ReadsSeeMutations == Spec => []FreshAfterMutation
<1>1. UpToDate => FreshAfterMutation
  BY CacheConstants DEF UpToDate, Served, Since, FreshAfterMutation, Versions
<1> QED
  BY <1>1, InitUpToDate, NextUpToDate, PTL DEF Spec

\* A reader that loads for others owns the entry it made, until it has cleaned up; no two
\* own the same, and it is complete only when its owner says so.
Working(t) == pc[t] \in {"publish", "complete"} \/ (pc[t] = "load" /\ ~fresh[t])
Owner(t)   == Working(t) \/ pc[t] = "cleanup"
OwnedOnce == \A t, u \in Readers : Owner(t) /\ Owner(u) /\ entry[t] = entry[u] => t = u
Incomplete ==
  /\ completed \in [Entries -> BOOLEAN]
  /\ \A t \in Readers : Working(t) => ~completed[entry[t]]
  /\ \A e \in Entries : e > loads => ~completed[e]
StillShared == \A t \in Readers : Working(t) /\ entry[t] \notin detached => cache[key[t]] = entry[t]
InFlight == OwnedOnce /\ Incomplete /\ StillShared

LEMMA InitInFlight == Init => InFlight
BY DEF Init, InFlight, OwnedOnce, Incomplete, StillShared, Owner, Working

\* What a lookup takes out of the map is complete.
LEMMA LookupTakesComplete ==
  ASSUME cache \in [Keys -> Nat \cup {None}], NEW q \in Keys,
         NEW c \in {cache} \cup (IF Expired(q) THEN {[cache EXCEPT ![q] = None]} ELSE {}), NEW k \in Keys,
         cache[k] # None, ~completed[cache[k]]
  PROVE  c[k] = cache[k] /\ Unfinished(c)[k] = cache[k]
<1>1. c[k] = cache[k]
  BY DEF Expired
<1> QED
  BY <1>1 DEF Unfinished

LEMMA LookupInFlight ==
  ASSUME UpToDate, InFlight, NEW t \in Readers, Lookup(t)
  PROVE  InFlight'
<1>1. PICK c \in {cache} \cup (IF Expired(key[t]) THEN {[cache EXCEPT ![key[t]] = None]} ELSE {}) :
       \/ c[key[t]] # None /\ Join(t, c)
       \/ \E d \in {c, Unfinished(c)} : c[key[t]] = None /\ Own(t, d)
       \/ cache' = Unfinished(c) /\ Return(t, Failure) /\ UNCHANGED <<entry, loads>>
  BY DEF Lookup
<1>2. UNCHANGED <<key, fresh, completed, detached>> /\ pc[t] = "lookup"
  BY DEF Lookup
<1>3. /\ key \in [Readers -> Keys] /\ entry \in [Readers -> Nat \cup {None}] /\ pc \in [Readers -> Places]
      /\ cache \in [Keys -> Nat \cup {None}] /\ loads \in Nat /\ completed \in [Entries -> BOOLEAN]
  BY DEF UpToDate, Shape, InFlight, Incomplete
<1>4. ASSUME NEW u \in Readers, Owner(u) PROVE entry[u] \in 1 .. loads /\ entry[u] # None /\ u # t
  BY <1>2, <1>4 DEF Owner, Working, UpToDate, Numbered
<1>5. ASSUME NEW u \in Readers, Working(u), entry[u] \notin detached
      PROVE  c[key[u]] = entry[u] /\ Unfinished(c)[key[u]] = entry[u]
  <2>1. cache[key[u]] = entry[u] /\ ~completed[entry[u]]
    BY <1>5 DEF InFlight, StillShared, Incomplete, Working
  <2>2. entry[u] # None
    BY <1>4, <1>5 DEF Owner, Working
  <2> QED
    BY <1>3, <2>1, <2>2, LookupTakesComplete
<1>6. CASE \/ c[key[t]] # None /\ Join(t, c)
           \/ cache' = Unfinished(c) /\ Return(t, Failure) /\ UNCHANGED <<entry, loads>>
  <2>1. /\ pc'[t] \in {"observe", "idle"} /\ loads' = loads
        /\ \A u \in Readers \ {t} : pc'[u] = pc[u] /\ entry'[u] = entry[u]
        /\ cache' = c \/ cache' = Unfinished(c)
    BY <1>3, <1>6 DEF Join, Goto, Return
  <2>2. \A u \in Readers : Owner(u)' => u # t /\ Owner(u) /\ entry'[u] = entry[u] /\ (Working(u)' => Working(u))
    BY <1>2, <2>1 DEF Owner, Working
  <2>3. OwnedOnce'
    BY <2>2 DEF OwnedOnce, InFlight
  <2>4. \A u \in Readers : Working(u)' => Owner(u)'
    BY DEF Working, Owner, Working
  <2>5. Incomplete'
    BY <1>2, <2>1, <2>2, <2>4 DEF Incomplete, InFlight
  <2>6. StillShared'
    <3> SUFFICES ASSUME NEW u \in Readers, Working(u)', entry'[u] \notin detached' PROVE cache'[key'[u]] = entry'[u]
      BY DEF StillShared, Working
    <3> QED
      BY <1>2, <1>5, <2>1, <2>2, <2>4
  <2> QED
    BY <2>3, <2>5, <2>6 DEF InFlight
<1>7. CASE \E d \in {c, Unfinished(c)} : c[key[t]] = None /\ Own(t, d)
  <2>1. PICK d \in {c, Unfinished(c)} : c[key[t]] = None /\ Own(t, d)
    BY <1>7
  <2>2. /\ pc' = [pc EXCEPT ![t] = "load"] /\ entry' = [entry EXCEPT ![t] = loads + 1]
        /\ cache' = [d EXCEPT ![key[t]] = loads + 1] /\ loads' = loads + 1 /\ loads < MaxLoads
    BY <2>1 DEF Own, Goto
  <2>3. \A k \in Keys : k # key[t] => cache'[k] = d[k]
    BY <1>3, <2>1, <2>2, LookupKeeps
  <2>4. cache'[key[t]] = loads + 1 /\ pc'[t] = "load" /\ entry'[t] = loads + 1
    BY <1>3, <2>1, <2>2, LookupKeeps
  <2>5. \A u \in Readers \ {t} : pc'[u] = pc[u] /\ entry'[u] = entry[u]
    BY <1>3, <2>2
  <2>6. \A u \in Readers \ {t} : (Owner(u)' => Owner(u)) /\ (Working(u)' => Working(u))
    BY <1>2, <2>5 DEF Owner, Working
  <2>7. \A u \in Readers \ {t} : Owner(u)' => entry'[u] \in 1 .. loads /\ entry'[u] = entry[u]
    BY <1>4, <2>5, <2>6
  <2>8. OwnedOnce'
    <3>1. \A u \in Readers \ {t} : Owner(u)' => entry'[u] # entry'[t]
      BY <1>3, <2>4, <2>7
    <3> QED
      BY <3>1, <2>6, <2>7 DEF OwnedOnce, InFlight
  <2>9. Incomplete'
    <3>1. loads + 1 \in Entries /\ ~completed[loads + 1]
      BY <1>3, <2>2, CacheConstants DEF Entries, InFlight, Incomplete
    <3>2. \A e \in Entries : e > loads' => ~completed'[e]
      BY <1>2, <1>3, <2>2 DEF Entries, InFlight, Incomplete
    <3>3. \A u \in Readers : Working(u)' => ~completed'[entry'[u]]
      BY <1>2, <2>4, <2>5, <2>6, <3>1 DEF InFlight, Incomplete
    <3> QED
      BY <1>2, <1>3, <3>2, <3>3 DEF Incomplete
  <2>10. StillShared'
    <3> SUFFICES ASSUME NEW u \in Readers, Working(u)', entry'[u] \notin detached' PROVE cache'[key'[u]] = entry'[u]
      BY DEF StillShared, Working
    <3>1. CASE u = t
      BY <1>2, <2>4, <3>1
    <3>2. CASE u # t
      <4>1. Working(u) /\ entry'[u] = entry[u] /\ entry[u] \notin detached /\ Owner(u)
        BY <1>2, <2>5, <2>6, <3>2 DEF Working, Owner, Working
      <4>2. c[key[u]] = entry[u] /\ d[key[u]] = entry[u] /\ entry[u] # None
        BY <1>4, <1>5, <2>1, <4>1
      <4>3. key[u] # key[t] /\ key[u] \in Keys
        BY <1>3, <2>1, <4>2
      <4> QED
        BY <1>2, <2>3, <4>1, <4>2, <4>3
    <3> QED
      BY <3>1, <3>2
  <2> QED
    BY <2>8, <2>9, <2>10 DEF InFlight
<1> QED
  BY <1>1, <1>6, <1>7

\* Whoever loads goes on, waits for others, or ends; only what it completes is complete.
LEMMA ReaderInFlight ==
  ASSUME UpToDate, InFlight, NEW t \in Readers,
         StartRead(t) \/ Load(t) \/ Publish(t) \/ Complete(t) \/ Cleanup(t) \/ Observe(t) \/ Look(t) \/ WakeUp(t)
  PROVE  InFlight'
<1>1. /\ key \in [Readers -> Keys] /\ entry \in [Readers -> Nat \cup {None}] /\ pc \in [Readers -> Places]
      /\ fresh \in [Readers -> BOOLEAN] /\ cache \in [Keys -> Nat \cup {None}] /\ loads \in Nat
      /\ completed \in [Entries -> BOOLEAN]
  BY DEF UpToDate, Shape, InFlight, Incomplete
<1>2. ASSUME NEW u \in Readers, Owner(u) PROVE entry[u] \in 1 .. loads /\ entry[u] # None
  BY <1>2 DEF Owner, Working, UpToDate, Numbered
<1>3. /\ \A u \in Readers \ {t} : pc'[u] = pc[u] /\ entry'[u] = entry[u] /\ fresh'[u] = fresh[u] /\ key'[u] = key[u]
      /\ loads' = loads /\ detached' = detached
  BY <1>1 DEF StartRead, Load, Publish, Complete, Cleanup, Observe, Look, WakeUp, Goto, Return, counts
<1>4. Owner(t)' => Owner(t) /\ entry'[t] = entry[t] /\ key'[t] = key[t]
  BY <1>1 DEF StartRead, Load, Publish, Complete, Cleanup, Observe, Look, WakeUp, Goto, Return, AfterComplete, Owner, Working
<1>5. Working(t)' => Working(t) /\ ~Complete(t) /\ ~Cleanup(t)
  BY <1>1 DEF StartRead, Load, Publish, Complete, Cleanup, Observe, Look, WakeUp, Goto, Return, AfterComplete, Working
<1>6. \A u \in Readers : /\ Owner(u)' => Owner(u) /\ entry'[u] = entry[u] /\ key'[u] = key[u]
                         /\ Working(u)' => Working(u) /\ Owner(u)'
  BY <1>3, <1>4, <1>5 DEF Owner, Working
<1>7. OwnedOnce'
  BY <1>6 DEF OwnedOnce, InFlight
<1>8. Incomplete'
  <2>1. CASE Complete(t)
    <3>1. completed' = [completed EXCEPT ![entry[t]] = TRUE] /\ Owner(t) /\ ~Working(t)'
      BY <1>1, <1>5, <2>1 DEF Complete, Owner, Working
    <3>2. \A u \in Readers : Working(u)' => Owner(u) /\ u # t /\ entry'[u] = entry[u] /\ entry[u] # entry[t]
      BY <1>6, <3>1 DEF OwnedOnce, InFlight
    <3>3. \A e \in Entries : e # entry[t] => completed'[e] = completed[e]
      BY <1>1, <3>1
    <3>4. entry[t] \in 1 .. loads
      BY <1>2, <3>1
    <3>5. \A u \in Readers : Working(u)' => entry[u] \in Entries
      BY <1>1, <1>2, <3>2, CacheConstants DEF UpToDate, Shape, Entries
    <3>6. \A u \in Readers : Working(u)' => ~completed'[entry'[u]]
      BY <1>6, <3>2, <3>3, <3>5 DEF Incomplete, InFlight
    <3>7. \A e \in Entries : e > loads' => ~completed'[e]
      BY <1>1, <1>3, <3>3, <3>4 DEF Incomplete, InFlight, Entries
    <3>8. completed' \in [Entries -> BOOLEAN]
      BY <1>1, <3>1
    <3> QED
      BY <3>6, <3>7, <3>8 DEF Incomplete
  <2>2. CASE ~Complete(t)
    <3>1. completed' = completed
      BY <2>2 DEF StartRead, Load, Publish, Cleanup, Observe, Look, WakeUp
    <3> QED
      BY <3>1, <1>3, <1>6 DEF Incomplete, InFlight
  <2> QED
    BY <2>1, <2>2
<1>9. StillShared'
  <2> SUFFICES ASSUME NEW u \in Readers, Working(u)', entry'[u] \notin detached' PROVE cache'[key'[u]] = entry'[u]
    BY DEF StillShared
  <2>1. Working(u) /\ Owner(u) /\ entry'[u] = entry[u] /\ key'[u] = key[u] /\ entry[u] \notin detached
    BY <1>3, <1>6 DEF Owner
  <2>2. cache[key[u]] = entry[u]
    BY <2>1 DEF StillShared, InFlight
  <2>3. CASE Cleanup(t)
    <3>1. u # t /\ Owner(t) /\ entry[u] # entry[t]
      BY <1>5, <2>1, <2>3 DEF Cleanup, Owner, OwnedOnce, InFlight
    <3>2. cache' = cache \/ (cache[key[t]] = entry[t] /\ cache' = [cache EXCEPT ![key[t]] = None])
      BY <2>3 DEF Cleanup, StillMine
    <3>3. key[u] # key[t] \/ cache' = cache
      BY <2>2, <3>1, <3>2
    <3> QED
      BY <1>1, <2>1, <2>2, <3>2, <3>3
  <2>4. CASE ~Cleanup(t)
    <3>1. cache' = cache
      BY <2>4 DEF StartRead, Load, Publish, Complete, Observe, Look, WakeUp
    <3> QED
      BY <2>1, <2>2, <3>1
  <2> QED
    BY <2>3, <2>4
<1> QED
  BY <1>7, <1>8, <1>9 DEF InFlight

\* What a mutation or a sign-in takes out of the map is detached.
LEMMA EmptiedInFlight ==
  ASSUME UpToDate, InFlight, UNCHANGED <<readerVars, completed, loads>>,
         Invalidate \/ UNCHANGED <<cache, detached>>
  PROVE  InFlight'
<1>1. \A t \in Readers : (Working(t)' <=> Working(t)) /\ (Owner(t)' <=> Owner(t)) /\ entry'[t] = entry[t] /\ key'[t] = key[t]
  BY DEF Working, Owner, readerVars
<1>2. OwnedOnce' /\ Incomplete'
  BY <1>1 DEF InFlight, OwnedOnce, Incomplete
<1>3. StillShared'
  <2> SUFFICES ASSUME NEW u \in Readers, Working(u), entry[u] \notin detached' PROVE cache'[key[u]] = entry[u]
    BY <1>1 DEF StillShared
  <2>1. entry[u] \notin detached
    BY DEF Invalidate
  <2>2. cache[key[u]] = entry[u] /\ key[u] \in Keys /\ entry[u] # None
    BY <2>1 DEF StillShared, InFlight, UpToDate, Shape, Numbered, Working
  <2>3. entry[u] \in Held(cache)
    BY <2>2 DEF Held
  <2> QED
    BY <2>2, <2>3 DEF Invalidate
<1> QED
  BY <1>2, <1>3 DEF InFlight

LEMMA NextInFlight == UpToDate /\ InFlight /\ [Next]_vars => InFlight'
<1> SUFFICES ASSUME UpToDate, InFlight, [Next]_vars PROVE InFlight'
  OBVIOUS
<1>1. CASE UNCHANGED vars
  BY <1>1, EmptiedInFlight DEF vars, counts
<1>2. ASSUME NEW t \in Readers, StartRead(t) \/ ReadStep(t) PROVE InFlight'
  BY <1>2, LookupInFlight, ReaderInFlight DEF ReadStep
<1>3. ASSUME NEW m \in Mutators, StartMutation(m) \/ Applied(m) \/ EndMutation(m) PROVE InFlight'
  BY <1>3, EmptiedInFlight DEF StartMutation, Applied, EndMutation, InvalidateAfter, counts
<1>4. CASE AccountChanges \/ SessionChanges
  BY <1>4, EmptiedInFlight DEF AccountChanges, SessionChanges, counts
<1> QED
  BY <1>1, <1>2, <1>3, <1>4 DEF Next

\* InFlightShared: a load under way is what its key is served from until an invalidation,
\* so one key is never loaded twice at a time, and the failure of an older load takes
\* nothing of a newer one out of the map (the lookup, and the removal after a failure).
THEOREM LoadsAreShared == Spec => []InFlightShared
<1>1. InFlight => InFlightShared
  BY DEF InFlight, StillShared, Working, InFlightShared
<1> QED
  BY <1>1, InitUpToDate, NextUpToDate, InitInFlight, NextInFlight, PTL DEF Spec

---------------------------------------------------------------------------
(* The keys of the dashboard's tokens.                                      *)
LEMMA KeysInit == K!Init => K!KeysKept
<1> SUFFICES ASSUME K!Init PROVE K!KeysKept
  OBVIOUS
<1> USE KeysConstants DEF K!Init, K!Idle
<1>1. K!Shapes
  <2>1. x7 \in K!Requested /\ x7.step = "idle"
    BY DEF K!Requested
  <2>2. x3 \in [SigningKeys -> K!Times \cup {None}]
    BY DEF K!Times
  <2> QED
    BY <2>1, <2>2 DEF K!Shapes
<1>2. K!PublishedNow /\ K!AnswerIsYoung /\ K!SetIsYoung /\ K!RevokedKeysStop
  BY DEF K!PublishedNow, K!AnswerIsYoung, K!SetIsYoung, K!RevokedKeysStop
<1> QED
  BY <1>1, <1>2 DEF K!KeysKept

\* A request looks at the set, and attempts a fetch or goes on to verify.
LEMMA RequestStep ==
  ASSUME K!KeysKept, NEW k \in SigningKeys, K!Request(k)
  PROVE  K!KeysKept'
<1>0. x8 = None
  BY DEF K!KeysKept, K!Shapes, K!Request, K!Idle
<1>1. \/ x7' = [key |-> k, step |-> "fetch"] /\ x8' = [keys |-> None, began |-> x1]
      \/ x7' = [key |-> k, step |-> "verify"] /\ x8' = None
  BY <1>0 DEF K!Request
<1> USE KeysConstants DEF K!KeysKept, K!Shapes, K!Request, K!Times
<1>2. K!Shapes'
  <2>1. CASE x7' = [key |-> k, step |-> "fetch"] /\ x8' = [keys |-> None, began |-> x1]
    <3>1. x7' \in K!Requested /\ x7'.step = "fetch" /\ x7'.key \in SigningKeys
      BY <2>1 DEF K!Requested
    <3>2. x8' \in K!Answer'
      BY <2>1 DEF K!Answer
    <3> QED
      BY <3>1, <3>2 DEF K!Requested, K!Given
  <2>2. CASE x7' = [key |-> k, step |-> "verify"] /\ x8' = None
    BY <2>2 DEF K!Answer, K!Requested, K!Given
  <2> QED
    BY <1>1, <2>1, <2>2
<1>3. K!PublishedNow' /\ K!SetIsYoung' /\ K!RevokedKeysStop'
  BY DEF K!PublishedNow, K!SetIsYoung, K!PublishedSince, K!RevokedKeysStop
<1>4. K!AnswerIsYoung'
  BY <1>1 DEF K!AnswerIsYoung
<1> QED
  BY <1>2, <1>3, <1>4

\* The provider's answer holds what it publishes at some moment of the fetch.
LEMMA FormsStep ==
  ASSUME K!KeysKept, K!Forms
  PROVE  K!KeysKept'
<1> USE KeysConstants DEF K!KeysKept, K!Shapes, K!Forms, K!Times
<1>1. x8 \in K!Answer /\ x8' = [keys |-> x2, began |-> x8.began]
  BY DEF K!Answer
<1>2. K!Shapes'
  <2>1. x8' \in K!Answer'
    BY <1>1 DEF K!Answer
  <2> QED
    BY <2>1 DEF K!Requested, K!Given, K!held
<1>3. K!PublishedNow' /\ K!SetIsYoung' /\ K!RevokedKeysStop'
  BY DEF K!PublishedNow, K!SetIsYoung, K!PublishedSince, K!RevokedKeysStop, K!held
<1>4. K!AnswerIsYoung'
  BY <1>1 DEF K!AnswerIsYoung, K!PublishedNow, K!PublishedSince, K!Answer
<1> QED
  BY <1>2, <1>3, <1>4

\* What comes through is the set from then on: its keys were published since the fetch
\* began, which is at most the time of one fetch ago.
LEMMA FetchEndsStep ==
  ASSUME K!KeysKept, NEW came \in BOOLEAN, K!FetchEnds(came)
  PROVE  K!KeysKept'
<1> USE KeysConstants DEF K!KeysKept, K!Shapes, K!FetchEnds, K!FetchedAt, K!Times
<1>1. x7' = [key |-> x7.key, step |-> "verify"] /\ x7.key \in SigningKeys
  BY DEF K!Requested
<1>2. x8 \in K!Answer
  OBVIOUS
<1>3. K!Shapes'
  BY <1>1, <1>2 DEF K!Answer, K!Requested, K!Given
<1>4. K!PublishedNow' /\ K!RevokedKeysStop' /\ K!AnswerIsYoung'
  BY <1>1 DEF K!PublishedNow, K!RevokedKeysStop, K!AnswerIsYoung
<1>5. K!SetIsYoung'
  <2>1. CASE came
    <3>1. x4' = x8.keys /\ x5' = x1 /\ x8.keys # None /\ x3' = x3
      BY <2>1
    <3>2. x8.began \in 0 .. x1 /\ x8.keys \in SUBSET SigningKeys
      BY <1>2, <3>1 DEF K!Answer
    <3>3. \A k \in x8.keys : x3[k] # None /\ x3[k] >= x8.began
      BY <3>1 DEF K!AnswerIsYoung, K!PublishedSince
    <3>4. x1 - Timeout <= x8.began
      BY <3>2 DEF K!AnswerIsYoung
    <3>5. \A k \in x8.keys : x3[k] \in Nat
      BY <3>2, <3>3
    <3> QED
      BY <3>1, <3>2, <3>3, <3>4, <3>5 DEF K!SetIsYoung, K!PublishedSince
  <2>2. CASE ~came
    BY <2>2 DEF K!SetIsYoung, K!PublishedSince
  <2> QED
    BY <2>1, <2>2
<1> QED
  BY <1>3, <1>4, <1>5

LEMMA VerifyStep ==
  ASSUME K!KeysKept, K!Verify
  PROVE  K!KeysKept'
<1> USE KeysConstants DEF K!KeysKept, K!Shapes, K!Verify, K!Times, K!Idle
<1>1. x7.key \in SigningKeys
  OBVIOUS
<1>2. x9' = [key |-> x7.key, at |-> x1, accepted |-> ~K!TooOld /\ ~K!Lacks(x7.key)]
  OBVIOUS
<1>3. (~K!TooOld /\ ~K!Lacks(x7.key)) \in BOOLEAN
  BY DEF K!TooOld, K!Lacks
<1>4. K!Shapes'
  <2>1. x9' \in K!Given'
    BY <1>1, <1>2, <1>3 DEF K!Given, K!held
  <2>2. x7' \in K!Requested /\ x7'.step = "idle" /\ x8' = None
    BY DEF K!Requested
  <2> QED
    BY <2>1, <2>2 DEF K!Requested, K!held
<1>5. K!PublishedNow' /\ K!SetIsYoung' /\ K!AnswerIsYoung'
  BY DEF K!PublishedNow, K!SetIsYoung, K!PublishedSince, K!AnswerIsYoung, K!held
<1>6. ~K!TooOld /\ ~K!Lacks(x7.key) => x3[x7.key] # None /\ x1 - x3[x7.key] < Expiry + Timeout
  BY <1>1 DEF K!TooOld, K!Lacks, K!Since, K!SetIsYoung, K!PublishedSince
<1>7. K!RevokedKeysStop'
  <2>1. x9'.key = x7.key /\ x9'.at = x1
    BY <1>2
  <2>3. x9'.accepted = (~K!TooOld /\ ~K!Lacks(x7.key))
    <3> DEFINE P == ~K!TooOld /\ ~K!Lacks(x7.key)
    <3>1. x9' = [key |-> x7.key, at |-> x1, accepted |-> P]
      BY <1>2
    <3>2. P \in BOOLEAN
      BY <1>3
    <3> HIDE DEF P
    <3>3. x9'.accepted = P
      BY <3>1, <3>2
    <3> QED
      BY <3>3 DEF P
  <2>2. x3' = x3
    OBVIOUS
  <2> QED
    BY <1>6, <2>1, <2>2, <2>3 DEF K!RevokedKeysStop
<1> QED
  BY <1>4, <1>5, <1>7

LEMMA DroppedStep ==
  ASSUME K!KeysKept, K!Dropped
  PROVE  K!KeysKept'
<1> USE KeysConstants DEF K!KeysKept, K!Shapes, K!Dropped, K!Times, K!Idle, K!held
<1>1. K!Shapes'
  BY DEF K!Requested, K!Given
<1>2. K!PublishedNow' /\ K!SetIsYoung' /\ K!AnswerIsYoung' /\ K!RevokedKeysStop'
  BY DEF K!PublishedNow, K!SetIsYoung, K!PublishedSince, K!AnswerIsYoung, K!RevokedKeysStop
<1> QED
  BY <1>1, <1>2

\* Time passes, and keys are published and withdrawn: a key is never published earlier
\* than it was.
LEMMA PublishedLater ==
  ASSUME K!KeysKept, K!Rotate \/ K!Tick
  PROVE  /\ x3' \in [SigningKeys -> K!Times' \cup {None}] /\ K!PublishedNow'
         /\ \A k \in SigningKeys : x3[k] # None => x3'[k] # None /\ x3'[k] >= x3[k]
         /\ x1' \in Nat /\ x1' >= x1 /\ x2' \subseteq SigningKeys
         /\ UNCHANGED <<x4, x5, x6, x7, x8, x9>>
<1> USE KeysConstants DEF K!KeysKept, K!Shapes, K!Times, K!held, K!PublishedNow
<1>1. CASE K!Rotate
  BY <1>1 DEF K!Rotate
<1>2. CASE K!Tick
  BY <1>2 DEF K!Tick
<1> QED
  BY <1>1, <1>2

LEMMA TimeStep ==
  ASSUME K!KeysKept, K!Rotate \/ K!Tick
  PROVE  K!KeysKept'
<1> USE KeysConstants DEF K!KeysKept, K!Shapes, K!Times
<1>1. K!Shapes'
  BY PublishedLater DEF K!Answer, K!Requested, K!Given
<1>2. K!PublishedNow'
  BY PublishedLater
<1>3. K!SetIsYoung'
  <2> SUFFICES ASSUME x4' # None, NEW k \in x4'
               PROVE  x5' # None /\ x3'[k] # None /\ x3'[k] >= x5' - Timeout
    BY PublishedLater DEF K!SetIsYoung, K!PublishedSince
  <2>1. x4' = x4 /\ x5' = x5 /\ x4 \in SUBSET SigningKeys /\ k \in SigningKeys
    BY PublishedLater
  <2>2. x5 # None /\ x3[k] # None /\ x3[k] >= x5 - Timeout /\ x3[k] \in Nat /\ x5 \in Nat
    BY <2>1 DEF K!SetIsYoung, K!PublishedSince
  <2>3. x3'[k] # None /\ x3'[k] >= x3[k] /\ x3'[k] \in Nat
    BY <2>1, <2>2, PublishedLater
  <2> QED
    BY <2>1, <2>2, <2>3
<1>4. x7.step = "fetch" => x1' <= x8.began + Timeout
  BY DEF K!AnswerIsYoung, K!Answer, K!Rotate, K!Tick, K!Since
<1>5. K!AnswerIsYoung'
  <2>1. x7' = x7 /\ x8' = x8
    BY PublishedLater
  <2> SUFFICES ASSUME x7.step = "fetch", x8.keys # None, NEW k \in x8.keys
               PROVE  x3'[k] # None /\ x3'[k] >= x8.began
    BY <1>4, <2>1 DEF K!AnswerIsYoung, K!PublishedSince
  <2>2. x8 \in K!Answer
    OBVIOUS
  <2>3. k \in SigningKeys /\ x8.began \in Nat
    BY <2>2 DEF K!Answer
  <2>4. x3[k] # None /\ x3[k] >= x8.began /\ x3[k] \in Nat
    BY <2>3 DEF K!AnswerIsYoung, K!PublishedSince
  <2>5. x3'[k] # None /\ x3'[k] >= x3[k] /\ x3'[k] \in Nat
    BY <2>3, <2>4, PublishedLater
  <2> QED
    BY <2>3, <2>4, <2>5
<1>6. K!RevokedKeysStop'
  BY PublishedLater DEF K!RevokedKeysStop, K!Given
<1> QED
  BY <1>1, <1>2, <1>3, <1>5, <1>6

LEMMA KeysNext == K!KeysKept /\ [K!Next]_K!vars => K!KeysKept'
<1> SUFFICES ASSUME K!KeysKept, [K!Next]_K!vars PROVE K!KeysKept'
  OBVIOUS
<1>1. CASE UNCHANGED K!vars
  BY <1>1 DEF K!vars, K!held, K!KeysKept, K!Shapes, K!Times, K!Answer, K!Requested, K!Given, K!PublishedNow,
     K!AnswerIsYoung, K!SetIsYoung, K!PublishedSince, K!RevokedKeysStop
<1>2. ASSUME NEW k \in SigningKeys, K!Request(k) PROVE K!KeysKept'
  BY <1>2, RequestStep
<1>3. ASSUME NEW came \in BOOLEAN, K!FetchEnds(came) PROVE K!KeysKept'
  BY <1>3, FetchEndsStep
<1>4. CASE K!Forms \/ K!Verify \/ K!Dropped \/ K!Rotate \/ K!Tick
  BY <1>4, FormsStep, VerifyStep, DroppedStep, TimeStep
<1> QED
  BY <1>1, <1>2, <1>3, <1>4 DEF K!Next

\* RevokedKeysStop: a withdrawn key signs nobody in a day (and the time of one fetch)
\* later, whichever fetches failed, were backed off or dropped (Access::principal).
THEOREM WithdrawnKeysStop == K!Spec => []RevokedKeysStop
<1>1. K!KeysKept => RevokedKeysStop
  BY DEF K!KeysKept, RevokedKeysStop
<1> QED
  BY <1>1, KeysInit, KeysNext, PTL DEF K!Spec

---------------------------------------------------------------------------
(* The surfaces of the daily snapshot.                                      *)
LEMMA LeastOf ==
  ASSUME NEW T, T # {}, T \subseteq Nat
  PROVE  F!Min(T) \in T /\ \A n \in T : F!Min(T) <= n
<1>1. PICK n \in T : \A m \in T : ~(<<m, n>> \in OpToRel(<, Nat))
  BY WFMin, NatLessThanWellFounded
<1>2. \A m \in T : ~(m < n)
  BY <1>1 DEF OpToRel
<1>3. n \in T /\ \A m \in T : n <= m
  BY <1>2
<1> QED
  BY <1>3 DEF F!Min

\* What a source establishes is about rows of the surface.
LEMMA Observed ==
  ASSUME NEW o \in F!Observations
  PROVE  o.data \subseteq SurfaceKeys
<1>1. CASE x2
  BY <1>1 DEF F!Observations, F!Saw
<1>2. CASE ~x2
  <2>1. \A raw, valid \in SUBSET SurfaceKeys : F!WorldChild(raw, valid).data \subseteq SurfaceKeys
    BY DEF F!WorldChild, F!Saw
  <2> QED
    BY <1>2, <2>1 DEF F!Observations, F!Saw
<1> QED
  BY <1>1, <1>2

LEMMA StampInit == F!Init => F!StampKept /\ F!StockKept
<1> SUFFICES ASSUME F!Init PROVE F!StampKept /\ F!StockKept
  OBVIOUS
<1> USE DEF F!Init
<1>1. F!StockKept
  BY DEF F!StockKept
<1>2. CASE x3 = None
  <2>1. x7 \in [SurfaceKeys -> 0 .. x1] /\ x1 \in Nat /\ x2 \in BOOLEAN
    OBVIOUS
  <2>2. F!StampIsHonest
    BY <1>2 DEF F!StampIsHonest
  <2> QED
    BY <1>1, <1>2, <2>1, <2>2 DEF F!StampKept
<1>3. ASSUME NEW s \in {0, None}, x3 = F!Surface(SurfaceKeys, s, s, F!Empty) PROVE F!StampKept
  <2>1. /\ x3.data = SurfaceKeys /\ x3.stamp = s /\ x3.fresh_at = s
        /\ x3.carried = [k \in {} |-> 0]
    BY <1>3 DEF F!Surface, F!Empty
  <2>2. DOMAIN x3.carried = {} /\ x3.carried \in [{} -> 0 .. x1]
    BY <2>1
  <2>3. \A k \in SurfaceKeys : F!Of(x3, k) = s
    BY <2>1, <2>2 DEF F!Of
  <2>4. F!StampIsHonest
    BY <2>1, <2>3, KeysConstants DEF F!StampIsHonest
  <2> QED
    BY <2>1, <2>2, <2>4 DEF F!StampKept, F!Past
<1> QED
  BY <1>1, <1>2, <1>3 DEF F!Legacy

\* What a build publishes of a surface, be it all fresh ...
LEMMA FreshSurface ==
  ASSUME F!StampKept, NEW T, T \subseteq SurfaceKeys,
         x1' = x1, x2' = x2, x3' = F!Now(T), x7' = [k \in SurfaceKeys |-> IF k \in T THEN x1 ELSE x7[k]]
  PROVE  F!StampKept'
<1>1. /\ x3'.data = T /\ x3'.stamp = x1 /\ x3'.fresh_at = x1
      /\ x3'.carried = [k \in {} |-> 0]
  BY DEF F!Now, F!Surface, F!Empty
<1>2. DOMAIN x3'.carried = {} /\ x3'.carried \in [{} -> 0 .. x1]
  BY <1>1
<1>3. x7' \in [SurfaceKeys -> 0 .. x1] /\ \A k \in T : x7'[k] = x1
  BY DEF F!StampKept
<1>4. \A k \in T : F!Of(x3', k) = x1
  BY <1>1, <1>2 DEF F!Of
<1>5. F!StampIsHonest'
  BY <1>1, <1>3, <1>4 DEF F!StampIsHonest, F!StampKept, F!Of
<1> QED
  BY <1>1, <1>2, <1>3, <1>5 DEF F!StampKept, F!Past

\* ... or as it was ...
LEMMA KeptSurface ==
  ASSUME F!StampKept, NEW T, T \subseteq SurfaceKeys,
         x1' = x1, x2' = x2, x3' = x3, x7' = [k \in SurfaceKeys |-> IF k \in T THEN x1 ELSE x7[k]]
  PROVE  F!StampKept'
<1>1. x7' \in [SurfaceKeys -> 0 .. x1] /\ \A k \in SurfaceKeys : x7[k] <= x7'[k]
  BY DEF F!StampKept
<1>2. F!StampIsHonest'
  <2> SUFFICES ASSUME x3 # None, NEW k \in x3.data
               PROVE  /\ x3.stamp # None => x3.stamp <= x7'[k]
                      /\ F!Of(x3, k) # None => F!Of(x3, k) <= x7'[k]
    BY DEF F!StampIsHonest, F!Of
  <2>1. k \in SurfaceKeys /\ x7[k] \in Nat /\ x7'[k] \in Nat /\ x7[k] <= x7'[k]
    BY <1>1 DEF F!StampKept
  <2>2. /\ x3.stamp # None => x3.stamp \in Nat /\ x3.stamp <= x7[k]
        /\ F!Of(x3, k) # None => F!Of(x3, k) \in Nat /\ F!Of(x3, k) <= x7[k]
    BY DEF F!StampKept, F!StampIsHonest, F!Past, F!Of
  <2> QED
    BY <2>1, <2>2
<1> QED
  BY <1>1, <1>2 DEF F!StampKept, F!Past

\* ... or merged with what is carried: the stamp is the oldest day of the carried rows.
LEMMA MergedSurface ==
  ASSUME F!StampKept, x3 # None, NEW o, o.data \subseteq SurfaceKeys, x1' = x1, x2' = x2,
         x3' = F!Merged(o, x3),
         x7' = [k \in SurfaceKeys |-> IF k \in o.data THEN x1 ELSE x7[k]]
  PROVE  F!StampKept'
<1> DEFINE borne == F!Carried(o, x3)
           T == {x1} \cup {F!Of(x3, k) : k \in borne}
<1>1. borne \subseteq SurfaceKeys /\ borne \cap o.data = {}
  BY DEF F!Carried, F!StampKept
<1>2. \A k \in borne : F!Of(x3, k) \in 0 .. x1 /\ F!Of(x3, k) <= x7[k]
  <2> TAKE k \in borne
  <2>1. k \in x3.data /\ F!Of(x3, k) # None
    BY DEF F!Carried, F!Young
  <2>2. F!Of(x3, k) \in F!Past
    BY <2>1 DEF F!StampKept, F!Of, F!Past
  <2> QED
    BY <2>1, <2>2 DEF F!StampKept, F!StampIsHonest, F!Past
<1>3. x1 \in Nat
  BY DEF F!StampKept
<1>4. F!OldestOf(o, x3) \in T /\ \A n \in T : F!OldestOf(o, x3) <= n
  <2>1. T # {} /\ T \subseteq Nat
    BY <1>2, <1>3
  <2> QED
    BY <2>1, LeastOf DEF F!OldestOf
<1>5. /\ x3'.data = o.data \cup borne /\ x3'.stamp = F!OldestOf(o, x3) /\ x3'.fresh_at = x1
      /\ x3'.carried = [k \in borne |-> F!Of(x3, k)]
  BY DEF F!Merged, F!Surface
<1> HIDE DEF borne
<1>6. DOMAIN x3'.carried = borne /\ x3'.carried \in [borne -> 0 .. x1]
  BY <1>2, <1>5
<1>7. x7' \in [SurfaceKeys -> 0 .. x1] /\ \A k \in o.data : x7'[k] = x1
  BY DEF F!StampKept
<1>8. \A k \in borne : x7'[k] = x7[k] /\ x7[k] \in Nat
  BY <1>1 DEF F!StampKept
<1>9. x3'.stamp \in 0 .. x1
  BY <1>2, <1>3, <1>4, <1>5
<1>10. F!StampIsHonest'
  <2> SUFFICES ASSUME NEW k \in o.data \cup borne
               PROVE  x3'.stamp <= x7'[k] /\ F!Of(x3', k) <= x7'[k]
    BY <1>5 DEF F!StampIsHonest, F!Of
  <2>1. CASE k \in borne
    <3>1. F!Of(x3', k) = F!Of(x3, k)
      BY <1>5, <1>6, <2>1 DEF F!Of
    <3>2. F!Of(x3, k) \in Nat /\ F!Of(x3, k) <= x7[k] /\ x3'.stamp <= F!Of(x3, k)
      BY <1>2, <1>3, <1>4, <1>5, <2>1
    <3> QED
      BY <1>8, <1>9, <2>1, <3>1, <3>2
  <2>2. CASE k \notin borne
    <3>1. F!Of(x3', k) = x1
      BY <1>5, <1>6, <2>2 DEF F!Of
    <3> QED
      BY <1>3, <1>7, <1>9, <2>2, <3>1
  <2> QED
    BY <2>1, <2>2
<1> QED
  BY <1>1, <1>3, <1>5, <1>6, <1>7, <1>9, <1>10 DEF F!StampKept, F!Past

LEMMA BuildStep ==
  ASSUME F!StampKept, F!Build
  PROVE  F!StampKept'
<1>1. PICK o \in F!Observations :
        /\ x3' = F!Keyed(o, x3)
        /\ x7' = [k \in SurfaceKeys |-> IF k \in o.data THEN x1 ELSE x7[k]]
  BY DEF F!Build
<1>2. x1' = x1 /\ x2' = x2 /\ o.data \subseteq SurfaceKeys
  BY Observed DEF F!Build
<1>3. \/ x3' = F!Now(o.data)
      \/ x3' = x3
      \/ x3' = F!Now({})
      \/ x3' = F!Merged(o, x3) /\ x3 # None
  BY <1>1 DEF F!Keyed, F!Reconciled, F!Preserved
<1>4. CASE x3' = F!Now(o.data)
  BY <1>1, <1>2, <1>4, FreshSurface
<1>5. CASE x3' = x3
  BY <1>1, <1>2, <1>5, KeptSurface
<1>6. CASE x3' = F!Merged(o, x3) /\ x3 # None
  BY <1>1, <1>2, <1>6, MergedSurface
<1>7. CASE x3' = F!Now({})
  <2>1. x3'.data = {} /\ x3'.stamp = x1 /\ x3'.fresh_at = x1 /\ x3'.carried = [k \in {} |-> 0]
    BY <1>7 DEF F!Now, F!Surface, F!Empty
  <2>2. DOMAIN x3'.carried = {} /\ x3'.carried \in [{} -> 0 .. x1]
    BY <2>1
  <2>3. x7' \in [SurfaceKeys -> 0 .. x1]
    BY <1>1 DEF F!StampKept
  <2>4. F!StampIsHonest'
    BY <2>1 DEF F!StampIsHonest
  <2> QED
    BY <1>2, <2>1, <2>2, <2>3, <2>4 DEF F!StampKept, F!Past
<1> QED
  BY <1>3, <1>4, <1>5, <1>6, <1>7

LEMMA StampNext == F!StampKept /\ [F!Next]_F!vars => F!StampKept'
<1> SUFFICES ASSUME F!StampKept, [F!Next]_F!vars PROVE F!StampKept'
  OBVIOUS
<1>1. CASE F!Build
  BY <1>1, BuildStep
<1>2. CASE F!Tick
  BY <1>2 DEF F!Tick, F!StampKept, F!Past, F!StampIsHonest, F!Of
<1>3. CASE F!Baro \/ UNCHANGED F!vars
  BY <1>3 DEF F!Baro, F!vars, F!StampKept, F!Past, F!StampIsHonest, F!Of
<1> QED
  BY <1>1, <1>2, <1>3 DEF F!Next

\* StampIsHonest: a snapshot never calls itself younger than it is, whatever rows and
\* days there are, however long rows may be carried (reconcile and reconcile_keyed).
THEOREM SnapshotsTellTheirAge == F!Spec => []StampIsHonest
<1>1. F!StampKept => StampIsHonest
  BY DEF F!StampKept, StampIsHonest
<1> QED
  BY <1>1, StampInit, StampNext, PTL DEF F!Spec

LEMMA StockNext == F!StockKept /\ [F!Next]_F!vars => F!StockKept' /\ F!LosesNothing
<1> SUFFICES ASSUME F!StockKept, [F!Next]_F!vars PROVE F!StockKept' /\ F!LosesNothing
  OBVIOUS
<1> USE KeysConstants, SurfacesConstants DEF F!StockKept, F!LosesNothing
<1>1. CASE F!Build
  <2>1. x4' \in {None, "legacy", "de"} /\ (x4 # None => x4' # None) /\ (x4 = "de" => x4' = "de")
    BY <1>1 DEF F!Build, F!Relics, F!PriorHasRelics
  <2>2. x5' = x5 \/ x5' = x6.number
    BY <1>1 DEF F!Build, F!Stock
  <2>3. x1' = x1 /\ x6' = x6
    BY <1>1 DEF F!Build
  <2> QED
    BY <2>1, <2>2, <2>3
<1>2. CASE F!Tick
  BY <1>2 DEF F!Tick
<1>3. CASE F!Baro
  <2>1. x6' \in [number : 0 .. x1, listed : BOOLEAN] /\ x6.number <= x6'.number
    <3>1. CASE x6.listed
      <4>1. x6' = [number |-> x6.number, listed |-> FALSE]
        BY <1>3, <3>1 DEF F!Baro
      <4> QED
        BY <1>3, <4>1 DEF F!Baro
    <3>2. CASE ~x6.listed
      <4>1. x6' = [number |-> x1, listed |-> TRUE] /\ x6.number < x1
        BY <1>3, <3>2 DEF F!Baro
      <4> QED
        BY <1>3, <4>1 DEF F!Baro
    <3> QED
      BY <3>1, <3>2
  <2>2. UNCHANGED <<x1, x4, x5>>
    BY <1>3 DEF F!Baro
  <2> QED
    BY <2>1, <2>2
<1>4. CASE UNCHANGED F!vars
  BY <1>4 DEF F!vars
<1> QED
  BY <1>1, <1>2, <1>3, <1>4 DEF F!Next

\* NothingIsLost: relic tables are never emptied nor DE's replaced by the poorer ones,
\* and Baro's stock only makes way for a newer visit's (Stock, Relics).
THEOREM SourcesFailSafely == F!Spec => NothingIsLost
<1>1. F!StockKept /\ [F!Next]_F!vars => [part = "surfaces" => F!LosesNothing]_F!vars
  BY StockNext
<1>2. F!StockKept /\ [F!Next]_F!vars => F!StockKept'
  BY StockNext
<1> QED
  BY <1>1, <1>2, StampInit, PTL DEF F!Spec, NothingIsLost

---------------------------------------------------------------------------
(* The jobs that the dashboard starts.                                      *)
LEMMA JobsInit == J!Init => J!JobsKept
<1> SUFFICES ASSUME J!Init PROVE J!JobsKept
  OBVIOUS
<1> USE KeysConstants DEF J!Init
<1>1. J!JobShapes
  BY DEF J!JobShapes, J!InHand
<1>2. Len(x4) = 0 /\ Len(x10) = 0 /\ x5 = {}
  OBVIOUS
<1>3. J!OneHolds
  BY DEF J!OneHolds, J!Holding, J!Clicks
<1>4. J!FiredWell /\ J!StartsAreSpaced /\ J!RowsAreStarts
  BY <1>2 DEF J!FiredWell, J!StartsAreSpaced, J!RowsAreStarts
<1>5. J!ReadNewest
  BY DEF J!ReadNewest
<1> QED
  BY <1>1, <1>3, <1>4, <1>5 DEF J!JobsKept

\* A step that starts nothing and records nothing: the clicks that fired move on from
\* their record or not at all, and a thread that is given up leaves its start unrecorded.
LEMMA NothingStarts ==
  ASSUME J!JobsKept, J!JobShapes', J!OneHolds',
         x4' = x4, x10' = x10, x5' \subseteq x5, x11 \subseteq x11',
         x5' = x5 \/ ~J!AllRecorded',
         \A n \in 1 .. Len(x10) : x7'[x10[n]] = x7[x10[n]],
         \A c \in J!Clicks :
           /\ x6[c] = "record" => x6'[c] \in {"record", "started", "gone", "lost"}
           /\ x6[c] \in {"started", "gone", "lost"} => x6'[c] = x6[c],
         \A c \in x5' : x6'[c] = x6[c] \/ c \in x11',
         \A c \in J!Clicks : x6'[c] = "start" =>
           x9'[c] = J!Newest \/ (x6[c] = "start" /\ x9'[c] = x9[c])
  PROVE  J!JobsKept'
<1>1. \A n \in 1 .. Len(x10) : x10[n] \in J!Clicks
  BY DEF J!JobsKept, J!JobShapes
<1>2. \A n \in 1 .. Len(x10) : x6[x10[n]] \in {"record", "started", "gone", "lost"}
  BY DEF J!JobsKept, J!FiredWell
<1>3. \A n \in 1 .. Len(x10) : x6'[x10[n]] \in {"record", "started", "gone", "lost"}
  BY <1>1, <1>2
<1>4. J!FiredWell'
  BY <1>3 DEF J!JobsKept, J!FiredWell
<1>5. J!StartsAreSpaced'
  <2>1. \A n \in 1 .. Len(x10) : x6'[x10[n]] # "refused"
    BY <1>3
  <2>2. \A n \in 1 .. Len(x10), m \in 1 .. Len(x10) :
          m < n /\ x7[x10[n]] - x7[x10[m]] < Cooldown => \E k \in 1 .. n - 1 : x10[k] \in x11'
    BY DEF J!JobsKept, J!StartsAreSpaced
  <2> QED
    BY <2>1, <2>2 DEF J!StartsAreSpaced
<1>6. J!AllRecorded' => J!AllRecorded /\ J!RowsAreStarts'
  BY DEF J!JobsKept, J!AllRecorded, J!RowsAreStarts
<1>7. J!AllRecorded /\ J!RowsAreStarts => J!Newest' = J!Newest
  <2> SUFFICES ASSUME J!AllRecorded, J!RowsAreStarts, x4 # <<>> PROVE x7'[x4[Len(x4)]] = x7[x4[Len(x4)]]
    BY DEF J!Newest
  <2>1. x4 \in Seq(J!Clicks)
    BY DEF J!JobsKept, J!JobShapes
  <2>2. Len(x4) \in 1 .. Len(x4)
    BY <2>1
  <2>3. Len(x4) <= Len(x10) /\ x4[Len(x4)] = x10[Len(x4)]
    BY <2>2 DEF J!RowsAreStarts
  <2>4. Len(x10) \in Nat
    BY DEF J!JobsKept, J!JobShapes
  <2>5. Len(x4) \in 1 .. Len(x10)
    BY <2>2, <2>3, <2>4
  <2> QED
    BY <2>3, <2>5
<1>8. J!AllRecorded' => J!ReadNewest'
  BY <1>6, <1>7 DEF J!JobsKept, J!ReadNewest
<1> QED
  BY <1>4, <1>5, <1>6, <1>8 DEF J!JobsKept

\* The steps of a click up to its start: it comes, is admitted, reads the unit and the rows.
LEMMA ReadingStep ==
  ASSUME J!JobsKept, NEW c \in J!Clicks, J!Click(c) \/ J!Admit(c) \/ J!Unit(c) \/ J!Rows(c)
  PROVE  J!JobsKept'
<1> USE KeysConstants DEF J!system, J!Goes, J!Answers, J!Releases
<1>1. J!JobShapes
  BY DEF J!JobsKept
<1>2. x6[c] \in {"new", "waits", "unit", "rows"} /\ \E s \in J!InHand \cup {"refused"} :
        x6' = [x6 EXCEPT ![c] = s] /\ s \in {"waits", "unit", "rows", "start", "refused"}
  BY DEF J!Click, J!Admit, J!Unit, J!Rows, J!InHand
<1>3. PICK s \in {"waits", "unit", "rows", "start", "refused"} : x6' = [x6 EXCEPT ![c] = s]
  BY <1>2
<1>4. \A d \in J!Clicks : x6'[d] = IF d = c THEN s ELSE x6[d]
  BY <1>1, <1>3 DEF J!JobShapes
<1>5. x1' = x1 /\ x4' = x4 /\ x5' = x5 /\ x10' = x10 /\ x11' = x11
  BY DEF J!Click, J!Admit, J!Unit, J!Rows
<1>6. x7' = x7 \/ x7' = [x7 EXCEPT ![c] = x1]
  BY DEF J!Click, J!Admit, J!Unit, J!Rows
<1>7. J!Newest \in Nat \cup {None}
  <2>1. x4 \in Seq(J!Clicks) /\ x7 \in [J!Clicks -> 0 .. x1] /\ x1 \in Nat
    BY <1>1 DEF J!JobShapes
  <2>2. x4 # <<>> => x4[Len(x4)] \in J!Clicks
    BY <2>1
  <2> QED
    BY <2>1, <2>2 DEF J!Newest
<1>8. x9' = x9 \/ x9' = [x9 EXCEPT ![c] = J!Newest]
  BY DEF J!Click, J!Admit, J!Unit, J!Rows
<1>9. x3' \in J!Clicks \cup {None}
  BY <1>1 DEF J!Click, J!Admit, J!Unit, J!Rows, J!JobShapes
<1>10. J!JobShapes'
  <2>1. x6' \in [J!Clicks -> J!InHand \cup {"new", "gone", "lost", "refused", "started"}]
    BY <1>1, <1>3 DEF J!JobShapes, J!InHand
  <2>2. x1 \in Nat /\ x7 \in [J!Clicks -> 0 .. x1] /\ x1 \in 0 .. x1
    BY <1>1 DEF J!JobShapes
  <2>3. x7' \in [J!Clicks -> 0 .. x1]
    <3>1. CASE x7' = x7
      BY <2>2, <3>1
    <3>2. CASE x7' = [x7 EXCEPT ![c] = x1]
      BY <2>2, <3>2
    <3> QED
      BY <1>6, <3>1, <3>2
  <2>4. x9' \in [J!Clicks -> Nat \cup {None}]
    BY <1>1, <1>7, <1>8 DEF J!JobShapes
  <2> QED
    BY <1>1, <1>5, <1>9, <2>1, <2>3, <2>4 DEF J!JobShapes
<1>11. J!OneHolds'
  <2>1. J!OneHolds
    BY DEF J!JobsKept
  <2>2. CASE J!Click(c)
    BY <1>1, <2>1, <2>2 DEF J!Click, J!OneHolds, J!Holding, J!JobShapes
  <2>3. CASE J!Admit(c)
    BY <1>1, <2>1, <2>3 DEF J!Admit, J!OneHolds, J!Holding, J!JobShapes, J!Clicks
  <2>4. CASE J!Unit(c)
    <3>1. x3 = c /\ ((s = "rows" /\ x3' = c) \/ (s = "refused" /\ x3' = None))
      BY <1>1, <1>3, <2>1, <2>4 DEF J!Unit, J!OneHolds, J!Holding, J!JobShapes
    <3> QED
      BY <1>4, <2>1, <3>1 DEF J!OneHolds, J!Holding, J!Clicks
  <2>5. CASE J!Rows(c)
    <3>1. x3 = c /\ ((s = "start" /\ x3' = c) \/ (s = "refused" /\ x3' = None))
      BY <1>1, <1>3, <2>1, <2>5 DEF J!Rows, J!OneHolds, J!Holding, J!JobShapes
    <3> QED
      BY <1>4, <2>1, <3>1 DEF J!OneHolds, J!Holding, J!Clicks
  <2> QED
    BY <2>2, <2>3, <2>4, <2>5
<1>12. \A n \in 1 .. Len(x10) : x10[n] # c
  BY <1>2 DEF J!JobsKept, J!FiredWell
<1>13. \A n \in 1 .. Len(x10) : x7'[x10[n]] = x7[x10[n]]
  BY <1>1, <1>6, <1>12 DEF J!JobShapes
<1>14. \A d \in x5' : x6'[d] = x6[d]
  <2>1. \A d \in x5 : d \in J!Clicks /\ \E n \in 1 .. Len(x10) : x10[n] = d
    BY DEF J!JobsKept, J!FiredWell, J!JobShapes
  <2> QED
    BY <1>4, <1>5, <1>12, <2>1
<1>15. \A d \in J!Clicks : x6'[d] = "start" => x9'[d] = J!Newest \/ (x6[d] = "start" /\ x9'[d] = x9[d])
  <2>1. \A d \in J!Clicks : d # c => x6'[d] = x6[d] /\ x9'[d] = x9[d]
    BY <1>1, <1>4, <1>8 DEF J!JobShapes
  <2>2. s = "start" => x9'[c] = J!Newest
    BY <1>1, <1>4 DEF J!Click, J!Admit, J!Unit, J!Rows, J!JobShapes
  <2> QED
    BY <1>4, <2>1, <2>2
<1>16. \A d \in J!Clicks :
         /\ x6[d] = "record" => x6'[d] \in {"record", "started", "gone", "lost"}
         /\ x6[d] \in {"started", "gone", "lost"} => x6'[d] = x6[d]
  BY <1>2, <1>4
<1> QED
  BY <1>5, <1>10, <1>11, <1>13, <1>14, <1>15, <1>16, NothingStarts

\* A click that starts the job read the newest start under the lock it still holds: had
\* all starts been recorded, the cooldown is over since each of them.
LEMMA StartStep ==
  ASSUME J!JobsKept, NEW c \in J!Clicks, J!Start(c), x10' # x10
  PROVE  J!JobsKept'
<1> USE KeysConstants, JobsConstants DEF J!Goes, J!KeepsLock
<1>1. J!JobShapes /\ J!OneHolds /\ x6[c] = "start"
  BY DEF J!JobsKept, J!Start
<1>2. /\ ~J!Blocked(c) /\ x10' = Append(x10, c) /\ x5' = x5 \cup {c} /\ x6' = [x6 EXCEPT ![c] = "record"]
      /\ x1' = x1 /\ x3' = x3 /\ x4' = x4 /\ x7' = x7 /\ x9' = x9 /\ x11' = x11
  BY DEF J!Start
<1>3. \A d \in J!Clicks : x6'[d] = IF d = c THEN "record" ELSE x6[d]
  BY <1>1, <1>2 DEF J!JobShapes
<1>4. J!JobShapes'
  BY <1>1, <1>2 DEF J!JobShapes, J!InHand
<1>5. J!OneHolds'
  BY <1>1, <1>2, <1>3 DEF J!OneHolds, J!Holding
<1>6. /\ Len(x10) \in Nat /\ Len(x10') = Len(x10) + 1 /\ x10'[Len(x10) + 1] = c
      /\ \A n \in 1 .. Len(x10) : x10'[n] = x10[n] /\ x10[n] \in J!Clicks
  BY <1>1, <1>2 DEF J!JobShapes
<1>7. \A n \in 1 .. Len(x10) : x10[n] # c
  BY <1>1 DEF J!JobsKept, J!FiredWell
<1>8. J!FiredWell'
  <2>1. \A n \in 1 .. Len(x10') : x6'[x10'[n]] \in {"record", "started", "gone", "lost"}
    BY <1>3, <1>6, <1>7 DEF J!JobsKept, J!FiredWell
  <2>2. ASSUME NEW d \in x5' PROVE (\E n \in 1 .. Len(x10') : x10'[n] = d) /\ (x6'[d] = "record" \/ d \in x11')
    <3>1. CASE d = c
      BY <1>3, <1>6, <3>1
    <3>2. CASE d # c
      <4>1. d \in x5 /\ d \in J!Clicks
        BY <1>1, <1>2, <3>2 DEF J!JobShapes
      <4>2. PICK n \in 1 .. Len(x10) : x10[n] = d
        BY <4>1 DEF J!JobsKept, J!FiredWell
      <4>3. x6[d] = "record" \/ d \in x11
        BY <4>1 DEF J!JobsKept, J!FiredWell
      <4> QED
        BY <1>2, <1>3, <1>6, <3>2, <4>1, <4>2, <4>3
    <3> QED
      BY <3>1, <3>2
  <2> QED
    BY <2>1, <2>2 DEF J!FiredWell
<1>9. J!AllRecorded => x5 = {} /\ Len(x10) = Len(x4) /\ \A n \in 1 .. Len(x4) : x4[n] = x10[n]
  <2> SUFFICES ASSUME J!AllRecorded PROVE x5 = {} /\ Len(x10) = Len(x4) /\ \A n \in 1 .. Len(x4) : x4[n] = x10[n]
    OBVIOUS
  <2>1. J!RowsAreStarts
    BY DEF J!JobsKept
  <2>2. \A d \in x5 : d \in J!Clicks /\ d \notin x11
    <3> TAKE d \in x5
    <3>1. \E n \in 1 .. Len(x10) : x10[n] = d
      BY DEF J!JobsKept, J!FiredWell
    <3> QED
      BY <1>1, <3>1 DEF J!AllRecorded, J!JobShapes
  <2>3. \A d \in x5 : x3 = d
    BY <1>1, <2>2 DEF J!JobsKept, J!FiredWell, J!OneHolds, J!Holding
  <2>4. x3 = c
    BY <1>1 DEF J!OneHolds, J!Holding
  <2>5. c \notin x5
    BY <1>1, <2>2 DEF J!JobsKept, J!FiredWell
  <2>6. x5 = {}
    BY <2>3, <2>4, <2>5
  <2> QED
    BY <2>1, <2>6 DEF J!RowsAreStarts
<1>10. J!AllRecorded => \A m \in 1 .. Len(x10) : x7[x10[m]] + Cooldown <= x7[c]
  <2> SUFFICES ASSUME J!AllRecorded, NEW m \in 1 .. Len(x10) PROVE x7[x10[m]] + Cooldown <= x7[c]
    OBVIOUS
  <2> DEFINE newest == x10[Len(x10)]
  <2>1. x9[c] = J!Newest /\ x4 \in Seq(J!Clicks)
    BY <1>1 DEF J!JobsKept, J!ReadNewest, J!JobShapes
  <2>2. x4 # <<>> /\ x4[Len(x4)] = newest /\ newest \in J!Clicks
    BY <1>6, <1>9, <2>1
  <2>3. x9[c] = x7[newest] /\ x9[c] \in Nat
    BY <1>1, <2>1, <2>2 DEF J!Newest, J!JobShapes
  <2>4. x7[newest] + Cooldown <= x7[c]
    BY <1>1, <1>2, <2>3 DEF J!Blocked, J!JobShapes
  <2>5. m = Len(x10) \/ (m < Len(x10) /\ x7[newest] - x7[x10[m]] >= Cooldown)
    <3> SUFFICES ASSUME m < Len(x10), x7[newest] - x7[x10[m]] < Cooldown PROVE FALSE
      BY <1>1, <1>6, <2>2 DEF J!JobShapes
    <3>1. \E k \in 1 .. Len(x10) - 1 : x10[k] \in x11
      BY <1>6 DEF J!JobsKept, J!StartsAreSpaced
    <3> QED
      BY <1>6, <3>1 DEF J!AllRecorded
  <2>6. x7[x10[m]] \in Nat /\ x7[c] \in Nat /\ x7[newest] \in Nat
    BY <1>1, <1>6, <2>2 DEF J!JobShapes
  <2> QED
    BY <2>4, <2>5, <2>6
<1>11. J!StartsAreSpaced'
  <2>1. \A n \in 1 .. Len(x10') : x6'[x10'[n]] # "refused"
    BY <1>8 DEF J!FiredWell
  <2>2. ASSUME NEW n \in 1 .. Len(x10'), NEW m \in 1 .. Len(x10'), m < n,
               x7[x10'[n]] - x7[x10'[m]] < Cooldown
        PROVE  \E k \in 1 .. n - 1 : x10'[k] \in x11
    <3>1. CASE n <= Len(x10)
      <4>1. \E k \in 1 .. n - 1 : x10[k] \in x11
        BY <1>6, <2>2, <3>1 DEF J!JobsKept, J!StartsAreSpaced
      <4> QED
        BY <1>6, <3>1, <4>1
    <3>2. CASE n = Len(x10) + 1
      <4>1. m \in 1 .. Len(x10) /\ x7[c] - x7[x10[m]] < Cooldown
        BY <1>6, <2>2, <3>2
      <4>2. ~J!AllRecorded
        BY <1>1, <1>6, <1>10, <4>1 DEF J!JobShapes
      <4> QED
        BY <1>6, <3>2, <4>2 DEF J!AllRecorded
    <3> QED
      BY <1>6, <3>1, <3>2
  <2> QED
    BY <1>2, <2>1, <2>2 DEF J!StartsAreSpaced
<1>12. J!AllRecorded' => J!AllRecorded
  BY <1>2, <1>6 DEF J!AllRecorded
<1>13. J!AllRecorded' => J!RowsAreStarts'
  BY <1>2, <1>6, <1>9, <1>12 DEF J!RowsAreStarts
<1>14. J!AllRecorded' => J!ReadNewest'
  BY <1>1, <1>2, <1>3, <1>12 DEF J!ReadNewest, J!Newest, J!JobsKept
<1> QED
  BY <1>4, <1>5, <1>8, <1>11, <1>13, <1>14 DEF J!JobsKept

\* The thread that records: as long as no start is unrecorded, it is the last start's.
LEMMA RecordStep ==
  ASSUME J!JobsKept, NEW c \in J!Clicks, J!Record(c)
  PROVE  J!JobsKept'
<1> USE KeysConstants DEF J!system, J!click
<1>1. J!JobShapes /\ J!OneHolds /\ J!FiredWell /\ J!StartsAreSpaced /\ c \in x5
  BY DEF J!JobsKept, J!Record
<1>2. /\ x5' = x5 \ {c} /\ x10' = x10 /\ x11 \subseteq x11' /\ x11' \subseteq J!Clicks
      /\ x1' = x1 /\ x3' = x3 /\ x6' = x6 /\ x7' = x7 /\ x9' = x9
      /\ (x4' = Append(x4, c) /\ x11' = x11) \/ (x4' = x4 /\ c \in x11')
  BY <1>1 DEF J!Record, J!JobShapes
<1>3. J!JobShapes' /\ J!OneHolds'
  <2>1. x4 \in Seq(J!Clicks) /\ (x4' = x4 \/ x4' = Append(x4, c)) => x4' \in Seq(J!Clicks)
    OBVIOUS
  <2>2. x4' \in Seq(J!Clicks)
    BY <1>1, <1>2, <2>1, Zenon DEF J!JobShapes
  <2> QED
    BY <1>1, <1>2, <2>2 DEF J!JobShapes, J!OneHolds
<1>4. J!FiredWell'
  BY <1>1, <1>2 DEF J!FiredWell
<1>5. J!StartsAreSpaced'
  BY <1>1, <1>2 DEF J!StartsAreSpaced
<1>6. PICK n \in 1 .. Len(x10) : x10[n] = c
  BY <1>1 DEF J!FiredWell
<1>7. SUFFICES ASSUME J!AllRecorded' PROVE J!RowsAreStarts' /\ J!ReadNewest'
  BY <1>3, <1>4, <1>5 DEF J!JobsKept
<1>8. J!AllRecorded /\ c \notin x11'
  BY <1>2, <1>6, <1>7 DEF J!AllRecorded
<1>9. x4' = Append(x4, c) /\ J!RowsAreStarts /\ x6[c] = "record"
  BY <1>1, <1>2, <1>8 DEF J!JobsKept, J!FiredWell
<1>10. x5 = {c} /\ x10[Len(x10)] = c /\ Len(x10) = Len(x4) + 1
  BY <1>1, <1>9 DEF J!RowsAreStarts
<1>11. J!RowsAreStarts'
  <2>1. /\ Len(x4) \in Nat /\ Len(x4') = Len(x4) + 1 /\ x4'[Len(x4) + 1] = c
        /\ \A i \in 1 .. Len(x4) : x4'[i] = x4[i]
    BY <1>1, <1>9 DEF J!JobShapes
  <2>2. x5' = {}
    BY <1>2, <1>10
  <2> QED
    BY <1>2, <1>9, <1>10, <2>1, <2>2 DEF J!RowsAreStarts
<1>12. J!ReadNewest'
  BY <1>1, <1>2, <1>9 DEF J!ReadNewest, J!OneHolds, J!Holding
<1> QED
  BY <1>11, <1>12

\* The ends of a click, and of the service.
LEMMA EndStep ==
  ASSUME J!JobsKept,
         \/ \E c \in J!Clicks : J!Finish(c) \/ J!Leave(c) \/ (J!Start(c) /\ x10' = x10)
         \/ J!Restart
  PROVE  J!JobsKept'
<1> USE KeysConstants DEF J!system, J!Goes, J!Answers, J!Releases
<1>1. J!JobShapes /\ J!OneHolds /\ J!FiredWell
  BY DEF J!JobsKept
<1>2. \A d \in x5 : \E n \in 1 .. Len(x10) : x10[n] = d
  BY <1>1 DEF J!FiredWell
<1>3. ASSUME NEW c \in J!Clicks, J!Finish(c) \/ J!Leave(c) \/ (J!Start(c) /\ x10' = x10) PROVE J!JobsKept'
  <2>1. J!Start(c) /\ x10' = x10 => J!Answers(c, "refused") /\ UNCHANGED <<x1, x4, x5, x7, x9, x10, x11>>
    <3> SUFFICES ASSUME J!Start(c), x10' = x10
                 PROVE  J!Answers(c, "refused") /\ UNCHANGED <<x1, x4, x5, x7, x9, x10, x11>>
      OBVIOUS
    <3>1. Append(x10, c) # x10
      BY <1>1 DEF J!JobShapes
    <3> QED
      BY <3>1 DEF J!Start
  <2>2. /\ x1' = x1 /\ x4' = x4 /\ x5' = x5 /\ x7' = x7 /\ x9' = x9 /\ x10' = x10
        /\ x11' = x11 \/ (x11' = x11 \cup ({c} \cap x5) /\ J!Leave(c))
    BY <1>3, <2>1 DEF J!Finish, J!Leave
  <2>3. PICK s \in {"started", "gone", "refused"} : x6' = [x6 EXCEPT ![c] = s] /\ J!Releases(c)
    BY <1>3, <2>1 DEF J!Finish, J!Leave
  <2>4. \A d \in J!Clicks : x6'[d] = IF d = c THEN s ELSE x6[d]
    BY <1>1, <2>3 DEF J!JobShapes
  <2>5. x6[c] \in J!InHand
    BY <1>3 DEF J!Finish, J!Leave, J!Start, J!InHand
  <2>6. x6[c] = "record" => s \in {"started", "gone"}
    BY <1>1, <1>3, <2>1, <2>3 DEF J!Finish, J!Leave, J!Start, J!JobShapes
  <2>7. J!JobShapes'
    BY <1>1, <2>2, <2>3 DEF J!JobShapes, J!InHand
  <2>8. J!OneHolds'
    BY <1>1, <2>3, <2>4 DEF J!OneHolds, J!Holding, J!Clicks
  <2>9. \A d \in x5' : x6'[d] = x6[d] \/ d \in x11'
    <3>1. x5 \subseteq J!Clicks /\ (J!Finish(c) => c \notin x5) /\ (J!Leave(c) => x11' = x11 \cup ({c} \cap x5))
      BY <1>1 DEF J!JobShapes, J!Finish, J!Leave
    <3>2. J!Start(c) => c \notin x5 \/ c \in x11
      BY <1>1 DEF J!FiredWell, J!Start
    <3> QED
      BY <1>3, <2>2, <2>4, <3>1, <3>2
  <2>10. \A d \in J!Clicks :
           /\ x6[d] = "record" => x6'[d] \in {"record", "started", "gone", "lost"}
           /\ x6[d] \in {"started", "gone", "lost"} => x6'[d] = x6[d]
           /\ x6'[d] = "start" => x6[d] = "start"
    BY <2>4, <2>5, <2>6 DEF J!InHand
  <2> QED
    BY <2>2, <2>7, <2>8, <2>9, <2>10, NothingStarts
<1>4. CASE J!Restart
  <2>1. /\ x1' = x1 /\ x3' = None /\ x4' = x4 /\ x5' = {} /\ x7' = x7 /\ x9' = x9 /\ x10' = x10
        /\ x11' = x11 \cup x5
    BY <1>4 DEF J!Restart
  <2>2. \A d \in J!Clicks : x6'[d] = IF x6[d] \in J!InHand THEN "lost" ELSE x6[d]
    BY <1>4 DEF J!Restart
  <2>3. x6' \in [J!Clicks -> J!InHand \cup {"new", "gone", "lost", "refused", "started"}]
    BY <1>1, <1>4 DEF J!Restart, J!JobShapes
  <2>4. J!JobShapes'
    BY <1>1, <2>1, <2>3 DEF J!JobShapes
  <2>5. J!OneHolds'
    BY <1>1, <2>1, <2>2 DEF J!OneHolds, J!Holding, J!InHand, J!JobShapes, J!Clicks
  <2>6. x5 # {} => ~J!AllRecorded'
    BY <1>2, <2>1 DEF J!AllRecorded
  <2>7. \A d \in J!Clicks :
           /\ x6[d] = "record" => x6'[d] \in {"record", "started", "gone", "lost"}
           /\ x6[d] \in {"started", "gone", "lost"} => x6'[d] = x6[d]
           /\ x6'[d] # "start"
    BY <2>2 DEF J!InHand
  <2> QED
    BY <2>1, <2>4, <2>5, <2>6, <2>7, NothingStarts
<1> QED
  BY <1>3, <1>4

LEMMA JobsNext == J!JobsKept /\ [J!Next]_J!vars => J!JobsKept'
<1> SUFFICES ASSUME J!JobsKept, [J!Next]_J!vars PROVE J!JobsKept'
  OBVIOUS
<1>1. ASSUME NEW c \in J!Clicks, J!Handler(c) \/ J!Leave(c) PROVE J!JobsKept'
  BY <1>1, ReadingStep, StartStep, RecordStep, EndStep DEF J!Handler
<1>2. CASE J!Restart
  BY <1>2, EndStep
<1>3. CASE J!Systemd \/ J!Tick \/ UNCHANGED J!vars
  <2>1. UNCHANGED <<x3, x4, x5, x6, x7, x8, x9, x10, x11>> /\ x1' \in Nat /\ x1 <= x1'
    BY <1>3 DEF J!Systemd, J!Tick, J!vars, J!system, J!click, J!JobsKept, J!JobShapes
  <2>2. J!JobShapes'
    BY <2>1 DEF J!JobsKept, J!JobShapes
  <2>3. J!OneHolds'
    BY <2>1 DEF J!JobsKept, J!OneHolds
  <2> QED
    BY <2>1, <2>2, <2>3, NothingStarts
<1> QED
  BY <1>1, <1>2, <1>3 DEF J!Next

\* StartsAreSpaced: at most one start in a cooldown, unless an earlier one went
\* unrecorded, and no start is told as a refusal; for any number of clicks, any cooldown,
\* and however often browsers leave and the service restarts (run_job).
THEOREM OneStartInItsCooldown == J!Spec => []StartsAreSpaced
<1>1. J!JobsKept => StartsAreSpaced
  BY DEF J!JobsKept, StartsAreSpaced
<1> QED
  BY <1>1, JobsInit, JobsNext, PTL DEF J!Spec

---------------------------------------------------------------------------
(* The listings of what was sold.                                           *)
LEMMA SaleInit == D!Init => D!SaleKept
<1> SUFFICES ASSUME D!Init PROVE D!SaleKept
  OBVIOUS
<1> USE DEF D!Init
<1>1. x17 = [s \in 1 .. MaxSales |-> None]
  OBVIOUS
<1>2. x17 = [s \in 1 .. MaxSales |-> x17[s]] /\ D!ToldTheTruth
  BY <1>1 DEF D!ToldTheTruth
<1> QED
  BY <1>2 DEF D!SaleKept

\* A report is true if what it names as adjusted was carried out, and every order it
\* was to see is adjusted or of an item it names for review.
LEMMA TellsStep ==
  ASSUME D!SaleKept, NEW done, NEW items, D!Tells(done, items), x3' = x3, x4' = x4,
         \A a \in done : [sale |-> x4, order |-> a.order, qty |-> a.qty] \in x3,
         \A i \in D!Sold \ items : \A o \in D!Ours(x16, i) : \E a \in done : a.order = o
  PROVE  D!SaleKept'
<1> DEFINE r == [gave |-> D!Sold, adjusted |-> done, review |-> items, there |-> x16]
<1>1. x17' = [x17 EXCEPT ![x4] = r]
  BY DEF D!Tells
<1> HIDE DEF r
<1>2. x17 = [s \in 1 .. MaxSales |-> x17[s]]
  BY DEF D!SaleKept
<1>3. \A s \in 1 .. MaxSales : x17'[s] = IF s = x4 THEN r ELSE x17[s]
  BY <1>1, <1>2
<1>4. x17' = [s \in 1 .. MaxSales |-> x17'[s]]
  BY <1>1, <1>2
<1>5. r.gave = D!Sold /\ r.adjusted = done /\ r.review = items /\ r.there = x16
  BY DEF r
<1>6. D!ToldTheTruth'
  <2> SUFFICES ASSUME NEW s \in 1 .. MaxSales, x17'[s] # None
               PROVE  /\ \A a \in x17'[s].adjusted : [sale |-> s, order |-> a.order, qty |-> a.qty] \in x3
                      /\ \A i \in x17'[s].gave \ x17'[s].review : \A o \in D!Ours(x17'[s].there, i) :
                           \E a \in x17'[s].adjusted : a.order = o
    BY DEF D!ToldTheTruth, D!Ours
  <2>1. CASE s = x4
    <3>1. x17'[s] = r
      BY <1>3, <2>1
    <3> QED
      BY <1>5, <2>1, <3>1
  <2>2. CASE s # x4
    <3>1. x17'[s] = x17[s]
      BY <1>3, <2>2
    <3> QED
      BY <3>1 DEF D!SaleKept, D!ToldTheTruth
  <2> QED
    BY <2>1, <2>2
<1>7. x11' = "idle" /\ x14' = {} /\ x15' = {} /\ x16' = x12'
  BY DEF D!Tells, D!Quiet
<1> QED
  BY <1>4, <1>6, <1>7 DEF D!SaleKept

\* Nothing is told: what was told stays true, for the market carries out no less.
LEMMA StillTrue ==
  ASSUME D!SaleKept, x17' = x17, x3 \subseteq x3'
  PROVE  x17' = [s \in 1 .. MaxSales |-> x17'[s]] /\ D!ToldTheTruth'
<1>1. x17' = [s \in 1 .. MaxSales |-> x17'[s]]
  BY DEF D!SaleKept
<1>2. D!ToldTheTruth'
  BY DEF D!SaleKept, D!ToldTheTruth, D!Ours
<1> QED
  BY <1>1, <1>2

\* What happens beside the tailer, and a sale it is offered.
LEMMA BesideStep ==
  ASSUME D!SaleKept, D!Website \/ D!OtherCommand \/ D!Account \/ D!Arrives \/ UNCHANGED D!vars
  PROVE  D!SaleKept'
<1>1. /\ UNCHANGED <<x4, x5, x11, x12, x13, x14, x15, x16, x17>>
      /\ x3 \subseteq x3'
  BY DEF D!Website, D!OtherCommand, D!Account, D!Arrives, D!vars, D!book, D!row, D!rights, D!tailer, D!Carry
<1>2. D!OnTheWay => D!OnTheWay'
  BY <1>1 DEF D!OnTheWay, D!Sold, D!Ours
<1> QED
  BY <1>1, <1>2, StillTrue DEF D!SaleKept

LEMMA SellsStep ==
  ASSUME D!SaleKept, D!Sells \/ D!Restart
  PROVE  D!SaleKept'
<1>1. CASE D!Sells
  <2>1. /\ UNCHANGED <<x3, x12, x14, x15, x16, x17>>
        /\ x5 = None /\ x5' # None /\ x11' = "offer"
    BY <1>1, SoldConstants DEF D!Sells, D!book
  <2> QED
    BY <2>1, StillTrue DEF D!SaleKept
<1>2. CASE D!Restart
  <2>1. UNCHANGED <<x3, x17>> /\ x11' = "idle" /\ x14' = {} /\ x15' = {} /\ x16' = x12'
    BY <1>2 DEF D!Restart, D!Quiet, D!book
  <2> QED
    BY <2>1, StillTrue DEF D!SaleKept
<1> QED
  BY <1>1, <1>2

LEMMA BeforeSendStep ==
  ASSUME D!SaleKept, D!Record \/ D!Claim
  PROVE  D!SaleKept'
<1>1. x3' = x3 /\ x4' = x4 /\ x11 # "send" /\ x14 = {} /\ x15 = {}
  BY DEF D!Record, D!Claim, D!book, D!SaleKept
<1>2. CASE D!Tells({}, D!Sold)
  BY <1>1, <1>2, TellsStep
<1>3. CASE x17' = x17 /\ D!Quiet
  BY <1>1, <1>3, StillTrue DEF D!SaleKept, D!Quiet
<1>4. CASE /\ x11' \in {"offer", "claim", "list"} /\ x5 # None
           /\ UNCHANGED <<x5, x12, x14, x15, x16, x17>>
  BY <1>1, <1>4, StillTrue DEF D!SaleKept
<1>5. x11 \in {"offer", "claim"} /\ x5 # None
  BY DEF D!Record, D!Claim, D!SaleKept
<1> QED
  BY <1>2, <1>3, <1>4, <1>5 DEF D!Record, D!Claim, D!tailer

\* The one order of an item that was given is to be adjusted; an item with more is for
\* review, and so is one the log does not identify.
LEMMA ListStep ==
  ASSUME D!SaleKept, D!List
  PROVE  D!SaleKept'
<1>1. x3' = x3 /\ x4' = x4 /\ x14 = {} /\ x5 # None
  BY DEF D!List, D!book, D!SaleKept
<1>2. CASE D!Tells({}, D!Sold)
  BY <1>1, <1>2, TellsStep
<1>3. CASE ~D!Tells({}, D!Sold)
  <2>1. PICK orders \in {[o \in SoldOrders |-> IF o \in Odd THEN None ELSE x1[o]], D!Nothing} :
          /\ x12' = orders
          /\ x16' = [o \in SoldOrders |-> IF orders[o] = None THEN None ELSE x1[o]]
          /\ x13' = D!Planned(orders) /\ x15' = D!Unclear(orders) /\ x11' = "send"
          /\ UNCHANGED <<x5, x14, x17>>
    BY <1>3 DEF D!List
  <2>2. x16' = x12'
    BY <2>1 DEF D!Nothing
  <2>3. ASSUME NEW i \in D!Sold \ D!Unclear(orders), NEW o \in D!Ours(orders, i)
        PROVE  o \in D!Planned(orders)
    <3>1. D!Identified(i) /\ \A p \in D!Ours(orders, i) : p = o
      BY <2>3 DEF D!Unclear
    <3>2. o \in SoldOrders
      BY <2>3 DEF D!Ours
    <3> QED
      BY <2>3, <3>1, <3>2 DEF D!Planned
  <2>4. D!OnTheWay'
    BY <1>1, <2>1, <2>2, <2>3 DEF D!OnTheWay, D!Sold, D!Ours
  <2> QED
    BY <1>1, <2>1, <2>2, <2>4, StillTrue DEF D!SaleKept
<1> QED
  BY <1>2, <1>3

\* An order leaves the work to be told as adjusted, or its item for review.
LEMMA SendStep ==
  ASSUME D!SaleKept, NEW o \in SoldOrders, D!Send(o)
  PROVE  D!SaleKept'
<1> DEFINE change == [order |-> o, qty |-> D!Left(o)]
           done == [sale |-> x4, order |-> o, qty |-> D!Left(o)]
<1>1. /\ UNCHANGED <<x4, x5, x11, x12, x16, x17>> /\ x11 = "send" /\ x16 = x12 /\ D!OnTheWay
      /\ x13' = x13 \ {o}
  BY DEF D!Send, D!Answered, D!SaleKept
<1>2. \/ x14' = x14 \cup {change} /\ x15' = x15 /\ x3' = x3 \cup {done}
      \/ x14' = x14 /\ x15' = x15 \cup {x12[o].item} /\ x3 \subseteq x3'
  BY DEF D!Send, D!Answered, D!MutationAccepted, D!Carry
<1>3. change.order = o /\ change.qty = D!Left(o)
  OBVIOUS
<1> HIDE DEF change
<1>4. \A a \in x14' : [sale |-> x4, order |-> a.order, qty |-> a.qty] \in x3'
  BY <1>1, <1>2, <1>3 DEF D!OnTheWay
<1>5. ASSUME NEW i \in D!Sold \ x15', NEW p \in D!Ours(x16, i)
      PROVE  p \in x13' \/ \E a \in x14' : a.order = p
  <2>1. i \in D!Sold \ x15
    BY <1>2, <1>5
  <2>2. p \in x13 \/ \E a \in x14 : a.order = p
    BY <1>1, <1>5, <2>1 DEF D!OnTheWay
  <2>3. p = o => x14' = x14 \cup {change}
    BY <1>1, <1>2, <1>5 DEF D!Ours
  <2> QED
    BY <1>1, <1>2, <1>3, <2>2, <2>3
<1>6. D!OnTheWay'
  BY <1>1, <1>4, <1>5 DEF D!OnTheWay, D!Sold, D!Ours
<1>7. x3 \subseteq x3'
  BY <1>2
<1> QED
  BY <1>1, <1>6, <1>7, StillTrue DEF D!SaleKept

LEMMA FinishStep ==
  ASSUME D!SaleKept, D!Finish
  PROVE  D!SaleKept'
<1>1. D!Tells(x14, x15) /\ x3' = x3 /\ x4' = x4 /\ x13 = {} /\ D!OnTheWay
  BY DEF D!Finish, D!book, D!SaleKept
<1> QED
  BY <1>1, TellsStep DEF D!OnTheWay

LEMMA SaleNext == D!SaleKept /\ [D!Next]_D!vars => D!SaleKept'
  BY BesideStep, SellsStep, BeforeSendStep, ListStep, SendStep, FinishStep DEF D!Next, D!Tailer

\* ToldTheTruth: what the user is told of a sale is true, for any orders, items, sales
\* and faults, and whatever the website and other commands change meanwhile (handle_trade).
THEOREM SalesAreToldAsTheyWere == D!Spec => []ToldTheTruth
<1>1. D!SaleKept => ToldTheTruth
  BY DEF D!SaleKept, ToldTheTruth
<1> QED
  BY <1>1, SaleInit, SaleNext, PTL DEF D!Spec

---------------------------------------------------------------------------
(* The reminders.                                                           *)
LEMMA ReminderInit == R!Init => R!ReminderKept
<1> SUFFICES ASSUME R!Init PROVE R!ReminderKept
  OBVIOUS
<1> USE RemindersConstants DEF R!Init
<1>1. R!ReminderShapes
  BY DEF R!ReminderShapes
<1>2. R!Remembered
  BY DEF R!Remembered
<1>3. R!InTime
  BY DEF R!InTime
<1>4. R!RemindedOnce
  BY DEF R!RemindedOnce
<1> QED
  BY <1>1, <1>2, <1>3, <1>4 DEF R!ReminderKept

LEMMA CheckpointsAre == R!Checkpoints = 0 .. MaxMessages /\ R!Visit = 0 /\ R!Forever = ReminderTime + 1
  BY DEF R!Checkpoints, R!Visit, R!Forever

\* The candidate that is tried next is one of the round's.
LEMMA FirstIsOne ==
  ASSUME R!ReminderShapes, x8 # {}
  PROVE  R!First \in x8
<1> DEFINE T == {n.key : n \in x8}
<1>1. T # {} /\ T \subseteq Nat
  BY CheckpointsAre, RemindersConstants DEF R!ReminderShapes, R!Candidates
<1>2. PICK m \in T : \A k \in T : m <= k
  BY <1>1, LeastOf
<1>3. PICK n \in x8 : n.key = m
  BY <1>2
<1>4. \A o \in x8 : n.key <= o.key
  BY <1>2, <1>3
<1> QED
  BY <1>4 DEF R!First

\* The checkpoint of a candidate is there still if it was ever told: what is forgotten
\* was so when its visit was over, and this one's is not.
LEMMA NotForgotten ==
  ASSUME R!ReminderKept, NEW n \in x8, x5[n.key] = None
  PROVE  x9[n.key] = <<>>
<1>1. n.key \in R!Checkpoints /\ n.at \in Nat /\ x1 \in Nat /\ x2 \in Nat /\ x4 \in Nat
  BY DEF R!ReminderKept, R!ReminderShapes, R!Candidates
<1>2. SUFFICES ASSUME x9[n.key] # <<>> PROVE FALSE
  OBVIOUS
<1>3. n.key = R!Visit /\ x2 + x4 < x1
  BY <1>1, <1>2 DEF R!ReminderKept, R!Remembered
<1>4. x1 <= n.at + 1 /\ n.at < x2
  BY <1>3 DEF R!ReminderKept, R!InTime
<1> QED
  BY <1>1, <1>3, <1>4

\* A phase is told only if it is later than the one that is checkpointed.
LEMMA InsertStep ==
  ASSUME R!ReminderKept, NEW n \in x8, R!MayTell(n), R!Insert(n), UNCHANGED <<x1, x2, x3, x4, x6>>,
         x8' \subseteq x8
  PROVE  R!ReminderKept'
<1> USE RemindersConstants
<1> DEFINE c == [stage |-> n.stage, expires |-> n.expires]
<1>1. /\ n.key \in R!Checkpoints /\ n.stage \in 1 .. 3 /\ n.expires \in Nat
      /\ c \in [stage : 1 .. 3, expires : Nat] /\ c # None /\ c.stage = n.stage /\ c.expires = n.expires
  BY DEF R!ReminderKept, R!ReminderShapes, R!Candidates
<1>2. x5' = [x5 EXCEPT ![n.key] = c]
  BY DEF R!Insert
<1> HIDE DEF c
<1>3. \A k \in R!Checkpoints : x5'[k] = IF k = n.key THEN c ELSE x5[k]
  BY <1>2 DEF R!ReminderKept, R!ReminderShapes
<1>4. x9 \in [R!Checkpoints -> Seq(1 .. 3)]
  BY DEF R!ReminderKept, R!ReminderShapes
<1>5. x9' = x9 \/ x9' = [x9 EXCEPT ![n.key] = Append(x9[n.key], n.stage)]
  BY DEF R!Insert
<1>6. x9' \in [R!Checkpoints -> Seq(1 .. 3)]
  <2>1. Append(x9[n.key], n.stage) \in Seq(1 .. 3)
    BY <1>1, <1>4
  <2> QED
    BY <1>4, <1>5, <2>1
<1>7. \A k \in R!Checkpoints : k # n.key => x9'[k] = x9[k]
  BY <1>4, <1>5
<1>8. R!ReminderShapes'
  BY <1>1, <1>2, <1>6 DEF R!ReminderKept, R!ReminderShapes
<1>9. \A i \in 1 .. Len(x9[n.key]) : x9[n.key][i] \in 1 .. 3 /\ x9[n.key][i] < n.stage
  <2> TAKE i \in 1 .. Len(x9[n.key])
  <2>1. x9[n.key] \in Seq(1 .. 3)
    BY <1>1, <1>4
  <2>2. x9[n.key] # <<>> /\ x9[n.key][i] \in 1 .. 3
    BY <2>1
  <2>3. x5[n.key] # None
    BY <2>2, NotForgotten
  <2>4. x5[n.key].stage < n.stage /\ x5[n.key].stage \in 1 .. 3
    BY <1>1, <2>3 DEF R!MayTell, R!ReminderKept, R!ReminderShapes
  <2>5. x9[n.key][i] <= x5[n.key].stage
    BY <1>1, <2>3 DEF R!ReminderKept, R!Remembered, R!UpToStage
  <2> DEFINE a == x9[n.key][i]
             b == x5[n.key].stage
             d == n.stage
  <2>6. a \in 1 .. 3 /\ b \in 1 .. 3 /\ d \in 1 .. 3 /\ a <= b /\ b < d
    BY <1>1, <2>2, <2>4, <2>5
  <2> HIDE DEF a, b, d
  <2>7. a \in 1 .. 3 /\ a < d
    BY <2>6
  <2> QED
    BY <2>7 DEF a, d
<1>10. /\ \A i \in 1 .. Len(x9'[n.key]) : x9'[n.key][i] <= n.stage
       /\ \A i, j \in 1 .. Len(x9'[n.key]) : i < j => x9'[n.key][i] < x9'[n.key][j]
  <2>1. x9[n.key] \in Seq(1 .. 3)
    BY <1>1, <1>4
  <2>2. \A i, j \in 1 .. Len(x9[n.key]) : i < j => x9[n.key][i] < x9[n.key][j]
    BY <1>1 DEF R!ReminderKept, R!RemindedOnce
  <2>0. n.stage \in Nat /\ Len(x9[n.key]) \in Nat
    BY <1>1, <2>1
  <2>5. \A i \in 1 .. Len(x9[n.key]) : x9[n.key][i] <= n.stage
    <3> TAKE i \in 1 .. Len(x9[n.key])
    <3> DEFINE a == x9[n.key][i]
               d == n.stage
    <3>1. a \in 1 .. 3 /\ d \in Nat /\ a < d
      BY <1>9, <2>0
    <3> HIDE DEF a, d
    <3>2. a <= d
      BY <3>1
    <3> QED
      BY <3>2 DEF a, d
  <2>3. CASE x9' = x9
    <3>1. \A i \in 1 .. Len(x9[n.key]) : x9[n.key][i] <= n.stage
      BY <2>5
    <3> QED
      BY <2>2, <2>3, <3>1
  <2>4. CASE x9' = [x9 EXCEPT ![n.key] = Append(x9[n.key], n.stage)]
    <3>1. x9'[n.key] = Append(x9[n.key], n.stage)
      BY <1>1, <1>4, <2>4
    <3>2. /\ Len(x9'[n.key]) = Len(x9[n.key]) + 1 /\ x9'[n.key][Len(x9[n.key]) + 1] = n.stage
          /\ \A i \in 1 .. Len(x9[n.key]) : x9'[n.key][i] = x9[n.key][i]
      BY <1>1, <2>1, <3>1
    <3>3. \A i \in 1 .. Len(x9'[n.key]) : i \in 1 .. Len(x9[n.key]) \/ (i = Len(x9[n.key]) + 1 /\ x9'[n.key][i] = n.stage)
      BY <2>0, <3>2
    <3>4. ASSUME NEW i \in 1 .. Len(x9'[n.key]) PROVE x9'[n.key][i] <= n.stage
      <4>1. CASE i \in 1 .. Len(x9[n.key])
        BY <2>5, <3>2, <4>1
      <4>2. CASE i = Len(x9[n.key]) + 1 /\ x9'[n.key][i] = n.stage
        BY <2>0, <4>2
      <4> QED
        BY <3>3, <4>1, <4>2
    <3>5. ASSUME NEW i \in 1 .. Len(x9'[n.key]), NEW j \in 1 .. Len(x9'[n.key]), i < j
          PROVE  x9'[n.key][i] < x9'[n.key][j]
      <4>1. i \in 1 .. Len(x9[n.key])
        BY <2>0, <3>2, <3>5
      <4>2. CASE j \in 1 .. Len(x9[n.key])
        BY <2>2, <3>2, <3>5, <4>1, <4>2
      <4>3. CASE j = Len(x9[n.key]) + 1
        BY <1>9, <3>2, <4>1, <4>3
      <4> QED
        BY <3>3, <4>2, <4>3
    <3> QED
      BY <3>4, <3>5
  <2> QED
    BY <1>5, <2>3, <2>4
<1>11. R!RemindedOnce'
  BY <1>7, <1>10 DEF R!ReminderKept, R!RemindedOnce
<1>12. R!Outlasts(n.key, n.expires)
  BY DEF R!ReminderKept, R!InTime
<1>13. R!Remembered'
  <2> SUFFICES ASSUME NEW k \in R!Checkpoints
               PROVE  /\ x5'[k] # None => R!UpToStage(k)' /\ R!Outlasts(k, x5'[k].expires)
                      /\ x5'[k] = None /\ x9'[k] # <<>> => k = R!Visit /\ x2 + x4 < x1
    BY DEF R!Remembered, R!Outlasts
  <2>1. CASE k = n.key
    BY <1>1, <1>3, <1>10, <1>12, <2>1 DEF R!UpToStage
  <2>2. CASE k # n.key
    BY <1>3, <1>7, <2>2 DEF R!ReminderKept, R!Remembered, R!UpToStage
  <2> QED
    BY <2>1, <2>2
<1>14. R!InTime'
  BY DEF R!ReminderKept, R!InTime, R!Outlasts
<1> QED
  BY <1>8, <1>11, <1>13, <1>14 DEF R!ReminderKept

\* Nothing is told, and no checkpoint made.
LEMMA NothingTold ==
  ASSUME R!ReminderKept, UNCHANGED <<x1, x2, x4, x5, x9>>, x3' \subseteq 1 .. MaxMessages, x6' \in BOOLEAN,
         x8' \subseteq x8
  PROVE  R!ReminderKept'
<1>1. R!ReminderShapes'
  BY DEF R!ReminderKept, R!ReminderShapes
<1>2. R!Remembered' /\ R!RemindedOnce'
  BY DEF R!ReminderKept, R!Remembered, R!UpToStage, R!Outlasts, R!RemindedOnce
<1>3. R!InTime'
  BY DEF R!ReminderKept, R!InTime, R!Outlasts
<1> QED
  BY <1>1, <1>2, <1>3 DEF R!ReminderKept

LEMMA TriesStep ==
  ASSUME R!ReminderKept, R!Announce \/ R!Remind
  PROVE  R!ReminderKept'
<1>1. R!First \in x8 /\ UNCHANGED <<x1, x2, x3, x4, x6>> /\ x8' \subseteq x8
  BY FirstIsOne DEF R!ReminderKept, R!Announce, R!Remind, R!world
<1>2. CASE R!MayTell(R!First) /\ R!Insert(R!First)
  BY <1>1, <1>2, InsertStep
<1>3. CASE UNCHANGED <<x5, x9>>
  BY <1>1, <1>3, NothingTold DEF R!ReminderKept, R!ReminderShapes
<1> QED
  BY <1>2, <1>3 DEF R!Announce, R!Remind

\* A round's candidates: announcements are kept for ever, a phase while the visit lasts.
LEMMA CandidatesStep ==
  ASSUME R!ReminderKept, R!Round \/ R!Evaluate
  PROVE  R!ReminderKept'
<1> USE RemindersConstants
<1>1. /\ UNCHANGED <<x1, x2, x3, x4, x5, x6, x9>>
      /\ x1 \in Nat /\ x2 \in Nat /\ x4 \in Nat /\ x1 <= ReminderTime /\ x3 \subseteq 1 .. MaxMessages
  BY DEF R!Round, R!Evaluate, R!world, R!ReminderKept, R!ReminderShapes
<1>2. /\ R!Phase \in {0, 1, 2, 3}
      /\ R!Phase # 0 => x1 < x2
  <2>1. Arrival \in Nat /\ Hour \in Nat
    OBVIOUS
  <2> QED
    BY <1>1, <2>1 DEF R!Phase
<1>3. ASSUME NEW n \in x8'
      PROVE  /\ n \in R!Candidates /\ n.at = x1 /\ R!Outlasts(n.key, n.expires)
             /\ n.key = R!Visit => n.at < x2
  <2>1. CASE R!Round
    <3>1. PICK m \in x3 : n = [key |-> m, stage |-> 1, expires |-> R!Forever, at |-> x1]
      BY <1>3, <2>1 DEF R!Round, R!Announcements, R!Candidate
    <3>2. m \in 1 .. MaxMessages
      BY <1>1
    <3> QED
      BY <1>1, <3>1, <3>2, CheckpointsAre DEF R!Candidates, R!Outlasts
  <2>2. CASE R!Evaluate
    <3>1. R!Phase # 0 /\ n = [key |-> R!Visit, stage |-> R!Phase, expires |-> x2 + OneDay, at |-> x1]
      BY <1>3, <2>2 DEF R!Evaluate, R!Scheduled, R!Candidate, R!Expires
    <3>2. n \in R!Candidates
      BY <1>1, <1>2, <3>1, CheckpointsAre DEF R!Candidates
    <3>3. x4 <= OneDay
      BY DEF R!ReminderKept, R!ReminderShapes
    <3> QED
      BY <1>1, <1>2, <3>1, <3>2, <3>3 DEF R!Outlasts
  <2> QED
    BY <2>1, <2>2
<1>4. R!ReminderShapes'
  BY <1>1, <1>3 DEF R!ReminderKept, R!ReminderShapes
<1>5. R!Remembered' /\ R!RemindedOnce'
  BY <1>1 DEF R!ReminderKept, R!Remembered, R!UpToStage, R!Outlasts, R!RemindedOnce
<1>6. R!InTime'
  BY <1>1, <1>3 DEF R!InTime, R!Outlasts
<1> QED
  BY <1>4, <1>5, <1>6 DEF R!ReminderKept

\* A checkpoint is forgotten when it ran out: an announcement's never does.
LEMMA ForgetStep ==
  ASSUME R!ReminderKept, R!Forget, UNCHANGED <<x1, x2, x3, x4, x6, x8, x9>>
  PROVE  R!ReminderKept'
<1> USE RemindersConstants
<1>1. \A k \in R!Checkpoints : x5'[k] = IF R!Gone(k) THEN None ELSE x5[k]
  BY DEF R!Forget
<1>2. x5' \in [R!Checkpoints -> [stage : 1 .. 3, expires : Nat] \cup {None}]
  BY DEF R!Forget, R!ReminderKept, R!ReminderShapes
<1>3. R!ReminderShapes'
  BY <1>2 DEF R!ReminderKept, R!ReminderShapes
<1>4. R!Remembered'
  <2> SUFFICES ASSUME NEW k \in R!Checkpoints
               PROVE  /\ x5'[k] # None => R!UpToStage(k)' /\ R!Outlasts(k, x5'[k].expires)
                      /\ x5'[k] = None /\ x9[k] # <<>> => k = R!Visit /\ x2 + x4 < x1
    BY DEF R!Remembered, R!Outlasts
  <2>1. CASE R!Gone(k)
    <3>1. x5'[k] = None /\ x5[k] # None /\ x5[k].expires < x1 /\ x5[k].expires \in Nat
      BY <1>1, <2>1 DEF R!Gone, R!ReminderKept, R!ReminderShapes
    <3>2. R!Outlasts(k, x5[k].expires)
      BY <3>1 DEF R!ReminderKept, R!Remembered
    <3>3. x1 \in 0 .. ReminderTime /\ x2 \in Nat /\ x4 \in Nat
      BY DEF R!ReminderKept, R!ReminderShapes
    <3> QED
      BY <3>1, <3>2, <3>3, CheckpointsAre DEF R!Outlasts
  <2>2. CASE ~R!Gone(k)
    BY <1>1, <2>2 DEF R!ReminderKept, R!Remembered, R!UpToStage
  <2> QED
    BY <2>1, <2>2
<1>5. R!InTime' /\ R!RemindedOnce'
  BY DEF R!ReminderKept, R!InTime, R!Outlasts, R!RemindedOnce
<1> QED
  BY <1>3, <1>4, <1>5 DEF R!ReminderKept

LEMMA NoEarlier ==
  ASSUME NEW a \in Nat, NEW b \in Nat, NEW c \in Nat, NEW d \in Nat, NEW e \in Nat, NEW f \in Nat
  PROVE  /\ c + d <= a + b /\ e >= a + b => e >= c + d
         /\ c + d - f <= a + b - e /\ a + b < e => c + d < f
  OBVIOUS

\* Time, and what moves it: together the end put off and the clock set back take no more
\* than the slack, so what is over stays over.
LEMMA MovesStep ==
  ASSUME R!ReminderKept, R!PutOff \/ R!SetBack \/ R!Tick
  PROVE  R!ReminderKept'
<1>0. ReminderTime \in Nat /\ OneDay \in Nat
  BY RemindersConstants
<1>1. x1 \in 0 .. ReminderTime /\ x2 \in Nat /\ x4 \in Nat /\ x4 <= OneDay
  BY <1>0 DEF R!ReminderKept, R!ReminderShapes
<1>2. UNCHANGED <<x3, x5, x6, x8, x9>>
  BY DEF R!PutOff, R!SetBack, R!Tick, R!loop
<1>3. /\ x1' \in 0 .. ReminderTime /\ x2' \in Nat /\ x4' \in Nat /\ x4' <= OneDay
      /\ x2' + x4' <= x2 + x4 /\ x2' >= x2 /\ x2' + x4' - x1' <= x2 + x4 - x1
      /\ \A n \in x8 : x1' <= n.at + 1
  <2>1. CASE R!PutOff
    BY <1>0, <1>1, <2>1 DEF R!PutOff, R!Move, R!ReminderKept, R!InTime
  <2>2. CASE R!SetBack
    <3>1. PICK d \in 1 .. x1 : d \in 1 .. x4 /\ x4' = x4 - d /\ x1' = x1 - d /\ x2' = x2
      BY <2>2 DEF R!SetBack, R!Move
    <3>2. \A n \in x8 : n.at \in Nat /\ x1 <= n.at + 1
      BY DEF R!ReminderKept, R!InTime, R!ReminderShapes, R!Candidates
    <3> QED
      BY <1>0, <1>1, <3>1, <3>2
  <2>3. CASE R!Tick
    <3>1. \A n \in x8 : n.at \in Nat /\ x1 <= n.at
      BY <2>3 DEF R!Tick, R!ReminderKept, R!ReminderShapes, R!Candidates
    <3> QED
      BY <1>0, <1>1, <2>3, <3>1 DEF R!Tick
  <2> QED
    BY <2>1, <2>2, <2>3
<1>4. R!ReminderShapes'
  BY <1>0, <1>2, <1>3 DEF R!ReminderKept, R!ReminderShapes
<1>5. \A k \in R!Checkpoints, e \in Nat : R!Outlasts(k, e) => R!Outlasts(k, e)'
  <2> TAKE k \in R!Checkpoints, e \in Nat
  <2>1. CASE k = R!Visit
    <3>0. x2' + x4' <= x2 + x4 /\ x2' \in Nat /\ x4' \in Nat /\ x2 \in Nat /\ x4 \in Nat
      BY <1>1, <1>3, Zenon
    <3>1. e >= x2 + x4 => e >= x2' + x4'
      BY <3>0, NoEarlier
    <3> QED
      BY <2>1, <3>1 DEF R!Outlasts, R!Visit
  <2>2. CASE k # R!Visit
    BY <2>2 DEF R!Outlasts, R!Visit, R!Forever
  <2> QED
    BY <2>1, <2>2
<1>6. R!Remembered'
  <2> SUFFICES ASSUME NEW k \in R!Checkpoints
               PROVE  /\ x5[k] # None => R!UpToStage(k) /\ R!Outlasts(k, x5[k].expires)'
                      /\ x5[k] = None /\ x9[k] # <<>> => k = R!Visit /\ x2' + x4' < x1'
    BY <1>2 DEF R!Remembered, R!Outlasts, R!UpToStage
  <2>1. x5[k] # None => x5[k].expires \in Nat
    BY DEF R!ReminderKept, R!ReminderShapes
  <2>2. x5[k] # None => R!UpToStage(k) /\ R!Outlasts(k, x5[k].expires)
    BY DEF R!ReminderKept, R!Remembered
  <2>3. x5[k] # None => R!Outlasts(k, x5[k].expires)'
    BY <1>2, <1>5, <2>1, <2>2 DEF R!Outlasts
  <2>4. x5[k] = None /\ x9[k] # <<>> => k = R!Visit /\ x2 + x4 < x1
    BY DEF R!ReminderKept, R!Remembered
  <2>5. x2 + x4 < x1 => x2' + x4' < x1'
    <3>1. x1 \in Nat /\ x1' \in Nat
      BY <1>0, <1>1, <1>3
    <3> QED
      BY <1>1, <1>3, <3>1, NoEarlier
  <2> QED
    BY <2>2, <2>3, <2>4, <2>5
<1>7. R!InTime'
  <2> SUFFICES ASSUME NEW n \in x8
               PROVE  /\ R!Outlasts(n.key, n.expires)' /\ x1' <= n.at + 1
                      /\ n.key = R!Visit => n.at < x2'
    BY <1>2 DEF R!InTime, R!Outlasts, R!Visit
  <2>1. n.key \in R!Checkpoints /\ n.expires \in Nat /\ n.at \in Nat
    BY DEF R!ReminderKept, R!ReminderShapes, R!Candidates
  <2>2. R!Outlasts(n.key, n.expires) /\ (n.key = R!Visit => n.at < x2)
    BY DEF R!ReminderKept, R!InTime
  <2> QED
    BY <1>1, <1>3, <1>5, <2>1, <2>2
<1>8. R!RemindedOnce'
  BY <1>2 DEF R!ReminderKept, R!RemindedOnce
<1> QED
  BY <1>4, <1>6, <1>7, <1>8 DEF R!ReminderKept

LEMMA ReminderNext == R!ReminderKept /\ [R!Next]_R!vars => R!ReminderKept'
<1> SUFFICES ASSUME R!ReminderKept, [R!Next]_R!vars PROVE R!ReminderKept'
  OBVIOUS
<1> USE DEF R!world, R!loop
<1>1. CASE R!Round \/ R!Evaluate \/ R!Announce \/ R!Remind
  BY <1>1, CandidatesStep, TriesStep
<1>2. CASE R!Prune \/ R!Look
  <2>1. CASE R!Forget
    <3>1. UNCHANGED <<x1, x2, x3, x4, x6, x8, x9>>
      BY <1>2 DEF R!Prune, R!Look
    <3> QED
      BY <2>1, <3>1, ForgetStep
  <2>2. CASE ~R!Forget
    <3>1. UNCHANGED <<x1, x2, x3, x4, x5, x6, x8, x9>>
      BY <1>2, <2>2 DEF R!Prune, R!Look
    <3> QED
      BY <3>1, NothingTold DEF R!ReminderKept, R!ReminderShapes
  <2> QED
    BY <2>1, <2>2
<1>3. CASE R!Restart \/ R!Settings \/ R!Feed
  <2>1. /\ UNCHANGED <<x1, x2, x4, x5, x9>> /\ x3' \subseteq 1 .. MaxMessages /\ x6' \in BOOLEAN
        /\ x8' \subseteq x8
    BY <1>3 DEF R!Restart, R!Settings, R!Feed, R!ReminderKept, R!ReminderShapes
  <2> QED
    BY <2>1, NothingTold
<1>4. CASE R!PutOff \/ R!SetBack \/ R!Tick
  BY <1>4, MovesStep
<1>5. CASE UNCHANGED R!vars
  <2>1. UNCHANGED <<x1, x2, x3, x4, x5, x6, x8, x9>>
    BY <1>5 DEF R!vars
  <2> QED
    BY <2>1, NothingTold DEF R!ReminderKept, R!ReminderShapes
<1> QED
  BY <1>1, <1>2, <1>3, <1>4, <1>5 DEF R!Next, R!Loop

\* RemindedOnce: no phase and no announcement is told twice, whatever fails, is forgotten,
\* put off or set back, as long as the last two together take no more than DAY
\* (reminders.rs, deliver).
THEOREM NothingToldTwice == R!Spec => []RemindedOnce
<1>1. R!ReminderKept => RemindedOnce
  BY DEF R!ReminderKept, RemindedOnce
<1> QED
  BY <1>1, ReminderInit, ReminderNext, PTL DEF R!Spec

---------------------------------------------------------------------------
(* The sweeps of the market.                                                *)
LEMMA LeastItem ==
  ASSUME NEW T, T # {}, T \subseteq Nat
  PROVE  S!Min(T) \in T
<1>1. PICK n \in T : \A m \in T : ~(<<m, n>> \in OpToRel(<, Nat))
  BY WFMin, NatLessThanWellFounded
<1>2. \A m \in T : ~(m < n)
  BY <1>1 DEF OpToRel
<1>3. n \in T /\ \A m \in T : n <= m
  BY <1>2
<1> QED
  BY <1>3 DEF S!Min

LEMMA EntryIs ==
  ASSUME NEW i \in S!Items, NEW n \in Nat, NEW usable \in BOOLEAN
  PROVE  S!Entry(i, n, usable) \in S!Stats /\ S!Entry(i, n, usable).item = i /\ S!Entry(i, n, usable).read = n
  BY DEF S!Entry, S!Stats

LEMMA SweepInit == S!Init => S!SweepKept
<1> SUFFICES ASSUME S!Init PROVE S!SweepKept
  OBVIOUS
<1> USE DEF S!Init
<1>1. x5 \in [Workers -> S!Work] /\ \A w \in Workers : x5[w].step = "rests"
  BY DEF S!Work, S!Resting
<1>2. x15.entries \subseteq S!Stats
  <2>1. CASE x15 = S!NoCache
    BY <2>1 DEF S!NoCache
  <2>2. ASSUME NEW known \in Catalogs, x15 = S!Earlier(known) PROVE x15.entries \subseteq S!Stats
    <3>1. \A i \in known : S!Entry(i, 0, TRUE) \in S!Stats
      BY EntryIs DEF S!Items
    <3> QED
      BY <2>2, <3>1 DEF S!Earlier
  <2> QED
    BY <2>1, <2>2
<1>3. S!SweepShapes
  <2>1. x9 \in Seq(S!Outcomes)
    OBVIOUS
  <2>2. x1 \in Nat /\ x2 = {} /\ x4 = {} /\ x19 = {} /\ x11 = {} /\ x6 \in BOOLEAN /\ x7 \in BOOLEAN
    OBVIOUS
  <2> QED
    BY <1>1, <1>2, <2>1, <2>2 DEF S!SweepShapes
<1>4. S!HoldsWell /\ S!KeptIsYoung /\ S!PublishedIsOneSweep
  BY <1>1 DEF S!HoldsWell, S!Holds, S!KeptIsYoung, S!PublishedIsOneSweep
<1>5. x3 = "idle"
  OBVIOUS
<1> QED
  BY <1>3, <1>4, <1>5 DEF S!SweepKept

LEMMA BeginStep ==
  ASSUME S!SweepKept, S!Begin
  PROVE  S!SweepKept'
<1>1. /\ x1 \in Nat /\ x1' = x1 + 1 /\ x2' \in Catalogs /\ x3' = "sweeping" /\ x4' = x2'
      /\ x5' = [w \in Workers |-> [S!Resting EXCEPT !.step = "claims"]]
      /\ x6' = FALSE /\ x7' = FALSE /\ x9' = <<>> /\ x10' = {} /\ x11' = {} /\ x18' = {} /\ x19' = {}
      /\ x14' = x14 /\ x16' = x16 /\ (x15' = x15 \/ x15' = S!NoCache)
  BY DEF S!Begin, S!Fresh, S!SweepKept, S!SweepShapes
<1>2. [S!Resting EXCEPT !.step = "claims"] \in S!Work /\ [S!Resting EXCEPT !.step = "claims"].step = "claims"
  BY DEF S!Resting, S!Work
<1>3. x5' \in [Workers -> S!Work] /\ \A w \in Workers : x5'[w].step = "claims"
  BY <1>1, <1>2
<1>4. x15'.entries \subseteq S!Stats
  BY <1>1 DEF S!NoCache, S!SweepKept, S!SweepShapes
<1>5. S!SweepShapes'
  <2>1. x2' \subseteq S!Items /\ x1' \in Nat
    BY <1>1 DEF S!Items
  <2>2. x9' \in Seq(S!Outcomes)
    BY <1>1
  <2>3. x4' \subseteq x2' /\ x19' \subseteq x2' /\ x11' \subseteq S!Stats
    BY <1>1
  <2>4. x6' \in BOOLEAN /\ x7' \in BOOLEAN
    BY <1>1
  <2> QED
    BY <1>3, <1>4, <2>1, <2>2, <2>3, <2>4 DEF S!SweepShapes
<1>6. S!HoldsWell' /\ S!KeptIsYoung'
  BY <1>1, <1>3 DEF S!HoldsWell, S!Holds, S!KeptIsYoung
<1>7. S!NothingMissed'
  BY <1>1, <1>3 DEF S!NothingMissed
<1>8. S!PublishedIsOneSweep'
  BY <1>1 DEF S!SweepKept, S!PublishedIsOneSweep
<1> QED
  BY <1>1, <1>5, <1>6, <1>7, <1>8 DEF S!SweepKept

\* A worker moves: what it takes of the catalog it holds, and what it held it holds still.
LEMMA WorkerMoves ==
  ASSUME S!SweepKept, NEW w \in Workers, NEW r \in S!Work, x3 = "sweeping",
         x5' = [x5 EXCEPT ![w] = r], x4' \subseteq x4, x6' \in BOOLEAN, x7' \in BOOLEAN,
         UNCHANGED <<x1, x2, x3, x9, x10, x11, x14, x15, x16, x18, x19>>,
         r.step \in {"statistics", "gate", "orders"} => r.item \in x2,
         r.step \in {"gate", "orders"} => r.entry \in S!Stats /\ r.entry.item = r.item /\ S!Young(r.entry.read),
         ~x7' =>
           /\ ~x7 /\ x6' = x6
           /\ \A i \in x4 \ x4' : r.step \in {"statistics", "gate", "orders"} /\ r.item = i
           /\ S!Holds(w) => r.step \in {"statistics", "gate", "orders"} /\ r.item = x5[w].item
           /\ r.step = "rests" => x4' = {}
  PROVE  S!SweepKept'
<1>1. x5' \in [Workers -> S!Work] /\ \A v \in Workers : x5'[v] = IF v = w THEN r ELSE x5[v]
  BY DEF S!SweepKept, S!SweepShapes
<1>2. S!SweepShapes'
  BY <1>1 DEF S!SweepKept, S!SweepShapes
<1>3. S!HoldsWell'
  BY <1>1 DEF S!SweepKept, S!HoldsWell, S!Holds, S!Young
<1>4. S!KeptIsYoung' /\ S!PublishedIsOneSweep'
  BY DEF S!SweepKept, S!KeptIsYoung, S!Young, S!PublishedIsOneSweep
<1>5. ASSUME ~x7' PROVE S!NothingMissed'
  <2>1. S!NothingMissed /\ x6' = x6
    BY <1>5 DEF S!SweepKept
  <2>2. ASSUME NEW i \in x2 \ (x4' \cup x19) PROVE \E v \in Workers : S!Holds(v)' /\ x5'[v].item = i
    <3>1. CASE i \in x4
      BY <1>1, <1>5, <2>2, <3>1 DEF S!Holds
    <3>2. CASE i \notin x4
      <4>1. PICK v \in Workers : S!Holds(v) /\ x5[v].item = i
        BY <2>1, <2>2, <3>2 DEF S!NothingMissed
      <4> QED
        BY <1>1, <1>5, <4>1 DEF S!Holds
    <3> QED
      BY <3>1, <3>2
  <2>3. \A v \in Workers : x5'[v].step = "rests" => x4' = {}
    BY <1>1, <1>5, <2>1 DEF S!NothingMissed
  <2> QED
    BY <2>1, <2>2, <2>3 DEF S!NothingMissed, S!OnItsWay
<1> QED
  BY <1>2, <1>3, <1>4, <1>5 DEF S!SweepKept

LEMMA Stepped ==
  ASSUME NEW r \in S!Work, NEW s \in {"rests", "claims", "statistics", "gate", "orders"}
  PROVE  /\ [r EXCEPT !.step = s] \in S!Work /\ [r EXCEPT !.step = s].step = s
         /\ [r EXCEPT !.step = s].item = r.item /\ [r EXCEPT !.step = s].entry = r.entry
  BY DEF S!Work

\* A worker claims an item, with the statistics of an earlier sweep unless they are due.
LEMMA ClaimStep ==
  ASSUME S!SweepKept, NEW w \in Workers, x3 = "sweeping", S!Claim(w)
  PROVE  S!SweepKept'
<1>1. /\ UNCHANGED <<x1, x2, x3, x6, x7, x9, x10, x11, x14, x15, x16, x18, x19>>
      /\ x5[w] \in S!Work /\ x5[w].step = "claims" /\ ~S!Holds(w)
  BY DEF S!Claim, S!run, S!desk, S!files, S!SweepKept, S!SweepShapes, S!Holds
<1>2. ~x7 => ~x6
  BY DEF S!SweepKept, S!NothingMissed
<1>3. x6 \in BOOLEAN /\ x7 \in BOOLEAN
  BY DEF S!SweepKept, S!SweepShapes
<1>4. CASE x6 \/ x4 = {}
  <2>1. x5' = [x5 EXCEPT ![w] = [x5[w] EXCEPT !.step = "rests"]] /\ x4' = x4
    BY <1>4 DEF S!Claim, S!Does
  <2> QED
    BY <1>1, <1>2, <1>3, <1>4, <2>1, Stepped, WorkerMoves
<1>5. CASE ~(x6 \/ x4 = {})
  <2> DEFINE i == S!Min(x4)
             e == CHOOSE d \in S!EntryOf(i) : TRUE
             r == [item |-> i, attempt |-> 0, step |-> IF S!Due(i) THEN "statistics" ELSE "gate",
                   entry |-> IF S!Due(i) THEN None ELSE e]
  <2>1. x4' = x4 \ {i} /\ x5' = [x5 EXCEPT ![w] = r]
    BY <1>5 DEF S!Claim, S!Reused
  <2>2. i \in x4 /\ i \in x2 /\ i \in S!Items
    <3>1. x4 \subseteq x2 /\ x2 \subseteq S!Items /\ S!Items \subseteq Nat
      BY SweepConstants DEF S!SweepKept, S!SweepShapes, S!Items
    <3> QED
      BY <1>5, <3>1, LeastItem
  <2>3. ~S!Due(i) => e \in S!Stats /\ e.item = i /\ S!Young(e.read)
    <3> SUFFICES ASSUME ~S!Due(i) PROVE e \in S!Stats /\ e.item = i /\ S!Young(e.read)
      OBVIOUS
    <3>1. e \in S!EntryOf(i)
      BY DEF S!Due
    <3>2. e \in S!Stats /\ e.item = i
      BY <3>1 DEF S!EntryOf, S!SweepKept, S!SweepShapes
    <3>3. ~(x1 - e.at >= Interval)
      BY <3>1 DEF S!Due
    <3>4. e.read = e.at /\ e.at \in Nat /\ x1 \in Nat /\ Interval \in Nat
      BY <3>2, SweepConstants DEF S!Stats, S!SweepKept, S!SweepShapes
    <3> QED
      BY <3>2, <3>3, <3>4 DEF S!Young
  <2> HIDE DEF i, e
  <2>4. r \in S!Work /\ r.item = i /\ r.step \in {"statistics", "gate"}
        /\ (r.step = "gate" => r.entry = e /\ ~S!Due(i))
    BY <2>2, <2>3 DEF S!Work
  <2> HIDE DEF r
  <2> QED
    BY <1>1, <1>2, <1>3, <2>1, <2>2, <2>3, <2>4, WorkerMoves
<1> QED
  BY <1>4, <1>5

\* A fetch is tried again, or given up; fresh statistics; past the volume gate.
LEMMA FetchStep ==
  ASSUME S!SweepKept, NEW w \in Workers, x3 = "sweeping",
         S!Again(w) \/ S!Gives(w) \/ S!Statistics(w) \/ (S!Gate(w) /\ x19' = x19 /\ x18' = x18 /\ x9' = x9 /\ S!Does(w, "orders"))
  PROVE  S!SweepKept'
<1>1. /\ UNCHANGED <<x1, x2, x3, x4, x9, x10, x11, x14, x15, x16, x18, x19>>
      /\ x5[w] \in S!Work /\ S!Holds(w) /\ x5[w].item \in x2 /\ x5[w].item \in S!Items
  BY DEF S!Again, S!Gives, S!Statistics, S!Gate, S!Fetching, S!run, S!desk, S!files, S!SweepKept,
     S!SweepShapes, S!Holds, S!HoldsWell
<1>2. x6 \in BOOLEAN /\ x7 \in BOOLEAN
  BY DEF S!SweepKept, S!SweepShapes
<1>3. x5[w].step \in {"gate", "orders"} =>
        x5[w].entry \in S!Stats /\ x5[w].entry.item = x5[w].item /\ S!Young(x5[w].entry.read)
  BY DEF S!SweepKept, S!HoldsWell
<1>4. CASE S!Again(w)
  <2> DEFINE r == [x5[w] EXCEPT !.attempt = x5[w].attempt + 1]
  <2>1. x5' = [x5 EXCEPT ![w] = r] /\ x6' = x6 /\ x7' = x7
    BY <1>4 DEF S!Again
  <2>2. r \in S!Work /\ r.item = x5[w].item /\ r.step = x5[w].step /\ r.entry = x5[w].entry
    BY <1>1 DEF S!Work
  <2> HIDE DEF r
  <2> QED
    BY <1>1, <1>2, <1>3, <2>1, <2>2, WorkerMoves DEF S!Holds
<1>5. CASE S!Gives(w)
  <2>1. x5' = [x5 EXCEPT ![w] = [x5[w] EXCEPT !.step = "rests"]] /\ x6' = TRUE /\ x7' = TRUE
    BY <1>5 DEF S!Gives, S!Reports, S!Does
  <2> QED
    BY <1>1, <1>2, <2>1, Stepped, WorkerMoves
<1>6. CASE S!Statistics(w)
  <2>1. PICK usable \in BOOLEAN :
          x5' = [x5 EXCEPT ![w] = [item |-> x5[w].item, attempt |-> 0, step |-> "gate",
                                   entry |-> S!Entry(x5[w].item, x1, usable)]]
    BY <1>6 DEF S!Statistics
  <2> DEFINE e == S!Entry(x5[w].item, x1, usable)
             r == [item |-> x5[w].item, attempt |-> 0, step |-> "gate", entry |-> e]
  <2>2. e \in S!Stats /\ e.item = x5[w].item /\ e.read = x1 /\ x1 \in Nat
    BY <1>1, EntryIs DEF S!SweepKept, S!SweepShapes
  <2> HIDE DEF e
  <2>3. r \in S!Work /\ r.item = x5[w].item /\ r.step = "gate" /\ r.entry = e
    BY <1>1, <2>2 DEF S!Work
  <2>4. x5' = [x5 EXCEPT ![w] = r]
    BY <2>1 DEF e
  <2>5. S!Young(e.read)
    BY <2>2, SweepConstants DEF S!Young
  <2>6. x6' = x6 /\ x7' = x7
    BY <1>6 DEF S!Statistics
  <2> HIDE DEF r
  <2> QED
    BY <1>1, <1>2, <2>2, <2>3, <2>4, <2>5, <2>6, WorkerMoves
<1>7. CASE S!Gate(w) /\ S!Does(w, "orders")
  <2> DEFINE r == [x5[w] EXCEPT !.step = "orders"]
  <2>1. x5' = [x5 EXCEPT ![w] = r] /\ x6' = x6 /\ x7' = x7 /\ x5[w].step = "gate"
    BY <1>7 DEF S!Gate, S!Does
  <2>2. r \in S!Work /\ r.step = "orders" /\ r.item = x5[w].item /\ r.entry = x5[w].entry
    BY <1>1, Stepped
  <2> HIDE DEF r
  <2>3. r.entry \in S!Stats /\ r.entry.item = r.item /\ S!Young(r.entry.read)
    BY <1>3, <2>1, <2>2
  <2> QED
    BY <1>1, <1>2, <2>1, <2>2, <2>3, WorkerMoves
<1> QED
  BY <1>4, <1>5, <1>6, <1>7

\* A worker is done with its item: its outcome is on its way, with its row if there is one.
LEMMA SendsStep ==
  ASSUME S!SweepKept, NEW w \in Workers, NEW e \in S!Stats, NEW row \in BOOLEAN, NEW coerced \in {0, 1},
         x3 = "sweeping", S!Sends(w, e, row, coerced), S!Holds(w), e.item = x5[w].item, S!Young(e.read),
         UNCHANGED <<x1, x2, x3, x4, x6, x7, x10, x11, x14, x15, x16>>
  PROVE  S!SweepKept'
<1> DEFINE i == x5[w].item
           o == [entry |-> e, row |-> row, coerced |-> coerced]
           d == [item |-> i, statistics |-> e.read]
           r == [x5[w] EXCEPT !.step = "claims"]
<1>1. /\ x9' = Append(x9, o) /\ x19' = x19 \cup {i} /\ x5' = [x5 EXCEPT ![w] = r]
      /\ x18' = IF row THEN x18 \cup {d} ELSE x18
  BY DEF S!Sends, S!Does
<1>2. o \in S!Outcomes /\ o.row = row /\ S!RowOf(o) = d /\ d.statistics = e.read
  BY DEF S!Outcomes, S!RowOf
<1>3. r \in S!Work /\ r.step = "claims"
  BY Stepped DEF S!SweepKept, S!SweepShapes
<1>4. i \in x2
  BY DEF S!SweepKept, S!HoldsWell
<1> HIDE DEF o, d, r
<1>5. x5' \in [Workers -> S!Work] /\ \A v \in Workers : x5'[v] = IF v = w THEN r ELSE x5[v]
  BY <1>1, <1>3 DEF S!SweepKept, S!SweepShapes
<1>6. /\ x9' \in Seq(S!Outcomes) /\ Len(x9) \in Nat /\ Len(x9') = Len(x9) + 1 /\ x9'[Len(x9) + 1] = o
      /\ \A n \in 1 .. Len(x9) : x9'[n] = x9[n]
  BY <1>1, <1>2 DEF S!SweepKept, S!SweepShapes
<1>7. S!SweepShapes'
  BY <1>1, <1>4, <1>5, <1>6 DEF S!SweepKept, S!SweepShapes
<1>8. S!HoldsWell'
  BY <1>3, <1>5 DEF S!SweepKept, S!HoldsWell, S!Holds, S!Young
<1>9. S!KeptIsYoung' /\ S!PublishedIsOneSweep'
  BY <1>1, <1>2 DEF S!SweepKept, S!KeptIsYoung, S!Young, S!PublishedIsOneSweep
<1>10. ASSUME ~x7 PROVE S!NothingMissed'
  <2>1. S!NothingMissed
    BY <1>10 DEF S!SweepKept
  <2>2. ASSUME NEW j \in x2 \ (x4 \cup x19') PROVE \E v \in Workers : S!Holds(v)' /\ x5'[v].item = j
    <3>1. PICK v \in Workers : S!Holds(v) /\ x5[v].item = j
      BY <1>1, <2>1, <2>2 DEF S!NothingMissed
    <3>2. v # w
      BY <1>1, <2>2, <3>1
    <3> QED
      BY <1>5, <3>1, <3>2 DEF S!Holds
  <2>3. \A v \in Workers : x5'[v].step = "rests" => x4 = {}
    BY <1>3, <1>5, <2>1 DEF S!NothingMissed
  <2>4. ASSUME NEW p \in x18' PROVE p \in x10 \/ S!OnItsWay(p)'
    <3>1. CASE p \in x18
      <4>1. S!OnItsWay(p) => S!OnItsWay(p)'
        BY <1>6 DEF S!OnItsWay
      <4> QED
        BY <2>1, <3>1, <4>1 DEF S!NothingMissed
    <3>2. CASE p \notin x18
      <4>1. row /\ p = d
        BY <1>1, <2>4, <3>2
      <4>2. x9'[Len(x9) + 1].row /\ p = S!RowOf(x9'[Len(x9) + 1])
        BY <1>2, <1>6, <4>1
      <4>3. Len(x9) + 1 \in 1 .. Len(x9')
        BY <1>6
      <4> QED
        BY <4>2, <4>3 DEF S!OnItsWay
    <3> QED
      BY <3>1, <3>2
  <2>5. x10 \subseteq x18'
    BY <1>1, <2>1 DEF S!NothingMissed
  <2>6. ASSUME NEW n \in 1 .. Len(x9'), x9'[n].row PROVE S!RowOf(x9'[n]) \in x18'
    <3>1. CASE n \in 1 .. Len(x9)
      BY <1>1, <1>6, <2>1, <2>6, <3>1 DEF S!NothingMissed
    <3>2. CASE n = Len(x9) + 1
      BY <1>1, <1>2, <1>6, <2>6, <3>2
    <3> QED
      BY <1>6, <3>1, <3>2
  <2> QED
    BY <2>1, <2>2, <2>3, <2>4, <2>5, <2>6 DEF S!NothingMissed
<1> QED
  BY <1>7, <1>8, <1>9, <1>10 DEF S!SweepKept

LEMMA ScanStep ==
  ASSUME S!SweepKept, NEW w \in Workers, S!Scan(w)
  PROVE  S!SweepKept'
<1>1. x3 = "sweeping"
  BY DEF S!Scan
<1>2. x5[w].step \in {"gate", "orders"} =>
        S!Holds(w) /\ x5[w].entry \in S!Stats /\ x5[w].entry.item = x5[w].item /\ S!Young(x5[w].entry.read)
  BY DEF S!SweepKept, S!HoldsWell, S!Holds
<1>3. CASE S!Gate(w)
  <2>1. x5[w].step = "gate" /\ UNCHANGED <<x1, x2, x3, x4, x6, x7, x10, x11, x14, x15, x16>>
    BY <1>3 DEF S!Gate, S!run, S!desk, S!files
  <2>2. CASE S!Sends(w, x5[w].entry, FALSE, 0)
    BY <1>1, <1>2, <2>1, <2>2, SendsStep
  <2>3. CASE S!Does(w, "orders") /\ UNCHANGED <<x9, x18, x19>>
    BY <1>1, <1>3, <2>3, FetchStep
  <2> QED
    BY <1>3, <2>2, <2>3 DEF S!Gate
<1>4. CASE S!Orders(w)
  <2>1. x5[w].step = "orders" /\ UNCHANGED <<x1, x2, x3, x4, x6, x7, x10, x11, x14, x15, x16>>
    BY <1>4 DEF S!Orders, S!run, S!desk, S!files
  <2> DEFINE e(row, empty) == IF row THEN [x5[w].entry EXCEPT !.emptyBook = empty] ELSE x5[w].entry
  <2>2. PICK row \in BOOLEAN, empty \in BOOLEAN, coerced \in {0, 1} : S!Sends(w, e(row, empty), row, coerced)
    BY <1>4 DEF S!Orders
  <2>3. /\ e(row, empty) \in S!Stats /\ e(row, empty).item = x5[w].entry.item
        /\ e(row, empty).read = x5[w].entry.read
    BY <1>2, <2>1 DEF S!Stats
  <2> HIDE DEF e
  <2> QED
    BY <1>1, <1>2, <2>1, <2>2, <2>3, SendsStep
<1> QED
  BY <1>1, <1>3, <1>4, ClaimStep, FetchStep DEF S!Scan

\* The collector takes the next outcome: its row is with the others now.
LEMMA CollectStep ==
  ASSUME S!SweepKept, S!Collect
  PROVE  S!SweepKept'
<1> DEFINE o == Head(x9)
<1>1. /\ x3 = "sweeping" /\ x9 # <<>> /\ UNCHANGED <<x1, x2, x4, x5, x15, x16, x18, x19>>
      /\ x11' = x11 \cup {o.entry} /\ x14' = x14
  BY DEF S!Collect, S!Checkpoint
<1>2. \/ x3' = x3 /\ x9' = Tail(x9) /\ x6' = TRUE /\ x7' = TRUE
      \/ /\ x3' = x3 /\ x9' = Tail(x9) /\ x6' = x6 /\ x7' = x7
         /\ x10' = IF o.row THEN x10 \cup {S!RowOf(o)} ELSE x10
      \/ x3' = "exited" /\ x9' = <<>> /\ x6' = x6 /\ x7' = TRUE
  BY <1>1 DEF S!Collect, S!RowOf
<1>3. /\ x9 \in Seq(S!Outcomes) /\ o \in S!Outcomes /\ Len(x9) \in Nat /\ Len(x9) > 0 /\ o = x9[1]
      /\ Tail(x9) \in Seq(S!Outcomes) /\ Len(Tail(x9)) = Len(x9) - 1
      /\ \A n \in 1 .. Len(x9) - 1 : Tail(x9)[n] = x9[n + 1]
  BY <1>1 DEF S!SweepKept, S!SweepShapes
<1> HIDE DEF o
<1>4. o.entry \in S!Stats
  BY <1>3 DEF S!Outcomes
<1>5. x9' \in Seq(S!Outcomes)
  <2>1. <<>> \in Seq(S!Outcomes)
    OBVIOUS
  <2>2. x9' = Tail(x9) \/ x9' = <<>>
    BY <1>2
  <2>3. Tail(x9) \in Seq(S!Outcomes)
    BY <1>3
  <2> HIDE DEF o
  <2>4. CASE x9' = Tail(x9)
    BY <2>3, <2>4, Zenon
  <2>5. CASE x9' = <<>>
    BY <2>1, <2>5, Zenon
  <2> QED
    BY <2>2, <2>4, <2>5
<1>6. S!SweepShapes'
  BY <1>1, <1>2, <1>4, <1>5 DEF S!SweepKept, S!SweepShapes
<1>7. S!HoldsWell' /\ S!KeptIsYoung' /\ S!PublishedIsOneSweep'
  BY <1>1 DEF S!SweepKept, S!HoldsWell, S!Holds, S!KeptIsYoung, S!Young, S!PublishedIsOneSweep
<1>8. ASSUME x3' = "sweeping", ~x7' PROVE S!NothingMissed'
  <2>1. /\ x9' = Tail(x9) /\ x6' = x6 /\ x7' = x7
        /\ x10' = IF o.row THEN x10 \cup {S!RowOf(o)} ELSE x10
    BY <1>2, <1>8
  <2>2. S!NothingMissed
    BY <1>1, <1>8, <2>1 DEF S!SweepKept
  <2>3. ASSUME NEW p \in x18 PROVE p \in x10' \/ S!OnItsWay(p)'
    <3>1. CASE p \in x10
      BY <2>1, <3>1
    <3>2. CASE p \notin x10
      <4>1. PICK n \in 1 .. Len(x9) : x9[n].row /\ p = S!RowOf(x9[n])
        BY <2>2, <2>3, <3>2 DEF S!NothingMissed, S!OnItsWay
      <4>2. CASE n = 1
        BY <1>3, <2>1, <4>1, <4>2
      <4>3. CASE n # 1
        <5>1. n - 1 \in 1 .. Len(x9) - 1 /\ (n - 1) + 1 = n
          BY <1>3, <4>3
        <5>2. n - 1 \in 1 .. Len(x9') /\ x9'[n - 1] = x9[n]
          BY <1>3, <2>1, <5>1
        <5> QED
          BY <4>1, <5>2 DEF S!OnItsWay
      <4> QED
        BY <4>2, <4>3
    <3> QED
      BY <3>1, <3>2
  <2>4. x10' \subseteq x18
    BY <1>3, <2>1, <2>2 DEF S!NothingMissed
  <2>5. ASSUME NEW n \in 1 .. Len(x9'), x9'[n].row PROVE S!RowOf(x9'[n]) \in x18
    <3>1. n + 1 \in 1 .. Len(x9) /\ x9'[n] = x9[n + 1]
      BY <1>3, <2>1
    <3> QED
      BY <2>2, <2>5, <3>1 DEF S!NothingMissed
  <2> QED
    BY <1>1, <2>1, <2>2, <2>3, <2>4, <2>5 DEF S!NothingMissed, S!Holds
<1>9. x3' \in {"sweeping", "exited"}
  BY <1>1, <1>2
<1> QED
  BY <1>6, <1>7, <1>8, <1>9 DEF S!SweepKept

\* The sweep is over, and complete unless it failed; its file replaces the last one; its
\* statistics are kept.
LEMMA OverStep ==
  ASSUME S!SweepKept, S!Over
  PROVE  S!SweepKept'
<1>1. /\ UNCHANGED <<x1, x2, x4, x5, x6, x7, x9, x10, x11, x14, x15, x16, x18, x19>>
      /\ x3 = "sweeping" /\ x9 = <<>> /\ \A w \in Workers : x5[w].step = "rests"
      /\ x3' \in {"exited", "completed"} /\ (x3' = "completed" => ~x7 /\ x10 # {})
  BY DEF S!Over, S!EndsInFailure, S!crew, S!desk, S!files, S!SweepKept, S!SweepShapes
<1>2. S!SweepShapes' /\ S!HoldsWell' /\ S!KeptIsYoung' /\ S!PublishedIsOneSweep'
  BY <1>1 DEF S!SweepKept, S!SweepShapes, S!HoldsWell, S!Holds, S!KeptIsYoung, S!Young, S!PublishedIsOneSweep
<1>3. ASSUME ~x7 PROVE S!NothingMissed'
  <2>1. S!NothingMissed
    BY <1>1, <1>3 DEF S!SweepKept
  <2> QED
    BY <1>1, <2>1 DEF S!NothingMissed, S!Holds, S!OnItsWay
<1>4. x3' = "completed" => S!IsOver'
  BY <1>1 DEF S!IsOver
<1> QED
  BY <1>1, <1>2, <1>3, <1>4 DEF S!SweepKept

LEMMA ReplaceStep ==
  ASSUME S!SweepKept, S!Publish
  PROVE  S!SweepKept'
<1> DEFINE file == S!Written(x10)
<1>1. /\ UNCHANGED <<x1, x2, x4, x5, x6, x9, x10, x11, x15, x16, x18, x19>> /\ x3 = "completed"
      /\ \/ x3' = "published" /\ x7' = x7 /\ x14' = S!Written(x10)
         \/ x3' = "exited" /\ x7' = TRUE /\ x14' = x14
  BY DEF S!Publish, S!desk
<1>2. S!SweepShapes' /\ S!HoldsWell' /\ S!KeptIsYoung'
  BY <1>1 DEF S!SweepKept, S!SweepShapes, S!HoldsWell, S!Holds, S!KeptIsYoung, S!Young
<1>3. S!IsOver /\ S!NothingMissed
  BY <1>1 DEF S!SweepKept, S!IsOver
<1>4. x4 = {}
  BY <1>3, SweepConstants DEF S!IsOver, S!NothingMissed
<1>5. x19 = x2
  BY <1>3, <1>4 DEF S!IsOver, S!NothingMissed, S!Holds, S!SweepKept, S!SweepShapes
<1>6. x10 = x18 /\ x10 # {}
  BY <1>3 DEF S!IsOver, S!NothingMissed, S!OnItsWay
<1>7. file.rows = x18 /\ file.kept = x18 /\ file.whole /\ file.sweep = x1
  BY <1>5, <1>6 DEF S!Written
<1> HIDE DEF file
<1>8. \A r \in file.rows : file.sweep - r.statistics < Interval
  BY <1>7 DEF S!SweepKept, S!KeptIsYoung, S!Young
<1>9. x14' \in {file, x14}
  BY <1>1 DEF file
<1>10. S!PublishedIsOneSweep'
  BY <1>1, <1>6, <1>7, <1>8, <1>9 DEF S!SweepKept, S!PublishedIsOneSweep
<1>11. x3' # "sweeping" /\ x3' # "completed"
  BY <1>1
<1> QED
  BY <1>2, <1>10, <1>11 DEF S!SweepKept

LEMMA SaveStep ==
  ASSUME S!SweepKept, S!Save
  PROVE  S!SweepKept'
<1>1. /\ UNCHANGED <<x1, x2, x4, x5, x6, x7, x9, x10, x11, x14, x16, x18, x19>> /\ x3' = "exited"
      /\ x15' = [present |-> x2, entries |-> x11] \/ x15' = x15
  BY DEF S!Save, S!crew, S!desk
<1>2. x15'.entries \subseteq S!Stats
  BY <1>1 DEF S!SweepKept, S!SweepShapes
<1>3. S!SweepShapes' /\ S!HoldsWell' /\ S!KeptIsYoung' /\ S!PublishedIsOneSweep'
  BY <1>1, <1>2 DEF S!SweepKept, S!SweepShapes, S!HoldsWell, S!Holds, S!KeptIsYoung, S!Young, S!PublishedIsOneSweep
<1> QED
  BY <1>1, <1>3 DEF S!SweepKept

LEMMA ScriptStep ==
  ASSUME S!SweepKept, S!Script
  PROVE  S!SweepKept'
<1>1. /\ x1' = x1 /\ x2' = {} /\ x3' = "idle" /\ x4' = {} /\ x5' = [w \in Workers |-> S!Resting]
      /\ x6' = FALSE /\ x7' = FALSE /\ x9' = <<>> /\ x11' = {} /\ x18' = {} /\ x19' = {}
      /\ x14' = x14 /\ x15' = x15 /\ x16' \in {x14, x16}
  BY DEF S!Script, S!Fresh
<1>2. S!Resting \in S!Work /\ S!Resting.step = "rests"
  BY DEF S!Resting, S!Work
<1>3. x5' \in [Workers -> S!Work] /\ \A w \in Workers : x5'[w].step = "rests"
  BY <1>1, <1>2
<1>4. S!SweepShapes'
  <2>1. x9' \in Seq(S!Outcomes)
    BY <1>1
  <2>2. /\ x2' \subseteq S!Items /\ x4' \subseteq x2' /\ x19' \subseteq x2' /\ x11' \subseteq S!Stats
        /\ x6' \in BOOLEAN /\ x7' \in BOOLEAN
    BY <1>1
  <2>3. x1' \in Nat /\ x15'.entries \subseteq S!Stats
    BY <1>1 DEF S!SweepKept, S!SweepShapes
  <2> QED
    BY <1>3, <2>1, <2>2, <2>3 DEF S!SweepShapes
<1>5. S!HoldsWell' /\ S!KeptIsYoung'
  BY <1>1, <1>3 DEF S!HoldsWell, S!Holds, S!KeptIsYoung
<1>6. S!PublishedIsOneSweep'
  BY <1>1 DEF S!SweepKept, S!PublishedIsOneSweep
<1> QED
  BY <1>1, <1>4, <1>5, <1>6 DEF S!SweepKept

LEMMA CrashStep ==
  ASSUME S!SweepKept, S!Crash
  PROVE  S!SweepKept'
<1>1. /\ UNCHANGED <<x1, x2, x4, x5, x6, x10, x11, x14, x15, x16, x18, x19>>
      /\ x3' = "exited" /\ x7' = TRUE /\ x9' = <<>>
  BY DEF S!Crash, S!desk, S!files
<1>2. x9' \in Seq(S!Outcomes) /\ x7' \in BOOLEAN
  BY <1>1
<1>3. S!SweepShapes' /\ S!HoldsWell' /\ S!KeptIsYoung' /\ S!PublishedIsOneSweep'
  BY <1>1, <1>2 DEF S!SweepKept, S!SweepShapes, S!HoldsWell, S!Holds, S!KeptIsYoung, S!Young, S!PublishedIsOneSweep
<1> QED
  BY <1>1, <1>3 DEF S!SweepKept

LEMMA SweepNext == S!SweepKept /\ [S!Next]_S!vars => S!SweepKept'
<1> SUFFICES ASSUME S!SweepKept, [S!Next]_S!vars PROVE S!SweepKept'
  OBVIOUS
<1>1. CASE UNCHANGED S!vars
  <2>1. UNCHANGED <<x1, x2, x3, x4, x5, x6, x7, x9, x10, x11, x14, x15, x16, x18, x19>>
    BY <1>1 DEF S!vars, S!run, S!crew, S!desk, S!files
  <2>2. S!SweepShapes' /\ S!HoldsWell' /\ S!KeptIsYoung' /\ S!PublishedIsOneSweep'
    BY <2>1 DEF S!SweepKept, S!SweepShapes, S!HoldsWell, S!Holds, S!KeptIsYoung, S!Young, S!PublishedIsOneSweep
  <2>3. (S!NothingMissed => S!NothingMissed') /\ (S!IsOver => S!IsOver')
    BY <2>1 DEF S!NothingMissed, S!Holds, S!OnItsWay, S!IsOver
  <2> QED
    BY <2>1, <2>2, <2>3 DEF S!SweepKept
<1>2. ASSUME NEW w \in Workers, S!Scan(w) PROVE S!SweepKept'
  BY <1>2, ScanStep
<1>3. S!Begin \/ S!Collect \/ S!Over => S!SweepKept'
  BY BeginStep, CollectStep, OverStep
<1>4. S!Publish \/ S!Save \/ S!Script \/ S!Crash => S!SweepKept'
  BY ReplaceStep, SaveStep, ScriptStep, CrashStep
<1> QED
  BY <1>1, <1>2, <1>3, <1>4 DEF S!Next

\* PublishedIsOneSweep: the CSV and the snapshot are each the whole of one sweep on
\* statistics younger than their interval, for any catalogs, any crew, any interval and
\* budget, wherever the sweeps fail or the machine goes down (sweep_items, run_scrape).
THEOREM OnlyWholeSweepsArePublished == S!Spec => []PublishedIsOneSweep
<1>1. S!SweepKept => PublishedIsOneSweep
  BY DEF S!SweepKept, PublishedIsOneSweep
<1> QED
  BY <1>1, SweepInit, SweepNext, PTL DEF S!Spec

---------------------------------------------------------------------------
(* The daily check-in.                                                      *)
LEMMA SameCardinality == \A T : C!Cardinality(T) = Cardinality(T)
  BY Zenon DEF C!Cardinality, Cardinality

LEMMA DivFacts ==
  ASSUME NEW m \in Nat, NEW k \in Nat \ {0}
  PROVE  m \div k \in Nat /\ k * (m \div k) <= m /\ m < k * (m \div k) + k
  OBVIOUS
LEMMA DivOrder ==
  ASSUME NEW m \in Nat, NEW n \in Nat, NEW k \in Nat \ {0}, m <= n
  PROVE  m \div k <= n \div k
<1> DEFINE q == m \div k
           r == n \div k
<1>1. q \in Nat /\ k * q <= m /\ m < k * q + k /\ r \in Nat /\ k * r <= n /\ n < k * r + k
  BY DivFacts
<1> HIDE DEF q, r
<1>2. SUFFICES ASSUME q > r PROVE FALSE
  BY <1>1 DEF q, r
<1>3. k * q >= k * (r + 1) /\ k * (r + 1) = k * r + k
  BY <1>1, <1>2
<1> QED
  BY <1>1, <1>3

LEMMA DayOrder ==
  ASSUME NEW t \in 0 .. CheckInTime, NEW u \in 0 .. CheckInTime, t <= u
  PROVE  C!Day(t) \in C!Days /\ C!Day(t) \in Nat /\ C!Day(t) <= C!Day(u)
<1>1. /\ t \in Nat /\ u \in Nat /\ CheckInTime \in Nat /\ DayLength \in Nat \ {0} /\ t <= u
      /\ t <= CheckInTime
  BY CheckInConstants
<1>2. t \div DayLength \in Nat /\ CheckInTime \div DayLength \in Nat
  BY <1>1, DivFacts
<1>3. t \div DayLength <= u \div DayLength /\ t \div DayLength <= CheckInTime \div DayLength
  BY <1>1, DivOrder
<1> QED
  BY <1>2, <1>3 DEF C!Day, C!Days

Databases == [last : 0 .. CheckInTime \cup {None}, daily : C!Tables, hashes : SUBSET C!Tokens]
LEMMA DaysAre == C!Days \subseteq Nat
  BY CheckInConstants, DayOrder DEF C!Days

LEMMA CheckInInit == C!Init => C!CheckInKept
<1> SUFFICES ASSUME C!Init PROVE C!CheckInKept
  OBVIOUS
<1> USE DEF C!Init
<1>1. C!EmptyDb.last = None /\ C!EmptyDb.daily = [d \in C!Days |-> None] /\ C!EmptyDb.hashes = {}
  BY DEF C!EmptyDb
<1>2. C!EmptyDb \in Databases
  BY DEF C!EmptyDb, Databases, C!Tables
<1>3. C!CheckInShapes
  <2>1. x7 \in [Installs -> [day : C!Days \cup {-1}, nonce : Nat, attempted : BOOLEAN, attempts : Nat]]
    BY DEF C!NoState
  <2>2. x12 \in [C!Days -> SUBSET Installs] /\ x11 \in [Installs -> Nat]
    OBVIOUS
  <2>3. x8 \in [Installs -> {"idle", "send", "confirm"}] /\ \A i \in Installs : x8[i] = "idle"
    OBVIOUS
  <2>4. x1 \in 0 .. CheckInTime
    BY CheckInConstants
  <2>5. x2 \in BOOLEAN /\ x10 \subseteq C!Tokens /\ x4 = None
    OBVIOUS
  <2> QED
    BY <1>2, <2>1, <2>2, <2>3, <2>4, <2>5 DEF C!CheckInShapes, Databases
<1>4. C!OneToken /\ C!Counts
  <2>1. C!Sent = {}
    BY <1>1 DEF C!Sent
  <2> QED
    BY <1>1, <2>1 DEF C!OneToken, C!Counts
<1>5. C!NothingLater /\ C!DbKept /\ C!ExportKept
  BY <1>1 DEF C!NothingLater, C!DbKept, C!ExportKept
<1> QED
  BY <1>3, <1>4, <1>5 DEF C!CheckInKept

\* After a tick every row is as the invariant has it, whatever was watched before.
LEMMA TickedIs ==
  ASSUME C!CheckInKept, ~C!BackInTime(x3), NEW restarted \in BOOLEAN, x2 \/ restarted
  PROVE  /\ C!Ticked(x3, restarted) \in Databases /\ C!Ticked(x3, restarted).last = x1
         /\ C!Ticked(x3, restarted).hashes \subseteq x3.hashes
         /\ C!Sound(C!Ticked(x3, restarted), TRUE)
         /\ \A x \in C!Days : restarted /\ C!Sure(C!Ticked(x3, restarted), x) => x < C!Day(x1)
<1> DEFINE d == C!Ticked(x3, restarted)
           gap == C!IsGap(x3, restarted)
           day == C!Day(x1)
<1>1. /\ d.last = x1 /\ d.hashes = C!Pruned(x3)
      /\ d.daily = [x \in C!Days |-> IF x \in C!Touched(x3) THEN C!Row(x3.daily[x], gap) ELSE x3.daily[x]]
      /\ DOMAIN d = {"last", "daily", "hashes"}
      /\ d = [last |-> x1, hashes |-> C!Pruned(x3), daily |-> d.daily]
  BY DEF C!Ticked
<1>2. /\ x1 \in 0 .. CheckInTime /\ x3.last \in 0 .. CheckInTime \cup {None} /\ x3.daily \in C!Tables
      /\ x3.hashes \subseteq C!Tokens /\ x12 \in [C!Days -> SUBSET Installs]
  BY DEF C!CheckInKept, C!CheckInShapes
<1>3. day \in C!Days /\ day \in Nat /\ C!Days \subseteq Nat
  BY <1>2, DayOrder, DaysAre
<1>4. x3.last # None => /\ x3.last \in 0 .. CheckInTime /\ x3.last <= x1 /\ C!Day(x3.last) <= day
                        /\ C!Day(x3.last) \in C!Days
  <2> SUFFICES ASSUME x3.last # None
               PROVE  /\ x3.last \in 0 .. CheckInTime /\ x3.last <= x1 /\ C!Day(x3.last) <= day
                      /\ C!Day(x3.last) \in C!Days
    OBVIOUS
  <2>1. x3.last \in 0 .. CheckInTime /\ x3.last <= x1
    BY <1>2, CheckInConstants DEF C!BackInTime
  <2> QED
    BY <1>2, <2>1, DayOrder
<1>5. gap \in BOOLEAN /\ (~gap => ~restarted /\ x3.last # None)
  BY DEF C!IsGap
<1> HIDE DEF d, gap, day
<1>6. \A r \in C!Rows \cup {None} :
        /\ C!Row(r, gap) \in C!Rows /\ C!Row(r, gap) # None
        /\ C!Row(r, gap).complete => ~gap /\ (r # None => r.complete /\ C!Row(r, gap).count = r.count)
        /\ r = None => C!Row(r, gap).count = 0
  <2> TAKE r \in C!Rows \cup {None}
  <2>1. None \notin C!Rows
    BY CheckInConstants DEF C!Rows
  <2>2. CASE r = None
    <3>1. C!Row(r, gap) = [count |-> 0, complete |-> ~gap]
      BY <2>2 DEF C!Row
    <3>2. C!Row(r, gap) \in C!Rows
      BY <1>5, <3>1 DEF C!Rows
    <3>3. C!Row(r, gap).count = 0 /\ C!Row(r, gap).complete = ~gap
      BY <3>1
    <3> QED
      BY <2>1, <2>2, <3>2, <3>3
  <2>3. CASE r # None
    <3>1. r \in C!Rows /\ r.count \in Nat /\ r.complete \in BOOLEAN
      BY <2>3 DEF C!Rows
    <3>2. C!Row(r, gap) = [r EXCEPT !.complete = r.complete /\ ~gap]
      BY <2>3 DEF C!Row
    <3> DEFINE p == r.complete /\ ~gap
    <3>3. p \in BOOLEAN /\ (p => ~gap /\ r.complete)
      BY <1>5, <3>1
    <3>4. C!Row(r, gap) = [r EXCEPT !.complete = p]
      BY <3>2
    <3> HIDE DEF p
    <3>5. C!Row(r, gap) \in C!Rows /\ C!Row(r, gap).complete = p /\ C!Row(r, gap).count = r.count
      BY <3>1, <3>3, <3>4 DEF C!Rows
    <3> QED
      BY <2>1, <2>3, <3>3, <3>5
  <2> QED
    BY <2>2, <2>3
<1>7. d.daily \in C!Tables
  BY <1>1, <1>2, <1>6 DEF C!Tables
<1>8. C!Pruned(x3) \subseteq x3.hashes /\ \A h \in x3.hashes : h.day = day => h \in C!Pruned(x3)
  BY DEF C!Pruned, day
<1>9. d \in Databases
  BY <1>1, <1>2, <1>7, <1>8 DEF Databases
<1>10. C!DbKept /\ C!NothingLater
  BY DEF C!CheckInKept
<1>11. C!Touched(x3) = (IF x3.last = None THEN day ELSE C!Day(x3.last)) .. day
  BY DEF C!Touched, day
<1>12. \A x \in C!Days : x3.daily[x] # None => x3.last # None /\ x <= C!Day(x3.last)
  BY <1>10 DEF C!DbKept, C!Sound
<1>13. d.daily[day] # None
  BY <1>1, <1>2, <1>3, <1>4, <1>6, <1>11 DEF C!Tables
<1>14. ASSUME NEW x \in C!Days, d.daily[x] # None PROVE x <= day
  <2>1. CASE x \in C!Touched(x3)
    BY <1>3, <1>4, <1>11, <2>1
  <2>2. CASE x \notin C!Touched(x3)
    BY <1>1, <1>3, <1>4, <1>12, <1>14, <2>2
  <2> QED
    BY <2>1, <2>2
<1>15. ASSUME NEW x \in C!Days, C!Sure(d, x)
       PROVE  /\ x3.last # None /\ (restarted => x < C!Day(x3.last))
              /\ \/ C!Sure(x3, x) /\ d.daily[x].count = x3.daily[x].count /\ (x2 \/ x < C!Day(x3.last))
                 \/ x2 /\ x3.daily[x] = None /\ x > C!Day(x3.last) /\ d.daily[x].count = 0
  <2>1. d.daily[x] # None /\ d.daily[x].complete /\ x3.daily[x] \in C!Rows \cup {None} /\ x \in Nat
    BY <1>2, <1>3, <1>15 DEF C!Sure, C!Tables
  <2>2. CASE x \in C!Touched(x3)
    <3>1. d.daily[x] = C!Row(x3.daily[x], gap) /\ ~gap /\ ~restarted /\ x2 /\ x3.last # None
      BY <1>1, <1>5, <1>6, <2>1, <2>2
    <3>2. x3.daily[x] = None => x > C!Day(x3.last) /\ d.daily[x].count = 0
      <4>1. x >= C!Day(x3.last)
        BY <1>3, <1>4, <1>11, <2>2, <3>1
      <4>2. x3.daily[x] = None => x # C!Day(x3.last)
        BY <1>10, <3>1 DEF C!DbKept, C!Sound
      <4>3. x3.daily[x] = None => d.daily[x].count = 0
        BY <1>6, <3>1
      <4>4. C!Day(x3.last) \in Nat /\ x \in Nat
        BY <1>3, <1>4, <2>1, <3>1
      <4> QED
        BY <4>1, <4>2, <4>3, <4>4
    <3> QED
      BY <1>6, <2>1, <3>1, <3>2 DEF C!Sure
  <2>3. CASE x \notin C!Touched(x3)
    <3>1. d.daily[x] = x3.daily[x]
      BY <1>1, <2>3
    <3>2. x3.last # None /\ x <= C!Day(x3.last)
      BY <1>12, <2>1, <3>1
    <3>3. x < C!Day(x3.last)
      <4>1. C!Day(x3.last) \in Nat /\ x \in Nat /\ C!Day(x3.last) <= day
        BY <1>3, <1>4, <2>1, <3>2
      <4>2. x \notin C!Day(x3.last) .. day
        BY <1>11, <2>3, <3>2
      <4> QED
        BY <1>3, <3>2, <4>1, <4>2
    <3> QED
      BY <2>1, <3>1, <3>2, <3>3 DEF C!Sure
  <2> QED
    BY <2>2, <2>3
<1>16. ASSUME NEW x \in C!Days \ x14, C!Sure(d, x)
       PROVE  /\ d.daily[x].count = C!Cardinality(x12[x]) /\ x \notin x13
              /\ x = day => \A i \in x12[x] : \E h \in d.hashes : h.day = x /\ h.install = i
  <2>1. x3.last # None /\ C!Sound(x3, x2)
    BY <1>10, <1>15, <1>16 DEF C!DbKept
  <2>2. CASE C!Sure(x3, x) /\ d.daily[x].count = x3.daily[x].count /\ (x2 \/ x < C!Day(x3.last))
    <3>1. /\ x3.daily[x].count = C!Cardinality(x12[x]) /\ x \notin x13 /\ x <= C!Day(x3.last)
          /\ x = C!Day(x3.last) => \A i \in x12[x] : \E h \in x3.hashes : h.day = x /\ h.install = i
      BY <1>16, <2>1, <2>2 DEF C!Sound, C!Sure
    <3>2. x = day => x = C!Day(x3.last)
      <4>1. C!Day(x3.last) \in Nat /\ x \in Nat /\ C!Day(x3.last) <= day
        BY <1>3, <1>4, <2>1
      <4> QED
        BY <1>3, <3>1, <4>1
    <3> QED
      BY <1>1, <1>8, <2>2, <3>1, <3>2
  <2>3. CASE x2 /\ x3.daily[x] = None /\ x > C!Day(x3.last) /\ d.daily[x].count = 0
    <3>1. C!Top = C!Day(x3.last)
      BY <2>3 DEF C!Top
    <3>2. ~(x <= C!Top)
      <4>1. C!Day(x3.last) \in Nat /\ x \in Nat
        BY <1>3, <1>4, <2>1
      <4> QED
        BY <2>3, <3>1, <4>1
    <3>3. x12[x] = {} /\ x \notin x13
      BY <1>10, <1>16, <3>2 DEF C!NothingLater
    <3> QED
      BY <2>3, <3>3, FS_EmptySet, SameCardinality
  <2> QED
    BY <1>15, <1>16, <2>2, <2>3
<1>17. C!Sound(d, TRUE)
  <2>1. d.last = x1
    BY <1>1
  <2> QED
    BY <1>13, <1>14, <1>16, <2>1 DEF C!Sound, day
<1>18. \A x \in C!Days : restarted /\ C!Sure(d, x) => x < day
  <2> SUFFICES ASSUME NEW x \in C!Days, restarted, C!Sure(d, x) PROVE x < day
    OBVIOUS
  <2>1. x3.last # None /\ x < C!Day(x3.last)
    BY <1>15
  <2>2. C!Day(x3.last) \in Nat /\ x \in Nat /\ C!Day(x3.last) <= day
    BY <1>3, <1>4, <2>1
  <2> QED
    BY <1>3, <2>1, <2>2
<1> QED
  BY <1>1, <1>8, <1>9, <1>17, <1>18 DEF d, day

\* Where the collector is in its days.
LEMMA TopIs ==
  ASSUME C!CheckInKept
  PROVE  /\ C!Top \in Nat /\ C!Day(x1) \in Nat /\ C!Day(x1) \in C!Days
         /\ x3.last # None => /\ x3.last \in 0 .. CheckInTime /\ C!Day(x3.last) \in C!Days
                             /\ C!Day(x3.last) \in Nat /\ C!Day(x3.last) <= C!Top
         /\ x2 => x3.last # None /\ C!Top = C!Day(x3.last)
         /\ ~x2 => C!Top = C!DayAt(x1)
         /\ ~C!BackInTime(x3) => C!Top <= C!Day(x1) /\ (~x2 => C!Top = C!Day(x1))
<1>1. x1 \in 0 .. CheckInTime /\ x3.last \in 0 .. CheckInTime \cup {None} /\ x2 \in BOOLEAN
  BY DEF C!CheckInKept, C!CheckInShapes
<1>2. C!Day(x1) \in C!Days /\ C!Day(x1) \in Nat
  BY <1>1, DayOrder
<1>3. x2 => x3.last # None /\ C!Top = C!Day(x3.last)
  BY DEF C!CheckInKept, C!DbKept, C!Top
<1>4. ~x2 => C!Top = C!DayAt(x1)
  BY DEF C!Top
<1>5. CASE x3.last = None
  <2>1. ~x2 /\ C!DayAt(x1) = C!Day(x1)
    BY <1>3, <1>5 DEF C!DayAt
  <2> QED
    BY <1>2, <1>4, <1>5, <2>1
<1>6. CASE x3.last # None
  <2>1. x3.last \in 0 .. CheckInTime /\ x3.last \in Int /\ x1 \in Int
    BY <1>1, <1>6, CheckInConstants
  <2>2. C!Day(x3.last) \in C!Days /\ C!Day(x3.last) \in Nat
    BY <2>1, DayOrder
  <2>3. CASE x1 < x3.last
    <3>1. C!DayAt(x1) = C!Day(x3.last) /\ C!BackInTime(x3)
      BY <1>6, <2>3 DEF C!DayAt, C!BackInTime
    <3> QED
      BY <1>1, <1>2, <1>3, <1>4, <1>6, <2>1, <2>2, <3>1
  <2>4. CASE ~(x1 < x3.last)
    <3>1. C!DayAt(x1) = C!Day(x1)
      BY <1>6, <2>4 DEF C!DayAt
    <3>2. x3.last <= x1
      BY <2>1, <2>4
    <3>3. C!Day(x3.last) <= C!Day(x1)
      BY <1>1, <2>1, <3>2, DayOrder
    <3> QED
      BY <1>1, <1>2, <1>3, <1>4, <1>6, <2>1, <2>2, <3>1, <3>3
  <2> QED
    BY <2>3, <2>4
<1> QED
  BY <1>5, <1>6

\* What is over stays over.
LEMMA TopRises ==
  ASSUME C!CheckInKept, UNCHANGED <<x4, x12, x13, x14>>, C!Top' \in Nat, C!Top <= C!Top'
  PROVE  C!NothingLater' /\ C!ExportKept'
<1>1. C!Top \in Nat /\ C!Days \subseteq Nat /\ C!NothingLater /\ C!ExportKept
  BY TopIs, DaysAre DEF C!CheckInKept
<1>2. C!NothingLater'
  <2> SUFFICES ASSUME NEW x \in C!Days \ x14, x12[x] # {} \/ x \in x13 PROVE x <= C!Top'
    BY DEF C!NothingLater
  <2>1. x <= C!Top
    BY <1>1 DEF C!NothingLater
  <2> QED
    BY <1>1, <2>1
<1>3. C!ExportKept'
  <2> SUFFICES ASSUME x4 # None, NEW x \in C!Days
               PROVE  /\ x4.daily[x] # None => x <= C!Day(x4.at)
                      /\ x < C!Day(x4.at) /\ x \notin x14 => x < C!Top' /\ C!Exact(x4.daily[x], x)
    BY DEF C!ExportKept, C!Exact
  <2>1. /\ x4.daily[x] # None => x <= C!Day(x4.at)
        /\ x < C!Day(x4.at) /\ x \notin x14 => x < C!Top /\ C!Exact(x4.daily[x], x)
    BY <1>1 DEF C!ExportKept
  <2>2. x < C!Top => x < C!Top'
    BY <1>1
  <2> QED
    BY <2>1, <2>2
<1> QED
  BY <1>2, <1>3

LEMMA TokensKept ==
  ASSUME C!OneToken, C!Sent' \subseteq C!Sent,
         \A t \in C!Sent : x7'[t.install].day = x7[t.install].day /\ x7'[t.install].nonce = x7[t.install].nonce
  PROVE  C!OneToken'
  BY DEF C!OneToken

\* The database is replaced by one the tick of this moment left behind.
LEMMA DatabaseStep ==
  ASSUME C!CheckInKept, ~C!BackInTime(x3), x3' \in Databases, x3'.last = x1,
         x3'.hashes \subseteq x3.hashes, C!Sound(x3', TRUE), x2' \in BOOLEAN,
         UNCHANGED <<x1, x4, x5, x6, x7, x8, x9, x10, x11, x12, x13, x14>>
  PROVE  C!CheckInKept'
<1>1. C!CheckInShapes'
  BY DEF C!CheckInKept, C!CheckInShapes, Databases
<1>2. x1 \in Nat /\ x1 # None
  BY CheckInConstants DEF C!CheckInKept, C!CheckInShapes
<1>3. C!DbKept'
  <2>1. C!Sound(x3, x2)'
    BY DEF C!Sound, C!Sure, C!Day, C!Days
  <2> QED
    BY <1>2, <2>1 DEF C!DbKept
<1>4. C!Counts'
  BY DEF C!CheckInKept, C!Counts
<1>5. C!OneToken'
  <2>1. C!Sent' \subseteq C!Sent
    BY DEF C!Sent
  <2> QED
    BY <2>1, TokensKept DEF C!CheckInKept
<1>6. C!Top' = C!Day(x1)
  <2>1. ~(x1 < x3'.last)
    BY <1>2
  <2> QED
    BY <2>1 DEF C!Top, C!DayAt, C!Day
<1>7. C!NothingLater' /\ C!ExportKept'
  BY <1>6, TopIs, TopRises
<1> QED
  BY <1>1, <1>3, <1>4, <1>5, <1>7 DEF C!CheckInKept

LEMMA TickStep ==
  ASSUME C!CheckInKept, C!Tick \/ C!Start
  PROVE  C!CheckInKept'
<1>1. /\ ~C!BackInTime(x3) /\ x2' = TRUE
      /\ UNCHANGED <<x1, x4, x5, x6, x7, x8, x9, x10, x11, x12, x13, x14>>
  BY DEF C!Tick, C!Start, C!client, C!CheckInKept, C!CheckInShapes
<1>2. PICK restarted \in BOOLEAN : x3' = C!Ticked(x3, restarted) /\ (x2 \/ restarted)
  BY DEF C!Tick, C!Start
<1> QED
  BY <1>1, <1>2, TickedIs, DatabaseStep

LEMMA StopStep ==
  ASSUME C!CheckInKept, C!Stop
  PROVE  C!CheckInKept'
<1>1. /\ x2 /\ x2' = FALSE /\ x13' = x13 \cup {C!DayAt(x1)}
      /\ UNCHANGED <<x1, x3, x4, x5, x6, x7, x8, x9, x10, x11, x12, x14>>
  BY DEF C!Stop, C!client
<1>2. C!CheckInShapes' /\ C!Counts' /\ C!OneToken'
  <2>1. C!Sent' = C!Sent
    BY <1>1 DEF C!Sent
  <2> QED
    BY <1>1, <2>1 DEF C!CheckInKept, C!CheckInShapes, C!Counts, C!OneToken
<1>3. /\ x3.last # None /\ C!Top = C!Day(x3.last) /\ C!Top \in Nat /\ C!Days \subseteq Nat
      /\ x3.last \in 0 .. CheckInTime /\ x1 \in 0 .. CheckInTime /\ C!DbKept /\ C!NothingLater /\ C!ExportKept
  BY <1>1, TopIs, DaysAre DEF C!CheckInKept, C!CheckInShapes
<1> DEFINE top == C!DayAt(x1)
<1>4. top \in Nat /\ C!Top <= top
  <2>1. CASE x1 < x3.last
    BY <1>3, <2>1 DEF C!DayAt
  <2>2. CASE ~(x1 < x3.last)
    <3>1. x3.last <= x1
      BY <1>3, <2>2, CheckInConstants
    <3>2. C!Day(x3.last) <= C!Day(x1) /\ C!Day(x1) \in Nat
      BY <1>3, <3>1, DayOrder
    <3> QED
      BY <1>3, <2>2, <3>2 DEF C!DayAt
  <2> QED
    BY <2>1, <2>2
<1>5. C!Top' = top
  BY <1>1 DEF C!Top, C!DayAt, C!Day
<1> HIDE DEF top
<1>6. x13' = x13 \cup {top}
  BY <1>1 DEF top
<1>7. C!DbKept'
  <2>1. \A x \in C!Days : x < C!Day(x3.last) => x # top
    BY <1>3, <1>4
  <2>2. C!Sound(x3, TRUE)
    BY <1>1, <1>3 DEF C!DbKept
  <2>3. C!Sound(x3, FALSE)'
    BY <1>1, <1>6, <2>1, <2>2 DEF C!Sound, C!Sure, C!Day, C!Days
  <2> QED
    BY <1>1, <1>3, <2>3 DEF C!DbKept
<1>8. C!NothingLater'
  <2> SUFFICES ASSUME NEW x \in C!Days \ x14, x12[x] # {} \/ x \in x13' PROVE x <= top
    BY <1>1, <1>5 DEF C!NothingLater, C!Days, C!Day
  <2>1. x = top \/ x <= C!Top
    BY <1>3, <1>6 DEF C!NothingLater
  <2> QED
    BY <1>3, <1>4, <2>1
<1>9. C!ExportKept'
  <2> SUFFICES ASSUME x4 # None, NEW x \in C!Days
               PROVE  /\ x4.daily[x] # None => x <= C!Day(x4.at)
                      /\ x < C!Day(x4.at) /\ x \notin x14 => x < top /\ C!Exact(x4.daily[x], x)'
    BY <1>1, <1>5 DEF C!ExportKept, C!Exact, C!Days, C!Day
  <2>1. /\ x4.daily[x] # None => x <= C!Day(x4.at)
        /\ x < C!Day(x4.at) /\ x \notin x14 => x < C!Top /\ C!Exact(x4.daily[x], x)
    BY <1>3 DEF C!ExportKept
  <2>2. x < C!Top => x < top /\ x # top
    BY <1>3, <1>4
  <2>3. x # top /\ C!Exact(x4.daily[x], x) => C!Exact(x4.daily[x], x)'
    BY <1>1, <1>6 DEF C!Exact
  <2> QED
    BY <2>1, <2>2, <2>3
<1> QED
  BY <1>2, <1>7, <1>8, <1>9 DEF C!CheckInKept

\* The database is lost; the days a clock set back had gone over are forgotten with it.
LEMMA LoseStep ==
  ASSUME C!CheckInKept, C!Lose
  PROVE  C!CheckInKept'
<1>1. /\ ~x2 /\ x2' = FALSE /\ x3' = C!EmptyDb
      /\ x14' = x14 \cup IF C!BackInTime(x3) THEN C!Day(x1) .. C!Day(x3.last) ELSE {}
      /\ UNCHANGED <<x1, x4, x5, x6, x7, x8, x9, x10, x11, x12, x13>>
  BY DEF C!Lose, C!client
<1>2. C!EmptyDb.last = None /\ C!EmptyDb.daily = [x \in C!Days |-> None] /\ C!EmptyDb.hashes = {}
  BY DEF C!EmptyDb
<1>3. C!EmptyDb \in Databases
  BY DEF C!EmptyDb, Databases, C!Tables
<1>4. C!CheckInShapes'
  BY <1>1, <1>3 DEF C!CheckInKept, C!CheckInShapes, Databases
<1>5. C!OneToken' /\ C!Counts' /\ C!DbKept'
  <2>1. C!Sent' \subseteq C!Sent
    BY <1>1, <1>2 DEF C!Sent
  <2>2. C!OneToken'
    BY <1>1, <2>1, TokensKept DEF C!CheckInKept
  <2> QED
    BY <1>1, <1>2, <2>2 DEF C!Counts, C!DbKept, C!Days, C!Day
<1>6. C!Top' = C!Day(x1)
  BY <1>1, <1>2 DEF C!Top, C!DayAt, C!Day
<1>7. /\ C!Top \in Nat /\ C!Day(x1) \in Nat /\ C!Days \subseteq Nat /\ C!NothingLater /\ C!ExportKept
      /\ x3.last # None => C!Day(x3.last) \in Nat
  BY TopIs, DaysAre DEF C!CheckInKept
<1>8. \A x \in C!Days \ x14' : x <= C!Top => x <= C!Day(x1) /\ (x < C!Top => x < C!Day(x1))
  <2>1. CASE C!BackInTime(x3)
    <3>1. x3.last # None /\ C!Top = C!Day(x3.last)
      BY <1>1, <2>1, TopIs DEF C!BackInTime, C!DayAt
    <3>2. \A x \in C!Days \ x14' : x \notin C!Day(x1) .. C!Top
      BY <1>1, <2>1, <3>1
    <3> QED
      BY <1>7, <3>2
  <2>2. CASE ~C!BackInTime(x3)
    BY <1>1, <1>7, <2>2, TopIs
  <2> QED
    BY <2>1, <2>2
<1>9. C!NothingLater'
  BY <1>1, <1>6, <1>7, <1>8 DEF C!NothingLater, C!Days, C!Day
<1>10. C!ExportKept'
  <2> SUFFICES ASSUME x4 # None, NEW x \in C!Days
               PROVE  /\ x4.daily[x] # None => x <= C!Day(x4.at)
                      /\ x < C!Day(x4.at) /\ x \notin x14' => x < C!Day(x1) /\ C!Exact(x4.daily[x], x)
    BY <1>1, <1>6 DEF C!ExportKept, C!Exact, C!Days, C!Day
  <2>1. /\ x4.daily[x] # None => x <= C!Day(x4.at)
        /\ x < C!Day(x4.at) /\ x \notin x14 => x < C!Top /\ C!Exact(x4.daily[x], x)
    BY <1>7 DEF C!ExportKept
  <2>2. x \notin x14' => x \notin x14
    BY <1>1
  <2>3. x \notin x14' /\ x < C!Top => x < C!Day(x1)
    BY <1>7, <1>8
  <2> QED
    BY <2>1, <2>2, <2>3
<1> QED
  BY <1>4, <1>5, <1>9, <1>10 DEF C!CheckInKept

LEMMA ExportStep ==
  ASSUME C!CheckInKept, C!Export
  PROVE  C!CheckInKept'
<1>1. /\ x3.last # None /\ x4' = [at |-> x3.last, daily |-> x3.daily]
      /\ UNCHANGED <<x1, x2, x3, x5, x6, x7, x8, x9, x10, x11, x12, x13, x14>>
  BY DEF C!Export, C!client
<1>2. C!Top' = C!Top
  BY <1>1 DEF C!Top, C!DayAt, C!Day
<1>3. C!CheckInShapes'
  BY <1>1 DEF C!CheckInKept, C!CheckInShapes
<1>4. C!OneToken' /\ C!Counts' /\ C!NothingLater'
  <2>1. C!Sent' = C!Sent
    BY <1>1 DEF C!Sent
  <2> QED
    BY <1>1, <1>2, <2>1 DEF C!CheckInKept, C!OneToken, C!Counts, C!NothingLater, C!Days, C!Day
<1>5. C!DbKept'
  BY <1>1 DEF C!CheckInKept, C!DbKept, C!Sound, C!Sure, C!Days, C!Day
<1>6. C!ExportKept'
  <2> SUFFICES ASSUME NEW x \in C!Days
               PROVE  /\ x3.daily[x] # None => x <= C!Day(x3.last)
                      /\ x < C!Day(x3.last) /\ x \notin x14 => x < C!Top /\ C!Exact(x3.daily[x], x)
    BY <1>1, <1>2 DEF C!ExportKept, C!Exact, C!Days, C!Day
  <2>1. C!Sound(x3, x2) /\ C!Day(x3.last) <= C!Top /\ C!Day(x3.last) \in Nat /\ C!Top \in Nat /\ x \in Nat
    BY <1>1, TopIs, DaysAre DEF C!CheckInKept, C!DbKept
  <2>2. x < C!Day(x3.last) => x < C!Top
    BY <2>1
  <2> QED
    BY <2>1, <2>2 DEF C!Sound, C!Sure, C!Exact
<1> QED
  BY <1>3, <1>4, <1>5, <1>6 DEF C!CheckInKept

\* Two rows of a day put together.
Claims(row) == row # None /\ row.complete = TRUE
Joined(row, mine, theirs, x) ==
  /\ row \in C!Rows \cup {None}
  /\ mine # None \/ x \in C!Uncertain => row # None
  /\ mine = None /\ theirs = None /\ x \notin C!Uncertain => row = None
  /\ Claims(row) => x \notin C!Uncertain
  /\ Claims(row) => \E r \in {mine, theirs} : Claims(r) /\ row.count = r.count
LEMMA MergedIs ==
  ASSUME NEW mine \in C!Rows \cup {None}, NEW theirs \in C!Rows \cup {None}, NEW x \in C!Days,
         NEW row, C!Day(x1) \in Nat, row = C!Merged(mine, theirs, x)
  PROVE  Joined(row, mine, theirs, x)
<1> USE DEF Joined
<1> DEFINE past == x < C!Day(x1)
           both == IF theirs = None THEN mine ELSE
                   IF mine = None THEN [theirs EXCEPT !.complete = theirs.complete /\ past] ELSE
                   [count |-> C!Larger(mine.count, theirs.count),
                    complete |-> mine.complete /\ theirs.complete /\ past]
<1>0. row = IF x \notin C!Uncertain THEN both ELSE C!Row(both, TRUE)
  BY DEF C!Merged
<1>1. None \notin C!Rows
  BY CheckInConstants DEF C!Rows
<1>2. past \in BOOLEAN
  BY DaysAre
<1> HIDE DEF past
<1>3. /\ both \in C!Rows \cup {None}
      /\ mine # None \/ theirs # None => both # None
      /\ mine = None /\ theirs = None => both = None
      /\ Claims(both) => \E r \in {mine, theirs} : Claims(r) /\ both.count = r.count
  <2>1. CASE theirs = None
    BY <2>1 DEF Claims
  <2>2. CASE theirs # None /\ mine = None
    <3> DEFINE p == theirs.complete /\ past
    <3>1. both = [theirs EXCEPT !.complete = p] /\ theirs \in C!Rows
      BY <2>2
    <3>2. p \in BOOLEAN /\ (p => theirs.complete = TRUE)
      BY <1>2, <3>1 DEF C!Rows
    <3> HIDE DEF p, both
    <3>3. both \in C!Rows /\ both.complete = p /\ both.count = theirs.count
      BY <3>1, <3>2 DEF C!Rows
    <3> QED
      BY <1>1, <2>2, <3>2, <3>3 DEF Claims
  <2>3. CASE theirs # None /\ mine # None
    <3> DEFINE p == mine.complete /\ theirs.complete /\ past
    <3>1. both = [count |-> C!Larger(mine.count, theirs.count), complete |-> p]
          /\ theirs \in C!Rows /\ mine \in C!Rows
      BY <2>3
    <3>2. p \in BOOLEAN /\ (p => theirs.complete = TRUE /\ mine.complete = TRUE) /\ mine.count \in Nat /\ theirs.count \in Nat
      BY <1>2, <3>1 DEF C!Rows
    <3> HIDE DEF p, both
    <3>3. C!Larger(mine.count, theirs.count) \in Nat
      BY <3>2 DEF C!Larger
    <3>4. both \in C!Rows /\ both.complete = p /\ both.count = C!Larger(mine.count, theirs.count)
      BY <3>1, <3>2, <3>3 DEF C!Rows
    <3> QED
      BY <1>1, <2>3, <3>2, <3>4 DEF C!Larger, Claims
  <2> QED
    BY <2>1, <2>2, <2>3
<1> HIDE DEF both
<1>4. C!Row(both, TRUE) \in C!Rows /\ ~C!Row(both, TRUE).complete
  <2>1. CASE both = None
    BY <2>1 DEF C!Row, C!Rows
  <2>2. CASE both # None
    <3>1. C!Row(both, TRUE) = [both EXCEPT !.complete = FALSE]
      BY <2>2 DEF C!Row
    <3> QED
      BY <1>3, <2>2, <3>1 DEF C!Rows
  <2> QED
    BY <2>1, <2>2
<1>5. CASE x \notin C!Uncertain
  <2>1. row = both
    BY <1>0, <1>5
  <2> QED
    BY <1>3, <1>5, <2>1
<1>6. CASE x \in C!Uncertain
  <2>1. row \in C!Rows /\ ~row.complete /\ row # None
    BY <1>0, <1>1, <1>4, <1>6
  <2> QED
    BY <1>6, <2>1 DEF Claims
<1> QED
  BY <1>5, <1>6

LEMMA RestoreStep ==
  ASSUME C!CheckInKept, C!Restore
  PROVE  C!CheckInKept'
<1> DEFINE d == C!Ticked(x3, TRUE)
           m == [d EXCEPT !.daily = [x \in C!Days |-> C!Merged(d.daily[x], x4.daily[x], x)]]
           day == C!Day(x1)
<1>1. /\ x4 # None /\ x4.at <= x1 /\ ~C!BackInTime(x3) /\ x3' = m
      /\ UNCHANGED <<x1, x2, x4, x5, x6, x7, x8, x9, x10, x11, x12, x13, x14>>
  BY DEF C!Restore, C!client
<1>2. /\ d \in Databases /\ d.last = x1 /\ d.hashes \subseteq x3.hashes /\ C!Sound(d, TRUE)
      /\ \A x \in C!Days : C!Sure(d, x) => x < day
  BY <1>1, TickedIs
<1>3. /\ x1 \in 0 .. CheckInTime /\ x4.at \in 0 .. CheckInTime /\ x4.daily \in C!Tables /\ x2 \in BOOLEAN
      /\ C!Days \subseteq Nat /\ C!ExportKept
  BY <1>1, DaysAre DEF C!CheckInKept, C!CheckInShapes
<1>4. day \in C!Days /\ day \in Nat /\ C!Day(x4.at) \in Nat /\ C!Day(x4.at) <= day
  BY <1>1, <1>3, DayOrder
<1> HIDE DEF d, day
<1>5. /\ m.daily = [x \in C!Days |-> C!Merged(d.daily[x], x4.daily[x], x)] /\ m.last = x1 /\ m.hashes = d.hashes
      /\ m = [last |-> x1, daily |-> m.daily, hashes |-> d.hashes]
  BY <1>2 DEF Databases
<1>6. /\ C!Uncertain = C!Day(x4.at) .. day /\ day = C!Day(x1) /\ d.daily \in C!Tables
  BY <1>2 DEF C!Uncertain, day, Databases
<1> HIDE DEF m
<1>7. ASSUME NEW x \in C!Days
      PROVE  /\ d.daily[x] \in C!Rows \cup {None} /\ x4.daily[x] \in C!Rows \cup {None} /\ x \in Nat
             /\ m.daily[x] \in C!Rows \cup {None}
             /\ d.daily[x] # None \/ x \in C!Uncertain => m.daily[x] # None
             /\ d.daily[x] = None /\ x4.daily[x] = None /\ x \notin C!Uncertain => m.daily[x] = None
             /\ C!Sure(m, x) => x \notin C!Uncertain
             /\ C!Sure(m, x) => \E r \in {d.daily[x], x4.daily[x]} : Claims(r) /\ m.daily[x].count = r.count
  <2>1. d.daily[x] \in C!Rows \cup {None} /\ x4.daily[x] \in C!Rows \cup {None} /\ x \in Nat
    BY <1>3, <1>6 DEF C!Tables
  <2>2. m.daily[x] = C!Merged(d.daily[x], x4.daily[x], x) /\ C!Day(x1) \in Nat
    BY <1>4, <1>5, <1>6
  <2>3. Joined(m.daily[x], d.daily[x], x4.daily[x], x)
    BY <2>1, <2>2, MergedIs
  <2> QED
    BY <2>1, <2>3 DEF Joined, Claims, C!Sure
<1>8. m \in Databases
  <2>1. m.daily \in C!Tables
    BY <1>5, <1>7 DEF C!Tables
  <2> QED
    BY <1>2, <1>5, <2>1 DEF Databases
<1>9. m.daily[day] # None
  <2>1. day \in C!Uncertain
    BY <1>4, <1>6
  <2> QED
    BY <1>4, <1>7, <2>1
<1>10. ASSUME NEW x \in C!Days, m.daily[x] # None PROVE x <= day
  <2>1. CASE d.daily[x] # None
    BY <1>2, <1>6, <2>1 DEF C!Sound
  <2>2. CASE x4.daily[x] # None
    <3>1. x <= C!Day(x4.at)
      BY <1>1, <1>3, <2>2 DEF C!ExportKept
    <3> QED
      BY <1>4, <1>7, <3>1
  <2>3. CASE x \in C!Uncertain
    BY <1>4, <1>6, <1>7, <2>3
  <2> QED
    BY <1>7, <1>10, <2>1, <2>2, <2>3
<1>11. ASSUME NEW x \in C!Days \ x14, C!Sure(m, x)
       PROVE  m.daily[x].count = C!Cardinality(x12[x]) /\ x \notin x13 /\ x # day
  <2> DEFINE mine == d.daily[x]
             theirs == x4.daily[x]
  <2>1. /\ mine \in C!Rows \cup {None} /\ theirs \in C!Rows \cup {None} /\ x \notin C!Uncertain
        /\ \E r \in {mine, theirs} : Claims(r) /\ m.daily[x].count = r.count
    BY <1>7, <1>11
  <2>2. x <= day /\ x # day /\ x < C!Day(x4.at)
    <3>1. x <= day
      BY <1>10, <1>11 DEF C!Sure
    <3>2. x \in Nat /\ x \notin C!Day(x4.at) .. day
      BY <1>6, <1>7, <1>11
    <3> QED
      BY <1>4, <3>1, <3>2
  <2>3. theirs # None /\ theirs.complete = TRUE => theirs.count = C!Cardinality(x12[x]) /\ x \notin x13
    BY <1>1, <1>3, <1>11, <2>2 DEF C!ExportKept, C!Exact
  <2>4. mine # None /\ mine.complete = TRUE => mine.count = C!Cardinality(x12[x]) /\ x \notin x13
    BY <1>2, <1>11 DEF C!Sound, C!Sure
  <2>5. m.daily[x] # None /\ m.daily[x].complete
    BY <1>11 DEF C!Sure
  <2> HIDE DEF mine, theirs
  <2> QED
    BY <2>1, <2>2, <2>3, <2>4, <2>5 DEF Claims
<1>12. C!Sound(m, TRUE)
  BY <1>5, <1>6, <1>9, <1>10, <1>11 DEF C!Sound
<1>13. x3'.last = x1 /\ x3'.hashes \subseteq x3.hashes /\ x3' \in Databases /\ C!Sound(x3', TRUE)
  BY <1>1, <1>2, <1>5, <1>8, <1>12
<1> QED
  BY <1>1, <1>3, <1>13, DatabaseStep

\* A report reaches the collector, or does not: what holds of its database after it.
LEMMA Unreached ==
  ASSUME C!CheckInKept, UNCHANGED <<x1, x2, x3, x4, x12, x13, x14>>
  PROVE  /\ x3' \in Databases /\ x12' \in [C!Days -> SUBSET Installs] /\ x3'.hashes \subseteq x3.hashes
         /\ C!DbKept' /\ C!Counts' /\ C!NothingLater' /\ C!ExportKept'
<1>1. x3' \in Databases /\ x12' \in [C!Days -> SUBSET Installs] /\ x3'.hashes \subseteq x3.hashes
  BY DEF C!CheckInKept, C!CheckInShapes, Databases
<1>2. C!DbKept' /\ C!Counts'
  BY DEF C!CheckInKept, C!DbKept, C!Counts, C!Sound, C!Sure, C!Days, C!Day
<1>3. C!Top' = C!Top
  BY DEF C!Top, C!DayAt, C!Day
<1>4. C!NothingLater' /\ C!ExportKept'
  BY <1>3, TopIs, TopRises
<1> QED
  BY <1>1, <1>2, <1>4

LEMMA Reached ==
  ASSUME C!CheckInKept, NEW t \in C!Sent, C!Arrives(t), UNCHANGED <<x1, x2, x4, x13, x14>>
  PROVE  /\ x3' \in Databases /\ x12' \in [C!Days -> SUBSET Installs]
         /\ x3'.hashes \subseteq x3.hashes \cup {t}
         /\ C!DbKept' /\ C!Counts' /\ C!NothingLater' /\ C!ExportKept'
<1>1. CASE ~C!Accepts(t)
  <2>1. UNCHANGED <<x1, x2, x3, x4, x12, x13, x14>>
    BY <1>1 DEF C!Arrives
  <2> QED
    BY <2>1, Unreached
<1>2. CASE C!Accepts(t)
  <2> DEFINE d == C!Ticked(x3, FALSE)
             day == C!Day(x1)
  <2>1. /\ x2 /\ ~C!BackInTime(x3) /\ t.day = day /\ x3' = C!Counted(d, t)
        /\ x12' = [x12 EXCEPT ![t.day] = x12[t.day] \cup {t.install}]
    BY <1>2 DEF C!Accepts, C!Arrives
  <2>2. d \in Databases /\ d.last = x1 /\ d.hashes \subseteq x3.hashes /\ C!Sound(d, TRUE)
    BY <2>1, TickedIs
  <2>3. /\ x1 \in 0 .. CheckInTime /\ x2 \in BOOLEAN /\ C!Days \subseteq Nat
        /\ x12 \in [C!Days -> SUBSET Installs] /\ x3.hashes \subseteq C!Tokens
    BY DaysAre DEF C!CheckInKept, C!CheckInShapes
  <2>4. t \in C!Tokens /\ t.install \in Installs
    BY DEF C!CheckInKept, C!CheckInShapes, C!Sent, C!Tokens
  <2>5. /\ day \in C!Days /\ day \in Nat /\ C!Top \in Nat /\ C!Top <= day
    BY <2>1, TopIs
  <2>6. d.daily \in C!Tables /\ d.daily[day] # None /\ d.daily[day] \in C!Rows
    BY <2>2, <2>5 DEF Databases, C!Sound, C!Tables
  <2>7. x1 # None
    BY <2>3, CheckInConstants
  <2> HIDE DEF d, day
  <2>8. /\ x12' = [x12 EXCEPT ![day] = x12[day] \cup {t.install}]
        /\ x12' \in [C!Days -> SUBSET Installs] /\ x12'[day] = x12[day] \cup {t.install}
        /\ \A x \in C!Days : x # day => x12'[x] = x12[x]
    BY <2>1, <2>3, <2>4, <2>5
  <2>9. /\ x3' \in Databases /\ x3'.last = x1 /\ x3'.hashes = d.hashes \cup {t}
        /\ \A x \in C!Days : x # day => x3'.daily[x] = d.daily[x]
        /\ \/ t \in d.hashes /\ x3'.daily[day] = d.daily[day]
           \/ /\ t \notin d.hashes /\ x3'.daily[day] # None
              /\ x3'.daily[day] = [d.daily[day] EXCEPT !.count = d.daily[day].count + 1]
    <3>1. CASE t \in d.hashes
      <4>1. x3' = d
        BY <2>1, <3>1 DEF C!Counted
      <4> QED
        BY <2>2, <3>1, <4>1
    <3>2. CASE t \notin d.hashes
      <4> DEFINE row == [d.daily[day] EXCEPT !.count = d.daily[day].count + 1]
                 table == [d.daily EXCEPT ![day] = row]
      <4>1. row \in C!Rows
        BY <2>6 DEF C!Rows
      <4>2. None \notin C!Rows
        BY CheckInConstants DEF C!Rows
      <4>3. x3' = [d EXCEPT !.hashes = d.hashes \cup {t}, !.daily = table]
        BY <2>1, <3>2 DEF C!Counted
      <4> HIDE DEF row
      <4>4. table \in C!Tables /\ table[day] = row /\ \A x \in C!Days : x # day => table[x] = d.daily[x]
        BY <2>5, <2>6, <4>1 DEF C!Tables
      <4> HIDE DEF table
      <4>5. x3' = [last |-> x1, daily |-> table, hashes |-> d.hashes \cup {t}]
        BY <2>2, <4>3 DEF Databases
      <4>6. x3' \in Databases
        BY <2>2, <2>4, <4>4, <4>5 DEF Databases
      <4> QED
        BY <3>2, <4>1, <4>2, <4>4, <4>5, <4>6 DEF row
    <3> QED
      BY <3>1, <3>2
  <2>10. C!Counts'
    <3> SUFFICES ASSUME NEW h \in d.hashes \cup {t} PROVE h.install \in x12'[h.day]
      BY <2>9 DEF C!Counts
    <3>1. CASE h = t
      BY <2>1, <2>8, <3>1 DEF day
    <3>2. CASE h # t
      <4>1. h \in x3.hashes /\ h.install \in x12[h.day] /\ h.day \in C!Days
        BY <2>2, <2>3, <3>2 DEF C!CheckInKept, C!Counts, C!Tokens
      <4> QED
        BY <2>8, <4>1
    <3> QED
      BY <3>1, <3>2
  <2>11. C!Top' = day
    BY <2>1, <2>9 DEF C!Top, C!Day, day
  <2>12. C!NothingLater'
    <3> SUFFICES ASSUME NEW x \in C!Days \ x14, x12'[x] # {} \/ x \in x13 PROVE x <= day
      BY <2>11 DEF C!NothingLater, C!Days, C!Day
    <3>1. CASE x = day
      BY <2>5, <3>1
    <3>2. CASE x # day
      <4>1. x <= C!Top
        BY <2>8, <3>2 DEF C!CheckInKept, C!NothingLater
      <4> QED
        BY <2>3, <2>5, <4>1
    <3> QED
      BY <3>1, <3>2
  <2>13. C!ExportKept'
    <3> SUFFICES ASSUME x4 # None, NEW x \in C!Days
                 PROVE  /\ x4.daily[x] # None => x <= C!Day(x4.at)
                        /\ x < C!Day(x4.at) /\ x \notin x14 => x < day /\ C!Exact(x4.daily[x], x)'
      BY <2>11 DEF C!ExportKept, C!Exact, C!Days, C!Day
    <3>1. /\ x4.daily[x] # None => x <= C!Day(x4.at)
          /\ x < C!Day(x4.at) /\ x \notin x14 => x < C!Top /\ C!Exact(x4.daily[x], x)
      BY DEF C!CheckInKept, C!ExportKept
    <3>2. x < C!Top => x < day /\ x # day
      BY <2>3, <2>5
    <3>3. x # day /\ C!Exact(x4.daily[x], x) => C!Exact(x4.daily[x], x)'
      BY <2>8 DEF C!Exact
    <3> QED
      BY <3>1, <3>2, <3>3
  <2>14. t \notin d.hashes => \A h \in d.hashes : ~(h.day = day /\ h.install = t.install)
    <3> SUFFICES ASSUME NEW h \in d.hashes, h.day = day, h.install = t.install PROVE h = t
      OBVIOUS
    <3>1. h \in C!Sent /\ h.day = t.day
      BY <2>1, <2>2 DEF C!Sent, day
    <3> QED
      BY <3>1 DEF C!CheckInKept, C!OneToken
  <2>15. ASSUME NEW x \in C!Days \ x14, x3'.daily[x] # None, x3'.daily[x].complete
         PROVE  /\ x3'.daily[x].count = C!Cardinality(x12'[x]) /\ x \notin x13
                /\ x = day => \A i \in x12'[x] : \E h \in x3'.hashes : h.day = x /\ h.install = i
    <3>1. C!Sure(d, x) => /\ d.daily[x].count = C!Cardinality(x12[x]) /\ x \notin x13
                          /\ x = day => \A i \in x12[x] : \E h \in d.hashes : h.day = x /\ h.install = i
      BY <2>2 DEF C!Sound, day
    <3>2. CASE x # day
      BY <2>8, <2>9, <2>15, <3>1, <3>2 DEF C!Sure
    <3>3. CASE x = day /\ t \in d.hashes
      <4>1. t.install \in x12[day]
        BY <2>1, <2>2, <3>3 DEF C!CheckInKept, C!Counts, day
      <4>2. x12'[day] = x12[day] /\ x3'.daily[day] = d.daily[day]
        BY <2>8, <2>9, <3>3, <4>1
      <4> QED
        BY <2>9, <2>15, <3>1, <3>3, <4>2 DEF C!Sure
    <3>4. CASE x = day /\ t \notin d.hashes
      <4>1. x3'.daily[day].complete = d.daily[day].complete /\ x3'.daily[day].count = d.daily[day].count + 1
        BY <2>6, <2>9, <3>4 DEF C!Rows
      <4>2. C!Sure(d, day)
        BY <2>6, <2>15, <3>4, <4>1 DEF C!Sure
      <4>3. t.install \notin x12[day]
        BY <2>14, <3>1, <3>4, <4>2
      <4>4. IsFiniteSet(x12[day])
        BY <2>3, <2>5, CheckInConstants, FS_Subset
      <4>5. Cardinality(x12'[day]) = Cardinality(x12[day]) + 1
        BY <2>8, <4>3, <4>4, FS_AddElement
      <4>6. \A i \in x12'[day] : \E h \in x3'.hashes : h.day = day /\ h.install = i
        BY <2>1, <2>8, <2>9, <3>1, <3>4, <4>2 DEF day
      <4> QED
        BY <3>1, <3>4, <4>1, <4>2, <4>5, <4>6, SameCardinality
    <3> QED
      BY <3>2, <3>3, <3>4
  <2>16. C!DbKept'
    <3>1. x3'.daily[day] # None
      BY <2>6, <2>9
    <3>2. \A x \in C!Days : x3'.daily[x] # None => x <= day
      BY <2>2, <2>5, <2>9 DEF C!Sound, day
    <3>3. C!Sound(x3, x2)'
      BY <2>9, <2>15, <3>1, <3>2 DEF C!Sound, C!Sure, C!Days, C!Day, day
    <3> QED
      BY <2>7, <2>9, <3>3 DEF C!DbKept
  <2> QED
    BY <2>2, <2>8, <2>9, <2>10, <2>12, <2>13, <2>16
<1> QED
  BY <1>1, <1>2

\* What an install has sent, and what it does next.
Shape7 == [Installs -> [day : C!Days \cup {-1}, nonce : Nat, attempted : BOOLEAN, attempts : Nat]]
LEMMA SentAre ==
  ASSUME C!CheckInKept
  PROVE  /\ C!Sent \subseteq C!Tokens
         /\ x7 \in Shape7 /\ x8 \in [Installs -> {"idle", "send", "confirm"}] /\ x10 \subseteq C!Tokens
         /\ x11 \in [Installs -> Nat] /\ x9 \in [Installs -> C!Tokens \cup {None}]
         /\ \A i \in Installs : x8[i] # "idle" => x9[i] \in C!Sent /\ x9[i] \in C!Tokens
  BY DEF C!CheckInKept, C!CheckInShapes, C!Sent, Shape7

\* A step of an install that draws nothing new: a report reaches the collector at most.
LEMMA NothingNew ==
  ASSUME C!CheckInKept, UNCHANGED <<x1, x2, x4, x11, x13, x14>>,
         NEW t \in C!Sent, C!Arrives(t) \/ UNCHANGED <<x3, x12>>,
         x7' \in Shape7, x8' \in [Installs -> {"idle", "send", "confirm"}], x10' \subseteq x10 \cup {t},
         x9' \in [Installs -> C!Tokens \cup {None}],
         \A i \in Installs : x8'[i] # "idle" => x8[i] # "idle" /\ x9'[i] = x9[i],
         \A i \in Installs : x7'[i].day = x7[i].day /\ x7'[i].nonce = x7[i].nonce
  PROVE  C!CheckInKept'
<1>1. /\ x3' \in Databases /\ x12' \in [C!Days -> SUBSET Installs] /\ x3'.hashes \subseteq x3.hashes \cup {t}
      /\ C!DbKept' /\ C!Counts' /\ C!NothingLater' /\ C!ExportKept'
  <2>1. CASE C!Arrives(t)
    BY <2>1, Reached
  <2>2. CASE UNCHANGED <<x3, x12>>
    <3>1. UNCHANGED <<x1, x2, x3, x4, x12, x13, x14>>
      BY <2>2
    <3> QED
      BY <3>1, Unreached
  <2> QED
    BY <2>1, <2>2
<1>2. C!Sent' \subseteq C!Sent
  BY <1>1 DEF C!Sent
<1>3. C!OneToken'
  <2>1. \A u \in C!Sent : u.install \in Installs
    BY SentAre DEF C!Tokens
  <2> QED
    BY <1>2, <2>1, TokensKept DEF C!CheckInKept
<1>4. C!CheckInShapes'
  <2>1. x10' \subseteq C!Tokens /\ \A i \in Installs : x8'[i] # "idle" => x9'[i] \in C!Tokens
    BY SentAre
  <2>2. /\ x1 \in 0 .. CheckInTime /\ x2 \in BOOLEAN /\ x11 \in [Installs -> Nat]
        /\ x4 # None => x4 \in [at : 0 .. CheckInTime, daily : C!Tables]
    BY DEF C!CheckInKept, C!CheckInShapes
  <2> QED
    BY <1>1, <2>1, <2>2 DEF C!CheckInShapes, Databases, Shape7, C!Tables, C!Tokens, C!Rows, C!Days, C!Day
<1> QED
  BY <1>1, <1>3, <1>4 DEF C!CheckInKept

LEMMA RestsIs ==
  ASSUME C!CheckInKept, NEW i \in Installs, C!Rests(i)
  PROVE  /\ x8' \in [Installs -> {"idle", "send", "confirm"}] /\ x9' \in [Installs -> C!Tokens \cup {None}]
         /\ \A j \in Installs : x8'[j] # "idle" => x8[j] # "idle" /\ x9'[j] = x9[j]
<1>1. x8' = [x8 EXCEPT ![i] = "idle"] /\ x9' = [x9 EXCEPT ![i] = None]
      /\ x8 \in [Installs -> {"idle", "send", "confirm"}] /\ x9 \in [Installs -> C!Tokens \cup {None}]
  BY SentAre DEF C!Rests
<1> QED
  BY <1>1

LEMMA ReportStep ==
  ASSUME C!CheckInKept, NEW i \in Installs, C!Report(i)
  PROVE  C!CheckInKept'
<1>1. /\ x8[i] = "send" /\ UNCHANGED <<x1, x2, x4, x5, x6, x7, x11, x13, x14>>
      /\ x10' \subseteq x10 \cup {x9[i]}
      /\ C!Arrives(x9[i]) \/ UNCHANGED <<x3, x12>>
      /\ C!Rests(i) \/ (x8' = [x8 EXCEPT ![i] = "confirm"] /\ x9' = x9)
  <2>1. x8[i] = "send" /\ UNCHANGED <<x1, x2, x4, x5, x6, x7, x11, x13, x14>>
    BY DEF C!Report
  <2>2. CASE C!Arrives(x9[i]) /\ x10' = x10 /\ IF C!Accepts(x9[i]) THEN x8' = [x8 EXCEPT ![i] = "confirm"] /\ x9' = x9 ELSE C!Rests(i)
    BY <2>1, <2>2
  <2>3. CASE C!Rests(i) /\ C!Arrives(x9[i]) /\ x10' = x10
    BY <2>1, <2>3
  <2>4. CASE C!Rests(i) /\ x10' \in {x10, x10 \cup {x9[i]}} /\ UNCHANGED <<x3, x12>>
    BY <2>1, <2>4
  <2> QED
    BY <2>2, <2>3, <2>4 DEF C!Report
<1>2. /\ x9[i] \in C!Sent /\ x7' \in Shape7 /\ x8 \in [Installs -> {"idle", "send", "confirm"}]
      /\ x9 \in [Installs -> C!Tokens \cup {None}]
  BY <1>1, SentAre
<1>3. /\ x8' \in [Installs -> {"idle", "send", "confirm"}] /\ x9' \in [Installs -> C!Tokens \cup {None}]
      /\ \A j \in Installs : x8'[j] # "idle" => x8[j] # "idle" /\ x9'[j] = x9[j]
  <2>1. CASE C!Rests(i)
    BY <2>1, RestsIs
  <2>2. CASE x8' = [x8 EXCEPT ![i] = "confirm"] /\ x9' = x9
    BY <1>1, <1>2, <2>2
  <2> QED
    BY <1>1, <2>1, <2>2
<1> QED
  BY <1>1, <1>2, <1>3, NothingNew

LEMMA ConfirmStep ==
  ASSUME C!CheckInKept, NEW i \in Installs, C!Confirm(i)
  PROVE  C!CheckInKept'
<1>1. /\ x8[i] = "confirm" /\ C!Rests(i) /\ UNCHANGED <<x1, x2, x3, x4, x5, x6, x10, x11, x12, x13, x14>>
      /\ x7' = x7 \/ x7' = [x7 EXCEPT ![i].attempted = TRUE]
  BY DEF C!Confirm, C!collector
<1>2. x9[i] \in C!Sent /\ x7 \in Shape7
  BY <1>1, SentAre
<1>3. x7' \in Shape7 /\ \A j \in Installs : x7'[j].day = x7[j].day /\ x7'[j].nonce = x7[j].nonce
  <2>1. CASE x7' = x7
    BY <1>2, <2>1
  <2>2. CASE x7' = [x7 EXCEPT ![i].attempted = TRUE]
    BY <1>2, <2>2 DEF Shape7
  <2> QED
    BY <1>1, <2>1, <2>2
<1>4. /\ x8' \in [Installs -> {"idle", "send", "confirm"}] /\ x9' \in [Installs -> C!Tokens \cup {None}]
      /\ \A j \in Installs : x8'[j] # "idle" => x8[j] # "idle" /\ x9'[j] = x9[j]
  BY <1>1, RestsIs
<1> QED
  BY <1>1, <1>2, <1>3, <1>4, NothingNew

\* Consent given or withdrawn, and a restart: what was being sent may be on the wire.
LEMMA Idle ==
  ASSUME C!CheckInKept, UNCHANGED <<x1, x2, x3, x4, x7, x11, x12, x13, x14>>, NEW i \in Installs,
         \/ C!Rests(i) /\ x10' \in IF x8[i] = "send" THEN {x10, x10 \cup {x9[i]}} ELSE {x10}
         \/ UNCHANGED <<x8, x9, x10>>
  PROVE  C!CheckInKept'
<1>1. /\ x7' \in Shape7 /\ x8' \in [Installs -> {"idle", "send", "confirm"}]
      /\ x9' \in [Installs -> C!Tokens \cup {None}]
      /\ \A j \in Installs : x8'[j] # "idle" => x8[j] # "idle" /\ x9'[j] = x9[j]
  BY SentAre, RestsIs
<1>2. CASE \E t \in C!Sent : x10' \subseteq x10 \cup {t}
  BY <1>1, <1>2, NothingNew
<1>3. CASE ~\E t \in C!Sent : x10' \subseteq x10 \cup {t}
  <2>1. x10' = x10
    BY <1>3, SentAre
  <2>2. C!Sent' \subseteq C!Sent
    BY <1>1, <2>1 DEF C!Sent
  <2>3. C!OneToken'
    BY <2>2, TokensKept DEF C!CheckInKept
  <2>4. C!CheckInShapes'
    BY <1>1, <2>1 DEF C!CheckInKept, C!CheckInShapes, Shape7
  <2>5. C!DbKept' /\ C!Counts' /\ C!NothingLater' /\ C!ExportKept'
    BY Unreached
  <2> QED
    BY <2>3, <2>4, <2>5 DEF C!CheckInKept
<1> QED
  BY <1>2, <1>3

LEMMA ConsentStep ==
  ASSUME C!CheckInKept, NEW i \in Installs, C!Restart(i) \/ \E b \in BOOLEAN : C!SetConsent(i, b)
  PROVE  C!CheckInKept'
<1>1. /\ UNCHANGED <<x1, x2, x3, x4, x7, x11, x12, x13, x14>>
      /\ \/ C!Rests(i) /\ x10' \in IF x8[i] = "send" THEN {x10, x10 \cup {x9[i]}} ELSE {x10}
         \/ UNCHANGED <<x8, x9, x10>>
  BY DEF C!Restart, C!SetConsent, C!collector
<1> QED
  BY <1>1, Idle

\* The one token of the day is drawn, unless it was drawn before.
LEMMA PrepareStep ==
  ASSUME C!CheckInKept, NEW i \in Installs, NEW day \in C!Days, C!Prepare(i, day)
  PROVE  C!CheckInKept'
<1> DEFINE s == C!Current(i, day)
           t == [s EXCEPT !.attempts = s.attempts + 1]
           u == [install |-> i, day |-> t.day, nonce |-> t.nonce]
<1>1. /\ x8[i] = "idle" /\ x7[i].day <= day
      /\ x7' = [x7 EXCEPT ![i] = t] /\ x11' = [x11 EXCEPT ![i] = t.nonce]
      /\ x9' = [x9 EXCEPT ![i] = u] /\ x8' = [x8 EXCEPT ![i] = "send"]
      /\ UNCHANGED <<x1, x2, x3, x4, x10, x12, x13, x14>>
  BY DEF C!Prepare, C!collector, C!Stored
<1>2. x7 \in Shape7 /\ x8 \in [Installs -> {"idle", "send", "confirm"}] /\ x11 \in [Installs -> Nat] /\ C!Days \subseteq Nat
      /\ C!Sent \subseteq C!Tokens /\ x10 \subseteq C!Tokens /\ x9 \in [Installs -> C!Tokens \cup {None}]
  BY SentAre, DaysAre
<1>3. /\ s \in [day : C!Days \cup {-1}, nonce : Nat, attempted : BOOLEAN, attempts : Nat] /\ s.day = day
      /\ x7[i].day = day => s.nonce = x7[i].nonce
  BY <1>2 DEF C!Current, C!Drawn, Shape7
<1> HIDE DEF s
<1>4. /\ t \in [day : C!Days \cup {-1}, nonce : Nat, attempted : BOOLEAN, attempts : Nat] /\ t.day = day
      /\ x7[i].day = day => t.nonce = x7[i].nonce
  BY <1>3
<1> HIDE DEF t
<1>5. u \in C!Tokens /\ u.install = i /\ u.day = day /\ u.nonce = t.nonce
  BY <1>4 DEF C!Tokens
<1> HIDE DEF u
<1>6. x7' \in Shape7 /\ x7'[i] = t /\ \A j \in Installs : j # i => x7'[j] = x7[j]
  BY <1>1, <1>2, <1>4 DEF Shape7
<1>7. C!Sent' \subseteq C!Sent \cup {u}
  <2>1. \A j \in Installs : x8'[j] # "idle" => x9'[j] = u \/ (x8[j] # "idle" /\ x9'[j] = x9[j])
    <3> TAKE j \in Installs
    <3>1. x9'[i] = u /\ (j # i => x9'[j] = x9[j] /\ x8'[j] = x8[j])
      BY <1>1, <1>2
    <3> QED
      BY <3>1
  <2> QED
    BY <1>1, <2>1 DEF C!Sent
<1>8. C!OneToken'
  <2>1. ASSUME NEW v \in C!Sent PROVE /\ v.day \in Nat /\ v.install \in Installs /\ v.day <= x7[v.install].day
                                      /\ v.day = x7[v.install].day => v.nonce = x7[v.install].nonce
    BY <1>2, <2>1 DEF C!CheckInKept, C!OneToken, C!Tokens
  <2>2. ASSUME NEW v \in C!Sent, v.install = i, v.day >= day PROVE v = u
    <3>1. v.day = day /\ x7[i].day = day
      <4>1. x7[i].day \in C!Days \cup {-1} /\ v.day \in Nat /\ day \in Nat /\ v.day <= x7[i].day
        BY <1>2, <2>1, <2>2 DEF Shape7
      <4>2. x7[i].day \in Int
        <5>1. \A n \in C!Days : n \in Int
          BY <1>2
        <5>2. -1 \in Int
          OBVIOUS
        <5> QED
          BY <4>1, <5>1, <5>2
      <4> QED
        BY <1>1, <2>2, <4>1, <4>2
    <3>2. v.nonce = u.nonce
      BY <1>4, <1>5, <2>1, <2>2, <3>1
    <3> QED
      BY <1>2, <1>5, <2>2, <3>1, <3>2 DEF C!Tokens
  <2>3. ASSUME NEW v \in C!Sent \cup {u}
        PROVE  /\ v.day <= x7'[v.install].day
               /\ v.day = x7'[v.install].day => v.nonce = x7'[v.install].nonce
    <3>1. CASE v = u
      BY <1>2, <1>4, <1>5, <1>6, <3>1
    <3>2. CASE v # u /\ v.install = i
      <4>1. v.day < day
        BY <1>2, <2>1, <2>2, <3>2
      <4> QED
        BY <1>2, <1>4, <1>6, <2>1, <3>2, <4>1
    <3>3. CASE v # u /\ v.install # i
      BY <1>6, <2>1, <3>3
    <3> QED
      BY <3>1, <3>2, <3>3
  <2>4. ASSUME NEW v \in C!Sent \cup {u}, NEW w \in C!Sent \cup {u}, v.install = w.install, v.day = w.day
        PROVE  v = w
    <3>1. CASE v \in C!Sent /\ w \in C!Sent
      BY <2>4, <3>1 DEF C!CheckInKept, C!OneToken
    <3>2. CASE v = u \/ w = u
      BY <1>2, <1>5, <2>2, <2>4, <3>2
    <3> QED
      BY <3>1, <3>2
  <2> QED
    BY <1>7, <2>3, <2>4 DEF C!OneToken
<1>9. C!CheckInShapes'
  <2>1. /\ x8' \in [Installs -> {"idle", "send", "confirm"}] /\ x11' \in [Installs -> Nat]
        /\ x9' \in [Installs -> C!Tokens \cup {None}]
    BY <1>1, <1>2, <1>4, <1>5
  <2>2. \A j \in Installs : x8'[j] # "idle" => x9'[j] \in C!Tokens
    BY <1>7, <1>2, <1>5 DEF C!Sent
  <2> QED
    BY <1>1, <1>6, <2>1, <2>2 DEF C!CheckInKept, C!CheckInShapes, Shape7
<1>10. C!DbKept' /\ C!Counts' /\ C!NothingLater' /\ C!ExportKept'
  BY <1>1, Unreached
<1> QED
  BY <1>8, <1>9, <1>10 DEF C!CheckInKept

LEMMA LateStep ==
  ASSUME C!CheckInKept, C!Late
  PROVE  C!CheckInKept'
<1>1. PICK t \in x10 : x10' = x10 \ {t} /\ C!Arrives(t)
  BY DEF C!Late
<1>2. UNCHANGED <<x1, x2, x4, x5, x6, x7, x8, x9, x11, x13, x14>>
  BY DEF C!Late, C!client
<1>3. t \in C!Sent
  BY DEF C!Sent
<1>4. /\ x7' \in Shape7 /\ x8' \in [Installs -> {"idle", "send", "confirm"}]
      /\ x9' \in [Installs -> C!Tokens \cup {None}]
  BY <1>2, SentAre
<1> QED
  BY <1>1, <1>2, <1>3, <1>4, NothingNew

\* The clock goes on, and back while the collector is up.
LEMMA DayAtOrder ==
  ASSUME C!CheckInKept, NEW t \in 0 .. CheckInTime, NEW u \in 0 .. CheckInTime, t <= u
  PROVE  C!DayAt(t) \in Nat /\ C!DayAt(t) <= C!DayAt(u)
<1> DEFINE seen(w) == IF x3.last # None /\ w < x3.last THEN x3.last ELSE w
<1>1. x3.last \in 0 .. CheckInTime \cup {None} /\ CheckInTime \in Nat
  BY CheckInConstants DEF C!CheckInKept, C!CheckInShapes
<1>2. x3.last # None => x3.last \in 0 .. CheckInTime
  BY <1>1
<1>3. seen(t) \in 0 .. CheckInTime /\ seen(u) \in 0 .. CheckInTime /\ seen(t) <= seen(u)
  BY <1>1, <1>2
<1>4. C!DayAt(t) = C!Day(seen(t)) /\ C!DayAt(u) = C!Day(seen(u))
  BY DEF C!DayAt
<1> HIDE DEF seen
<1> QED
  BY <1>3, <1>4, DayOrder

LEMMA ClockStep ==
  ASSUME C!CheckInKept, C!Clock
  PROVE  C!CheckInKept'
<1>1. UNCHANGED <<x2, x3, x4, x5, x6, x7, x8, x9, x10, x11, x12, x14>>
  BY DEF C!Clock, C!Passes, C!collector, C!client
<1>2. x1 \in 0 .. CheckInTime /\ CheckInTime \in Nat /\ x2 \in BOOLEAN
  BY CheckInConstants DEF C!CheckInKept, C!CheckInShapes
<1>3. x1' \in 0 .. CheckInTime
  BY <1>2 DEF C!Clock, C!Passes
<1>4. C!CheckInShapes'
  BY <1>1, <1>3 DEF C!CheckInKept, C!CheckInShapes
<1>5. C!OneToken' /\ C!Counts'
  <2>1. C!Sent' = C!Sent
    BY <1>1 DEF C!Sent
  <2> QED
    BY <1>1, <2>1 DEF C!CheckInKept, C!OneToken, C!Counts
<1>6. CASE x2
  <2>1. x13' = x13
    BY <1>6 DEF C!Clock, C!Passes
  <2>2. C!DbKept'
    BY <1>1, <2>1, <1>6 DEF C!CheckInKept, C!DbKept, C!Sound, C!Sure, C!Days, C!Day
  <2>3. C!Top' = C!Top
    BY <1>1, <1>6 DEF C!Top, C!Day
  <2>4. C!NothingLater' /\ C!ExportKept'
    BY <1>1, <2>1, <2>3, TopIs, TopRises
  <2> QED
    BY <1>4, <1>5, <2>2, <2>4 DEF C!CheckInKept
<1>7. CASE ~x2
  <2> DEFINE a == C!DayAt(x1)
             b == C!DayAt(x1 + 1)
  <2>1. x1' = x1 + 1 /\ x13' = x13 \cup {a, b} /\ x1 <= x1 + 1 /\ x1 + 1 \in 0 .. CheckInTime
    BY <1>2, <1>3, <1>7 DEF C!Clock, C!Passes
  <2>2. a \in Nat /\ b \in Nat /\ a <= b
    BY <1>2, <2>1, DayAtOrder
  <2>3. C!Top = a /\ C!Top' = b
    BY <1>1, <1>7, <2>1 DEF C!Top, C!DayAt, C!Day
  <2> HIDE DEF a, b
  <2>4. /\ C!DbKept /\ C!NothingLater /\ C!ExportKept /\ C!Days \subseteq Nat
        /\ x3.last # None => C!Day(x3.last) \in Nat /\ C!Day(x3.last) <= a
    BY <2>3, TopIs, DaysAre DEF C!CheckInKept
  <2>5. C!DbKept'
    <3>1. CASE x3.last = None
      BY <1>1, <2>4, <3>1 DEF C!DbKept, C!Days, C!Day
    <3>2. CASE x3.last # None
      <4>1. \A x \in C!Days : x < C!Day(x3.last) => x # a /\ x # b
        BY <2>2, <2>4, <3>2
      <4>2. C!Sound(x3, FALSE)
        BY <1>2, <1>7, <2>4, <3>2 DEF C!DbKept
      <4>3. C!Sound(x3, FALSE)'
        BY <1>1, <2>1, <4>1, <4>2 DEF C!Sound, C!Sure, C!Day, C!Days
      <4> QED
        BY <1>1, <1>2, <1>7, <3>2, <4>3 DEF C!DbKept
    <3> QED
      BY <3>1, <3>2
  <2>6. C!NothingLater'
    <3> SUFFICES ASSUME NEW x \in C!Days \ x14, x12[x] # {} \/ x \in x13' PROVE x <= b
      BY <1>1, <2>3 DEF C!NothingLater, C!Days, C!Day
    <3>1. x = a \/ x = b \/ x <= a
      BY <2>1, <2>3, <2>4 DEF C!NothingLater
    <3>2. x \in Nat
      BY <2>4
    <3> QED
      BY <2>2, <3>1, <3>2
  <2>7. C!ExportKept'
    <3> SUFFICES ASSUME x4 # None, NEW x \in C!Days
                 PROVE  /\ x4.daily[x] # None => x <= C!Day(x4.at)
                        /\ x < C!Day(x4.at) /\ x \notin x14 => x < b /\ C!Exact(x4.daily[x], x)'
      BY <1>1, <2>3 DEF C!ExportKept, C!Exact, C!Days, C!Day
    <3>1. /\ x4.daily[x] # None => x <= C!Day(x4.at)
          /\ x < C!Day(x4.at) /\ x \notin x14 => x < a /\ C!Exact(x4.daily[x], x)
      BY <2>3, <2>4 DEF C!ExportKept
    <3>2. x < a => x < b /\ x # a /\ x # b
      BY <2>2, <2>4
    <3>3. x # a /\ x # b /\ C!Exact(x4.daily[x], x) => C!Exact(x4.daily[x], x)'
      BY <1>1, <2>1 DEF C!Exact
    <3> QED
      BY <3>1, <3>2, <3>3
  <2> QED
    BY <1>4, <1>5, <2>5, <2>6, <2>7 DEF C!CheckInKept
<1> QED
  BY <1>2, <1>6, <1>7

LEMMA CheckInNext ==
  ASSUME C!CheckInKept, [C!Next]_(C!vars)
  PROVE  C!CheckInKept'
<1>1. CASE C!Tick \/ C!Start
  BY <1>1, TickStep
<1>2. CASE C!Stop
  BY <1>2, StopStep
<1>3. CASE C!Lose
  BY <1>3, LoseStep
<1>4. CASE C!Export
  BY <1>4, ExportStep
<1>5. CASE C!Restore
  BY <1>5, RestoreStep
<1>6. CASE C!Late
  BY <1>6, LateStep
<1>7. CASE C!Clock
  BY <1>7, ClockStep
<1>8. ASSUME NEW i \in Installs, C!Client(i)
      PROVE  C!CheckInKept'
  <2>1. CASE \E day \in {C!Day(x1) - 1, C!Day(x1), C!Day(x1) + 1} \cap C!Days : C!Prepare(i, day)
    BY <2>1, PrepareStep
  <2>2. CASE C!Report(i)
    BY <2>2, ReportStep
  <2>3. CASE C!Confirm(i)
    BY <2>3, ConfirmStep
  <2>4. CASE C!Restart(i) \/ \E b \in BOOLEAN : C!SetConsent(i, b)
    BY <2>4, ConsentStep
  <2> QED
    BY <1>8, <2>1, <2>2, <2>3, <2>4 DEF C!Client
<1>9. CASE UNCHANGED C!vars
  <2>1. /\ UNCHANGED <<x1, x2, x3, x4, x12, x13, x14>>
        /\ UNCHANGED <<x7, x8, x9, x10, x11>>
    BY <1>9 DEF C!vars, C!collector, C!client
  <2>2. C!CheckInShapes' /\ C!OneToken'
    BY <2>1 DEF C!CheckInKept, C!CheckInShapes, C!OneToken, C!Sent
  <2> QED
    BY <2>1, <2>2, Unreached DEF C!CheckInKept
<1> QED
  BY <1>1, <1>2, <1>3, <1>4, <1>5, <1>6, <1>7, <1>8, <1>9 DEF C!Next

(* CompleteIsExact: a day that is over and served as complete counts each   *)
(* install that reported on it exactly once, and the collector was never    *)
(* down on it, for any number of installs, of restarts, of lost answers, of *)
(* losses of the database and of clocks that go wrong.                      *)
(* (usage/mod.rs tick, accept and restore; usage.rs prepare and confirm)    *)
THEOREM CompleteDaysAreExact == C!Spec => []CompleteIsExact
<1>1. C!CheckInKept => CompleteIsExact
  <2> SUFFICES ASSUME C!CheckInKept, x2, NEW x \in C!Days \ x14, x < C!Day(x1) PROVE C!Exact(x3.daily[x], x)
    BY DEF CompleteIsExact, C!CompleteIsExact
  <2>1. C!Sound(x3, TRUE)
    BY DEF C!CheckInKept, C!DbKept, C!CheckInShapes
  <2> QED
    BY <2>1 DEF C!Sound, C!Sure, C!Exact
<1> QED
  BY <1>1, CheckInInit, CheckInNext, PTL DEF C!Spec

---------------------------------------------------------------------------
(* The price history.                                                       *)
\* A set of numbers has a least and, when it is bounded, a greatest.
LEMMA Outermost ==
  ASSUME NEW T, T # {}, NEW n \in Nat, T \subseteq 0 .. n
  PROVE  /\ \E x \in T : \A y \in T : x <= y
         /\ \E x \in T : \A y \in T : y <= x
<1> DEFINE U == {n - y : y \in T}
<1>1. T \subseteq Nat /\ \A y \in T : n - y \in Nat
  OBVIOUS
<1>2. U # {} /\ U \subseteq Nat /\ \A y \in T : n - y \in U
  BY <1>1
<1>3. PICK x \in T : F!Min(U) = n - x
  BY <1>2, LeastOf
<1>4. \A z \in U : F!Min(U) <= z
  BY <1>2, LeastOf
<1>5. \A y \in T : n - x <= n - y
  BY <1>2, <1>3, <1>4
<1> HIDE DEF U
<1>6. \A y \in T : y <= x
  BY <1>1, <1>5
<1> QED
  BY <1>1, <1>6, LeastOf

LEMMA MaxIs ==
  ASSUME NEW T, T # {}, NEW n \in Nat, T \subseteq 0 .. n
  PROVE  H!Max(T) \in T /\ \A y \in T : y <= H!Max(T)
<1>1. PICK x \in T : \A y \in T : y <= x
  BY Outermost
<1>2. \A y \in T : x >= y
  BY <1>1
<1>3. H!Max(T) \in T /\ \A y \in T : H!Max(T) >= y
  BY <1>2 DEF H!Max
<1> QED
  BY <1>3

\* The days of a run, as an interval.
LEMMA FirstDateIs ==
  ASSUME H!HistoryKept, NEW n \in Lengths
  PROVE  /\ H!FirstDate(n) \in Nat /\ H!FirstDate(n) >= 1 /\ H!FirstDate(n) > x1 - n
         /\ H!Usable(n) /\ x3.through # None => H!FirstDate(n) > x3.through
<1> DEFINE b == IF H!Usable(n) /\ H!ResumeAt(x3) # None THEN H!ResumeAt(x3)
               ELSE x1 - (H!Fewer(Bootstrap, n) - 1)
           e == x1 - n + 1
<1>1. n \in Nat /\ n >= 1 /\ x1 \in Nat /\ n <= x1 /\ Bootstrap \in Nat /\ None \notin Nat
  BY HistoryConstants, KeysConstants DEF H!HistoryKept, H!Days
<1>2. H!Usable(n) => x3.through \in Nat \cup {None}
  BY <1>1 DEF H!HistoryKept, H!Usable, H!Sound, H!Histories, H!Days
<1>3. H!Fewer(Bootstrap, n) \in 0 .. n
  BY <1>1 DEF H!Fewer
<1>4. b \in Nat /\ (H!Usable(n) /\ x3.through # None => b = x3.through + 1)
  BY <1>1, <1>2, <1>3 DEF H!ResumeAt
<1>5. e \in Nat /\ e >= 1
  BY <1>1
<1>6. H!FirstDate(n) = H!Max({b, e})
  BY DEF H!FirstDate
<1> HIDE DEF b, e
<1>7. H!FirstDate(n) \in {b, e} /\ H!FirstDate(n) >= b /\ H!FirstDate(n) >= e
  <2>1. {b, e} \subseteq 0 .. (b + e)
    BY <1>4, <1>5
  <2> QED
    BY <2>1, <1>4, <1>5, <1>6, MaxIs
<1> QED
  BY <1>1, <1>2, <1>4, <1>5, <1>7 DEF e

\* A day past the end of the window moves it; what stays in it stays as it was.
LEMMA MovedIs ==
  ASSUME x1 \in H!Days, NEW h, H!Sound(h), NEW date \in H!Days, date <= x1, h.start <= date
  PROVE  LET m == H!Moved(h, date) IN
         /\ H!Sound(m) /\ m.days = h.days /\ m.through = h.through
         /\ h.start <= m.start /\ m.start <= date /\ date <= H!Last(m) /\ H!Last(h) <= H!Last(m)
         /\ m.missing \subseteq h.missing /\ \A d \in h.missing : d >= m.start => d \in m.missing
         /\ \A i \in HistoryItems : \A d \in m.start .. H!Last(m) :
              m.median[i][d - m.start] = IF d <= H!Last(h) THEN h.median[i][d - h.start] ELSE None
<1> DEFINE shift == date - h.start + 1 - h.days
           columns == [i \in HistoryItems |-> [c \in 0 .. h.days - 1 |->
                         IF c + shift < h.days THEN h.median[i][c + shift] ELSE None]]
           r == [start |-> h.start + shift, days |-> h.days, through |-> h.through,
                 missing |-> {d \in h.missing : d >= h.start + shift}, median |-> columns]
<1>1. /\ h.days \in Nat /\ h.days >= 1 /\ h.days \in Lengths /\ h \in H!Histories(h.days)
      /\ h.start \in Nat /\ h.start >= 1 /\ date \in Nat /\ x1 \in Nat /\ H!Days \subseteq Nat
      /\ None \notin Nat /\ LastHistoryDay \in Nat
  BY HistoryConstants, KeysConstants DEF H!Sound, H!Histories, H!Days
<1>2. h.through \in Nat \cup {None} /\ h.missing \subseteq H!Days
  BY <1>1 DEF H!Histories
<1>3. \A i \in HistoryItems : h.median[i] \in [0 .. h.days - 1 -> H!Days \cup {None}]
  BY <1>1 DEF H!Histories
<1>4. CASE shift <= 0
  <2>1. H!Moved(h, date) = h
    BY <1>4 DEF H!Moved
  <2>2. date <= H!Last(h)
    BY <1>1, <1>4 DEF H!Last
  <2> QED
    BY <1>1, <2>1, <2>2 DEF H!Last
<1>5. CASE shift > 0
  <2>1. H!Moved(h, date) = r
    <3>1. H!Moved(h, date) = [h EXCEPT !.start = @ + shift,
                                       !.missing = {d \in @ : d >= h.start + shift},
                                       !.median = columns]
      BY <1>1, <1>5 DEF H!Moved
    <3> HIDE DEF columns, shift
    <3> QED
      BY <1>1, <3>1 DEF H!Histories
  <2>2. H!Last(r) = date /\ r.start = date + 1 - h.days /\ h.start < r.start /\ r.start <= date
    BY <1>1, <1>5 DEF H!Last
  <2>3. H!Last(h) = h.start + h.days - 1 /\ H!Last(h) < date
    BY <1>1, <1>5 DEF H!Last
  <2>4. columns \in [HistoryItems -> [0 .. h.days - 1 -> H!Days \cup {None}]]
    <3> SUFFICES ASSUME NEW i \in HistoryItems, NEW c \in 0 .. h.days - 1, c + shift < h.days
                 PROVE  h.median[i][c + shift] \in H!Days \cup {None}
      OBVIOUS
    <3>1. c + shift \in 0 .. h.days - 1
      BY <1>1, <1>5
    <3> QED
      BY <1>3, <3>1
  <2>5. ASSUME NEW i \in HistoryItems, NEW d \in r.start .. H!Last(r)
        PROVE  r.median[i][d - r.start] = IF d <= H!Last(h) THEN h.median[i][d - h.start] ELSE None
    <3>1. d - r.start \in 0 .. h.days - 1 /\ (d - r.start) + shift = d - h.start
      <4> HIDE DEF columns, r
      <4>1. d \in Nat /\ r.start <= d /\ d <= date
        BY <1>1, <2>2
      <4> QED
        BY <1>1, <2>2, <4>1
    <3>2. d <= H!Last(h) <=> d - h.start < h.days
      BY <1>1, <2>2, <2>3
    <3> QED
      BY <3>1, <3>2
  <2>6. r.start \in H!Days
    BY <1>1, <2>2, <2>3 DEF H!Days
  <2>7. r.missing \subseteq H!Days /\ r.through = h.through /\ r.days = h.days
    BY <1>2
  <2>8. r \in H!Histories(h.days)
    <3> HIDE DEF columns, shift
    <3> QED
      BY <1>1, <1>2, <2>4, <2>6, <2>7 DEF H!Histories
  <2>9. r.missing \subseteq h.missing /\ \A d \in h.missing : d >= r.start => d \in r.missing
    OBVIOUS
  <2> HIDE DEF r
  <2>10. H!Sound(r)
    BY <1>1, <2>2, <2>3, <2>7, <2>8, <1>2 DEF H!Sound
  <2> QED
    BY <1>1, <2>1, <2>2, <2>3, <2>5, <2>7, <2>9, <2>10
<1> QED
  BY <1>1, <1>4, <1>5

LEMMA AppliedDay ==
  ASSUME x1 \in H!Days, NEW h, H!Sound(h), NEW date \in H!Days, date <= x1, h.start <= date, NEW rows
  PROVE  LET m == H!ApplyDay(h, date, rows) IN
         /\ H!Sound(m) /\ m.days = h.days
         /\ m.through = IF rows # {} /\ (h.through = None \/ date > h.through) THEN date ELSE h.through
         /\ h.start <= m.start /\ m.start <= date /\ date <= H!Last(m) /\ H!Last(h) <= H!Last(m)
         /\ m.missing \subseteq h.missing /\ \A d \in h.missing : d >= m.start => d \in m.missing
         /\ \A i \in HistoryItems : \A d \in m.start .. H!Last(m) :
              m.median[i][d - m.start] =
                IF d = date /\ i \in rows THEN date
                ELSE IF d <= H!Last(h) THEN h.median[i][d - h.start] ELSE None
<1> DEFINE v == H!Moved(h, date)
           until == IF rows # {} /\ (v.through = None \/ date > v.through) THEN date ELSE v.through
           columns == [i \in HistoryItems |-> [v.median[i] EXCEPT ![date - v.start] =
                         IF i \in rows THEN date ELSE @]]
           r == [start |-> v.start, days |-> v.days, through |-> until,
                 missing |-> v.missing, median |-> columns]
<1>1. /\ H!Sound(v) /\ v.days = h.days /\ v.through = h.through
      /\ h.start <= v.start /\ v.start <= date /\ date <= H!Last(v) /\ H!Last(h) <= H!Last(v)
      /\ v.missing \subseteq h.missing /\ \A d \in h.missing : d >= v.start => d \in v.missing
  BY MovedIs
<1>2. \A i \in HistoryItems : \A d \in v.start .. H!Last(v) :
        v.median[i][d - v.start] = IF d <= H!Last(h) THEN h.median[i][d - h.start] ELSE None
  BY MovedIs
<1>3. /\ v.days \in Nat /\ v.days >= 1 /\ v.days \in Lengths /\ v \in H!Histories(v.days)
      /\ v.start \in Nat /\ v.start >= 1 /\ date \in Nat /\ x1 \in Nat /\ H!Days \subseteq Nat
      /\ None \notin Nat /\ h.start \in Nat /\ H!Last(h) \in Nat /\ H!Last(v) = v.start + v.days - 1
  BY <1>1, HistoryConstants, KeysConstants DEF H!Sound, H!Histories, H!Days, H!Last
<1>4. v.through \in H!Days \cup {None} /\ (v.through # None => v.through <= H!Last(v))
  BY <1>1, <1>3 DEF H!Sound, H!Histories
<1>5. \A i \in HistoryItems : v.median[i] \in [0 .. v.days - 1 -> H!Days \cup {None}]
  BY <1>3 DEF H!Histories
<1> HIDE DEF v
<1>6. H!ApplyDay(h, date, rows) = r
  <2>1. ~(date < h.start)
    BY <1>3
  <2>2. H!ApplyDay(h, date, rows) =
          [v EXCEPT !.through = IF rows # {} /\ (@ = None \/ date > @) THEN date ELSE @,
                    !.median = columns]
    BY <2>1 DEF H!ApplyDay, v
  <2> HIDE DEF columns
  <2> QED
    BY <1>3, <2>2 DEF H!Histories
<1>7. \A i \in HistoryItems : columns[i] \in [0 .. v.days - 1 -> H!Days \cup {None}]
  BY <1>5
<1>8. ASSUME NEW i \in HistoryItems, NEW d \in v.start .. H!Last(v)
      PROVE  columns[i][d - v.start] =
                IF d = date /\ i \in rows THEN date
                ELSE IF d <= H!Last(h) THEN h.median[i][d - h.start] ELSE None
  <2>1. d - v.start \in 0 .. v.days - 1 /\ date - v.start \in 0 .. v.days - 1
    BY <1>1, <1>3
  <2>2. d - v.start = date - v.start <=> d = date
    BY <1>3
  <2>3. columns[i][d - v.start] = IF d = date /\ i \in rows THEN date ELSE v.median[i][d - v.start]
    BY <1>5, <2>1, <2>2
  <2> QED
    BY <1>2, <2>3
<1>9. columns \in [HistoryItems -> [0 .. v.days - 1 -> H!Days \cup {None}]]
  BY <1>7
<1>10. until \in H!Days \cup {None} /\ (until # None => until <= H!Last(v))
  BY <1>1, <1>3, <1>4
<1>11. /\ r.start = v.start /\ r.days = v.days /\ r.through = until /\ r.missing = v.missing
       /\ r.median = columns
  OBVIOUS
<1> HIDE DEF columns, until
<1>12. r \in H!Histories(v.days)
  BY <1>3, <1>9, <1>10 DEF H!Histories
<1> HIDE DEF r
<1>13. H!Last(r) = H!Last(v)
  BY <1>11 DEF H!Last
<1>14. H!Sound(r)
  BY <1>1, <1>3, <1>10, <1>11, <1>12, <1>13 DEF H!Sound
<1> QED
  BY <1>1, <1>6, <1>8, <1>11, <1>13, <1>14 DEF until

\* What a run has made of the history h once day k is done, when it began with day first.
Carried(h, m, first, k, a) ==
  /\ H!Sound(m) /\ m.days = h.days /\ h.start <= m.start /\ H!Last(h) <= H!Last(m)
  /\ m.through = h.through \/ (m.through \in first .. k /\ a[m.through] = "file")
  /\ \A d \in first .. k : a[d] = "file" /\ x2[d] # {} => m.through # None /\ d <= m.through
  /\ m.missing \subseteq h.missing /\ \A d \in h.missing : d >= m.start => d \in m.missing
  /\ \A i \in HistoryItems : \A d \in m.start .. H!Last(m) :
       m.median[i][d - m.start] =
         IF d \in first .. k /\ a[d] = "file" /\ i \in x2[d] THEN d
         ELSE IF d <= H!Last(h) THEN h.median[i][d - h.start] ELSE None
\* A run over the days from first to yesterday, and the answers it gets.
Runs(h, first, a) ==
  /\ x1 \in H!Days /\ H!Sound(h) /\ first \in 1 .. x1 /\ first > x1 - h.days
  /\ h.through # None => h.through < first
  /\ a \in [first .. x1 -> {"file", "empty", "failed"}]

LEMMA DayStep ==
  ASSUME NEW h, NEW first, NEW a, Runs(h, first, a), NEW k \in first .. x1, NEW m,
         Carried(h, m, first, k - 1, a)
  PROVE  Carried(h, IF k \in H!Answered(a) THEN H!ApplyDay(m, k, H!Rows(a, k)) ELSE m, first, k, a)
<1>1. /\ k \in Nat /\ first \in Nat /\ x1 \in Nat /\ H!Days \subseteq Nat /\ k \in H!Days
      /\ first >= 1 /\ first <= k /\ k <= x1 /\ None \notin Nat
      /\ k \in DOMAIN a /\ a[k] \in {"file", "empty", "failed"}
  BY HistoryConstants, KeysConstants DEF Runs, H!Days
<1>2. first .. k = (first .. (k - 1)) \cup {k} /\ k \notin first .. (k - 1)
  BY <1>1
<1>3. /\ m.days = h.days /\ m.days \in Nat /\ m.start \in Nat /\ h.start \in Nat /\ h.days \in Nat
      /\ H!Last(m) \in Nat /\ H!Last(h) \in Nat /\ H!Last(m) <= x1 /\ m.start <= k
      /\ m.through \in Nat \cup {None} /\ h.through \in Nat \cup {None}
      /\ h.through # None => h.through < first
  <2>1. H!Sound(m) /\ H!Sound(h) /\ m.days = h.days
    BY DEF Carried, Runs
  <2>2. /\ m.days \in Nat /\ m.days >= 1 /\ m.start \in Nat /\ h.start \in Nat /\ h.days \in Nat
        /\ m.start >= 1 /\ h.start >= 1 /\ H!Last(m) <= x1
        /\ m.through \in Nat \cup {None} /\ h.through \in Nat \cup {None}
    BY <1>1, <2>1, HistoryConstants DEF H!Sound, H!Histories, H!Days
  <2>3. H!Last(m) = m.start + m.days - 1 /\ H!Last(h) = h.start + h.days - 1
    BY DEF H!Last
  <2>4. first > x1 - h.days /\ (h.through # None => h.through < first)
    BY DEF Runs
  <2>5. m.start <= k
    BY <1>1, <2>1, <2>2, <2>3, <2>4
  <2> QED
    BY <1>1, <2>1, <2>2, <2>3, <2>4, <2>5
<1>4. m.through # None => m.through < k
  BY <1>1, <1>3 DEF Carried
<1>5. CASE k \notin H!Answered(a)
  <2>1. a[k] = "failed"
    BY <1>1, <1>5 DEF H!Answered
  <2>2. m.through \in first .. (k - 1) => m.through \in first .. k
    BY <1>2
  <2> QED
    BY <1>2, <1>5, <2>1, <2>2 DEF Carried
<1>6. CASE k \in H!Answered(a)
  <2> DEFINE rows == H!Rows(a, k)
             n == H!ApplyDay(m, k, rows)
  <2>1. a[k] \in {"file", "empty"}
    BY <1>1, <1>6 DEF H!Answered
  <2>2. rows = IF a[k] = "file" THEN x2[k] ELSE {}
    BY DEF H!Rows
  <2>3. H!Sound(m) /\ x1 \in H!Days /\ k \in H!Days /\ k <= x1 /\ m.start <= k
    BY <1>1, <1>3 DEF Carried, Runs
  <2>4. /\ H!Sound(n) /\ n.days = m.days
        /\ n.through = IF rows # {} /\ (m.through = None \/ k > m.through) THEN k ELSE m.through
        /\ m.start <= n.start /\ n.start <= k /\ k <= H!Last(n) /\ H!Last(m) <= H!Last(n)
        /\ n.missing \subseteq m.missing /\ \A d \in m.missing : d >= n.start => d \in n.missing
    BY <2>3, AppliedDay
  <2>5. \A i \in HistoryItems : \A d \in n.start .. H!Last(n) :
          n.median[i][d - n.start] = IF d = k /\ i \in rows THEN k
                                     ELSE IF d <= H!Last(m) THEN m.median[i][d - m.start] ELSE None
    BY <2>3, AppliedDay
  <2> HIDE DEF n
  <2>6. /\ n.start \in Nat /\ H!Last(n) \in Nat /\ n.start >= m.start
    BY <1>1, <2>4, HistoryConstants DEF H!Sound, H!Histories, H!Days, H!Last
  <2>7. n.through = h.through \/ (n.through \in first .. k /\ a[n.through] = "file")
    BY <1>1, <1>2, <2>1, <2>2, <2>4 DEF Carried
  <2>8. ASSUME NEW d \in first .. k, a[d] = "file", x2[d] # {}
        PROVE  n.through # None /\ d <= n.through
    <3>1. CASE d = k
      BY <1>1, <1>3, <1>4, <2>2, <2>4, <2>8, <3>1
    <3>2. CASE d \in first .. (k - 1)
      <4>1. m.through # None /\ d <= m.through
        BY <2>8, <3>2 DEF Carried
      <4> QED
        BY <1>1, <1>3, <1>4, <2>4, <4>1
    <3> QED
      BY <1>2, <3>1, <3>2
  <2>9. n.missing \subseteq h.missing
    BY <2>4 DEF Carried
  <2>10. ASSUME NEW d \in h.missing, d >= n.start PROVE d \in n.missing
    <3>1. d \in Nat
      BY <1>1 DEF Runs, H!Sound, H!Histories
    <3>2. d \in m.missing
      BY <1>3, <2>6, <2>10, <3>1 DEF Carried
    <3> QED
      BY <2>4, <2>10, <3>2
  <2>11. ASSUME NEW i \in HistoryItems, NEW d \in n.start .. H!Last(n)
         PROVE  n.median[i][d - n.start] =
                  IF d \in first .. k /\ a[d] = "file" /\ i \in x2[d] THEN d
                  ELSE IF d <= H!Last(h) THEN h.median[i][d - h.start] ELSE None
    <3>1. d \in Nat /\ d >= m.start /\ (d <= H!Last(m) => d \in m.start .. H!Last(m))
      BY <1>3, <2>6
    <3>2. CASE d > H!Last(m)
      <4>1. ~(d <= H!Last(m)) /\ ~(d <= H!Last(h))
        BY <1>3, <3>1, <3>2 DEF Carried
      <4>2. d \in first .. (k - 1) /\ a[d] = "file" => x2[d] = {}
        <5> SUFFICES ASSUME d \in first .. (k - 1), a[d] = "file", x2[d] # {} PROVE FALSE
          OBVIOUS
        <5>1. m.through # None /\ d <= m.through
          BY DEF Carried
        <5>2. m.through <= H!Last(m)
          BY <2>3, <5>1 DEF H!Sound
        <5> QED
          BY <1>3, <3>1, <3>2, <5>1, <5>2
      <4> QED
        BY <1>2, <2>1, <2>2, <2>5, <4>1, <4>2
    <3>3. CASE d <= H!Last(m)
      <4>1. m.median[i][d - m.start] =
              IF d \in first .. (k - 1) /\ a[d] = "file" /\ i \in x2[d] THEN d
              ELSE IF d <= H!Last(h) THEN h.median[i][d - h.start] ELSE None
        BY <3>1, <3>3 DEF Carried
      <4>2. n.median[i][d - n.start] = IF d = k /\ i \in rows THEN k ELSE m.median[i][d - m.start]
        BY <2>5, <3>3
      <4> HIDE DEF rows
      <4> QED
        BY <1>2, <2>1, <2>2, <4>1, <4>2
    <3> QED
      BY <1>3, <3>1, <3>2, <3>3
  <2>12. n.days = h.days /\ h.start <= n.start /\ H!Last(h) <= H!Last(n)
    BY <1>3, <2>4, <2>6 DEF Carried
  <2>13. Carried(h, n, first, k, a)
    BY <2>4, <2>7, <2>8, <2>9, <2>10, <2>11, <2>12 DEF Carried
  <2> QED
    BY <1>6, <2>13 DEF n
<1> QED
  BY <1>5, <1>6

\* The days one after the other: the history as it is once each of them is done.
Follows(f, h, a, dates) ==
  f = [d \in {H!Min(dates) - 1} \cup dates |->
         IF d \notin dates THEN h
         ELSE IF d \in H!Answered(a) THEN H!ApplyDay(f[d - 1], d, H!Rows(a, d)) ELSE f[d - 1]]

LEMMA DatesAre ==
  ASSUME NEW first \in Nat, first >= 1, NEW n \in Nat, first <= n
  PROVE  H!Min(first .. n) = first /\ H!Max(first .. n) = n
<1>1. first \in first .. n /\ \A y \in first .. n : first =< y
  OBVIOUS
<1>2. n \in first .. n /\ \A y \in first .. n : n >= y
  OBVIOUS
<1>3. H!Min(first .. n) \in first .. n /\ \A y \in first .. n : H!Min(first .. n) =< y
  BY <1>1 DEF H!Min
<1>4. H!Max(first .. n) \in first .. n /\ \A y \in first .. n : H!Max(first .. n) >= y
  BY <1>2 DEF H!Max
<1> QED
  BY <1>1, <1>2, <1>3, <1>4

\* One value of it for each day there is, up to day n ...
\* (the least day without one would have it from the day before)
LEMMA UpToExists ==
  ASSUME NEW first \in Nat, first >= 1, NEW n \in Nat, first <= n, NEW h, NEW a
  PROVE  \E f : Follows(f, h, a, first .. n)
<1> DEFINE Span(k) == (first - 1) .. k
           Rec(f, k) == f = [d \in Span(k) |->
             IF d \notin first .. n THEN h
             ELSE IF d \in H!Answered(a) THEN H!ApplyDay(f[d - 1], d, H!Rows(a, d)) ELSE f[d - 1]]
           Bad == {k \in (first - 1) .. n : ~\E f : Rec(f, k)}
<1>1. SUFFICES ASSUME Bad # {} PROVE FALSE
  <2>1. n \in (first - 1) .. n /\ Bad = {}
    BY <1>1
  <2>2. PICK f : Rec(f, n)
    BY <2>1
  <2>3. {H!Min(first .. n) - 1} \cup first .. n = Span(n)
    BY DatesAre
  <2>4. Follows(f, h, a, first .. n)
    BY <2>2, <2>3 DEF Follows
  <2> QED
    BY <2>4
<1>2. PICK k \in Bad : \A j \in Bad : k <= j
  <2>1. Bad \subseteq 0 .. n
    OBVIOUS
  <2> HIDE DEF Bad
  <2> QED
    BY <1>1, <2>1, Outermost
<1>3. k \in (first - 1) .. n /\ ~\E f : Rec(f, k)
  OBVIOUS
<1>4. CASE k = first - 1
  <2> DEFINE g == [d \in Span(k) |-> h]
  <2>1. Rec(g, k)
    <3>1. \A d \in Span(k) : d \notin first .. n
      BY <1>4
    <3> QED
      BY <3>1
  <2> QED
    BY <1>3, <2>1
<1>5. CASE k # first - 1
  <2>1. k - 1 \in (first - 1) .. n /\ k \in first .. n /\ ~(k <= k - 1)
    BY <1>3, <1>5
  <2>2. k - 1 \notin Bad
    BY <1>2, <2>1
  <2>3. PICK f : Rec(f, k - 1)
    BY <2>1, <2>2
  <2> DEFINE g == [d \in Span(k) |-> IF d = k THEN (IF k \in H!Answered(a) THEN H!ApplyDay(f[k - 1], k, H!Rows(a, k)) ELSE f[k - 1])
                                  ELSE f[d]]
  <2>4. Span(k) = Span(k - 1) \cup {k} /\ k \notin Span(k - 1) /\ k - 1 \in Span(k - 1)
    BY <2>1
  <2>5. \A d \in Span(k - 1) : g[d] = f[d]
    BY <2>4
  <2>6. \A d \in Span(k) : d \in first .. n => d - 1 \in Span(k - 1)
    BY <2>1
  <2>7. ASSUME NEW d \in Span(k)
        PROVE  g[d] = IF d \notin first .. n THEN h
                      ELSE IF d \in H!Answered(a) THEN H!ApplyDay(g[d - 1], d, H!Rows(a, d)) ELSE g[d - 1]
    <3>1. CASE d = k
      BY <2>1, <2>4, <2>5, <2>6, <3>1
    <3>2. CASE d # k
      <4>1. d \in Span(k - 1)
        BY <2>4, <3>2
      <4>2. f[d] = IF d \notin first .. n THEN h
                   ELSE IF d \in H!Answered(a) THEN H!ApplyDay(f[d - 1], d, H!Rows(a, d)) ELSE f[d - 1]
        BY <2>3, <4>1
      <4>3. d \in first .. n => g[d - 1] = f[d - 1]
        BY <2>5, <2>6
      <4> HIDE DEF g
      <4> QED
        BY <2>5, <4>1, <4>2, <4>3
    <3> QED
      BY <3>1, <3>2
  <2>8. Rec(g, k)
    <3>1. g = [d \in Span(k) |-> g[d]]
      OBVIOUS
    <3> HIDE DEF g
    <3> QED
      BY <2>7, <3>1
  <2> QED
    BY <1>3, <2>8
<1> QED
  BY <1>4, <1>5

\* ... so that the recursion of update_history is one of them ...
LEMMA CameFollows ==
  ASSUME NEW h, NEW a, NEW dates, \E f : Follows(f, h, a, dates)
  PROVE  \E f : Follows(f, h, a, dates) /\ H!Came(h, a, dates) = f[H!Max(dates)]
<1> DEFINE g == CHOOSE f : Follows(f, h, a, dates)
<1>1. Follows(g, h, a, dates)
  OBVIOUS
<1>2. H!Came(h, a, dates) = g[H!Max(dates)]
  BY DEF H!Came, Follows
<1> HIDE DEF g
<1> QED
  BY <1>1, <1>2

\* ... and has done with each day what it should, the last one included.
LEMMA CameIs ==
  ASSUME NEW h, NEW first, NEW a, Runs(h, first, a)
  PROVE  Carried(h, H!Came(h, a, first .. x1), first, x1, a)
<1>1. first \in Nat /\ first >= 1 /\ x1 \in Nat /\ first <= x1
  BY HistoryConstants DEF Runs, H!Days
<1>2. PICK f : Follows(f, h, a, first .. x1) /\ H!Came(h, a, first .. x1) = f[x1]
  <2>1. \E f : Follows(f, h, a, first .. x1)
    BY <1>1, UpToExists
  <2>2. PICK f : Follows(f, h, a, first .. x1) /\ H!Came(h, a, first .. x1) = f[H!Max(first .. x1)]
    BY <2>1, CameFollows
  <2>3. H!Max(first .. x1) = x1
    BY <1>1, DatesAre
  <2> QED
    BY <2>2, <2>3
<1>3. /\ \A d \in first .. x1 :
           f[d] = IF d \in H!Answered(a) THEN H!ApplyDay(f[d - 1], d, H!Rows(a, d)) ELSE f[d - 1]
      /\ f[first - 1] = h
  <2>1. H!Min(first .. x1) = first
    BY <1>1, DatesAre
  <2>2. f = [d \in {first - 1} \cup first .. x1 |->
         IF d \notin first .. x1 THEN h
         ELSE IF d \in H!Answered(a) THEN H!ApplyDay(f[d - 1], d, H!Rows(a, d)) ELSE f[d - 1]]
    BY <1>2, <2>1 DEF Follows
  <2>3. first - 1 \notin first .. x1
    BY <1>1
  <2> QED
    BY <2>2, <2>3
<1> DEFINE Bad == {k \in (first - 1) .. x1 : ~Carried(h, f[k], first, k, a)}
<1>4. SUFFICES ASSUME Bad # {} PROVE FALSE
  BY <1>1, <1>2
<1>5. PICK k \in Bad : \A j \in Bad : k <= j
  <2>1. Bad \subseteq 0 .. x1
    BY <1>1
  <2> HIDE DEF Bad
  <2> QED
    BY <1>1, <1>4, <2>1, Outermost
<1>6. k \in (first - 1) .. x1 /\ ~Carried(h, f[k], first, k, a)
  OBVIOUS
<1>7. CASE k = first - 1
  <2>1. first .. k = {} /\ f[k] = h
    BY <1>1, <1>3, <1>7
  <2>2. H!Sound(h) /\ h.start \in Nat /\ H!Last(h) \in Nat
    BY HistoryConstants DEF Runs, H!Sound, H!Histories, H!Days, H!Last
  <2>3. \A d \in h.start .. H!Last(h) : d <= H!Last(h)
    BY <2>2
  <2>4. Carried(h, h, first, k, a)
    BY <2>1, <2>2, <2>3 DEF Carried
  <2> QED
    BY <1>6, <2>1, <2>4
<1>8. CASE k # first - 1
  <2>1. k \in first .. x1 /\ k - 1 \in (first - 1) .. x1 /\ ~(k <= k - 1)
    BY <1>1, <1>6, <1>8
  <2>2. Carried(h, f[k - 1], first, k - 1, a)
    BY <1>5, <2>1
  <2> QED
    BY <1>3, <1>6, <2>1, <2>2, DayStep
<1> QED
  BY <1>7, <1>8

LEMMA HistoryInit == H!Init => H!HistoryKept
<1> SUFFICES ASSUME H!Init PROVE H!HistoryKept
  OBVIOUS
<1>1. Lengths # {} /\ Lengths \subseteq 0 .. LastHistoryDay /\ LastHistoryDay \in Nat
  BY HistoryConstants
<1>2. x1 \in Lengths /\ \A n \in Lengths : n <= x1
  BY <1>1, MaxIs DEF H!Init
<1>3. x1 \in H!Days /\ x5 \in Nat
  BY <1>2, HistoryConstants DEF H!Init, H!Days
<1>4. x3 = None /\ x2 \in [1 .. x1 -> SUBSET HistoryItems]
  BY DEF H!Init
<1> QED
  BY <1>2, <1>3, <1>4 DEF H!HistoryKept, H!GapsAreNamed

\* What a run starts from is a history that holds nothing of the days it will fetch.
LEMMA StartsFrom ==
  ASSUME H!HistoryKept, NEW n \in Lengths
  PROVE  LET h == IF H!Usable(n) THEN x3 ELSE H!Blank(n) IN
         /\ H!Sound(h) /\ h.days = n /\ (h.through # None => H!Usable(n))
         /\ h.through # None => h.through < H!FirstDate(n)
         /\ H!EmptyFrom(h, H!FirstDate(n)) /\ H!EmptyFrom(h, H!Upcoming(h))
<1> DEFINE h == IF H!Usable(n) THEN x3 ELSE H!Blank(n)
           first == H!FirstDate(n)
<1> SUFFICES /\ H!Sound(h) /\ h.days = n /\ (h.through # None => H!Usable(n))
             /\ h.through # None => h.through < first
             /\ H!EmptyFrom(h, first) /\ H!EmptyFrom(h, H!Upcoming(h))
  OBVIOUS
<1>1. /\ n \in Nat /\ n >= 1 /\ x1 \in Nat /\ x1 \in H!Days /\ n <= x1 /\ None \notin Nat
      /\ first \in Nat
  BY HistoryConstants, KeysConstants, FirstDateIs DEF H!HistoryKept, H!Days
<1>2. CASE H!Usable(n)
  <2>1. x3 # None /\ x3.days = n /\ H!Sound(x3) /\ H!EmptyFrom(x3, H!Upcoming(x3))
    BY <1>2 DEF H!Usable, H!HistoryKept
  <2>2. x3.through # None => x3.through < first
    <3>1. x3.through # None => first > x3.through
      BY <1>2, FirstDateIs
    <3>2. x3.through # None => x3.through \in Nat
      BY <2>1 DEF H!Sound, H!Histories, H!Days
    <3> QED
      BY <1>1, <3>1, <3>2
  <2>3. H!Upcoming(x3) \in Nat /\ H!Upcoming(x3) <= first
    BY <1>1, <2>1, <2>2 DEF H!Upcoming, H!Sound, H!Histories, H!Days
  <2>4. \A d \in x3.start .. H!Last(x3) : d >= first => d >= H!Upcoming(x3)
    BY <1>1, <2>3
  <2>5. H!EmptyFrom(x3, first)
    BY <2>1, <2>4 DEF H!EmptyFrom
  <2>6. h = x3
    BY <1>2
  <2> HIDE DEF first, h
  <2> QED
    BY <1>2, <2>1, <2>2, <2>5, <2>6
<1>3. CASE ~H!Usable(n)
  <2> DEFINE b == H!Blank(n)
  <2>1. b.start = x1 - n + 1 /\ b.days = n /\ b.through = None
    BY DEF H!Blank
  <2>2. H!Last(b) = x1 /\ b.start \in H!Days
    <3> HIDE DEF b
    <3>1. H!Last(b) = x1
      BY <1>1, <2>1 DEF H!Last
    <3>2. x1 \in 1 .. LastHistoryDay /\ LastHistoryDay \in Nat
      BY <1>1, HistoryConstants DEF H!Days
    <3> QED
      BY <1>1, <2>1, <3>1, <3>2 DEF H!Days
  <2>3. b \in H!Histories(n)
    BY <1>1, <2>2 DEF H!Blank, H!Histories
  <2>4. ASSUME NEW i \in HistoryItems, NEW d \in b.start .. H!Last(b) PROVE b.median[i][d - b.start] = None
    <3>1. d - (x1 - n + 1) \in 0 .. n - 1
      BY <1>1, <2>1, <2>2
    <3> QED
      BY <2>1, <3>1 DEF H!Blank
  <2> HIDE DEF b
  <2>5. H!Sound(b) /\ \A k : H!EmptyFrom(b, k)
    BY <1>1, <2>1, <2>2, <2>3, <2>4 DEF H!Sound, H!EmptyFrom
  <2>6. h = b
    BY <1>3 DEF b
  <2> HIDE DEF first, h
  <2> QED
    BY <1>3, <2>1, <2>5, <2>6
<1> QED
  BY <1>2, <1>3

\* What has to hold of the history m that a run leaves.
Named(m) ==
  \A d \in ((m.start .. H!Last(m)) \cap (x5' .. m.through)) \ m.missing :
    /\ x4'[d] \in {"file", "empty"}
    /\ \A i \in HistoryItems : m.median[i][d - m.start] =
         IF x4'[d] = "file" /\ i \in x2[d] THEN d ELSE None
LEMMA LeavesIt ==
  ASSUME H!HistoryKept, UNCHANGED <<x1, x2>>, x5' \in Nat, NEW m, x3' = m,
         H!Sound(m), H!EmptyFrom(m, H!Upcoming(m)), m.through # None => Named(m)
  PROVE  H!HistoryKept'
<1>1. x1' \in H!Days /\ x5' \in Nat /\ (\A n \in Lengths : n <= x1') /\ x2' \in [1 .. x1' -> SUBSET HistoryItems]
  BY DEF H!HistoryKept
<1>2. m.days \in Lengths /\ m \in H!Histories(m.days) /\ H!Last(m) <= x1'
      /\ (m.through # None => m.through <= H!Last(m))
  BY DEF H!Sound
<1>3. H!Sound(x3)'
  BY <1>2 DEF H!Sound, H!Histories, H!Last, H!Days
<1>4. H!EmptyFrom(x3, H!Upcoming(x3))'
  BY DEF H!EmptyFrom, H!Upcoming, H!Last
<1>5. H!GapsAreNamed'
  BY DEF H!GapsAreNamed, H!Window, Named, H!Last
<1> QED
  BY <1>1, <1>3, <1>4, <1>5 DEF H!HistoryKept

LEMMA RunStep ==
  ASSUME H!HistoryKept, NEW n \in Lengths, H!Run(n)
  PROVE  H!HistoryKept'
<1> DEFINE h == IF H!Usable(n) THEN x3 ELSE H!Blank(n)
           first == H!FirstDate(n)
           goesOn == H!Usable(n) /\ x3.through # None /\ first = x3.through + 1
<1>1. PICK a \in [first .. x1 -> {"file", "empty", "failed"}] :
        /\ x3' = H!Updated(h, a, first .. x1)
        /\ x4' = [d \in H!Days |-> IF d \in first .. x1 THEN a[d] ELSE x4[d]]
        /\ x5' = IF goesOn \/ first .. x1 = {} THEN x5 ELSE first
        /\ UNCHANGED <<x1, x2>>
  BY DEF H!Run, H!Dates
<1>2. /\ H!Sound(h) /\ h.days = n /\ (h.through # None => H!Usable(n))
      /\ h.through # None => h.through < first
      /\ H!EmptyFrom(h, first) /\ H!EmptyFrom(h, H!Upcoming(h))
  BY StartsFrom
<1>3. /\ n \in Nat /\ n >= 1 /\ x1 \in Nat /\ x1 \in H!Days /\ n <= x1 /\ None \notin Nat
      /\ first \in Nat /\ first >= 1 /\ first > x1 - n /\ H!Days = 1 .. LastHistoryDay
      /\ LastHistoryDay \in Nat
  BY HistoryConstants, KeysConstants, FirstDateIs DEF H!HistoryKept, H!Days
<1>4. /\ h.start \in Nat /\ h.start >= 1 /\ H!Last(h) = h.start + n - 1 /\ H!Last(h) <= x1
      /\ h.through \in Nat \cup {None} /\ (h.through # None => h.through <= H!Last(h))
  BY <1>2, <1>3 DEF H!Sound, H!Histories, H!Last
<1>5. H!Usable(n) => h = x3 /\ x3 # None
  BY DEF H!Usable
<1> HIDE DEF h, first
<1>6. x5' \in Nat
  BY <1>1, <1>3 DEF H!HistoryKept
<1>7. CASE first .. x1 = {}
  <2>1. x3' = h /\ x5' = x5
    BY <1>1, <1>7 DEF H!Updated
  <2>2. \A d \in H!Days : x4'[d] = x4[d]
    BY <1>1, <1>7
  <2>3. h.through # None => Named(h)
    <3> SUFFICES ASSUME h.through # None PROVE Named(h)
      OBVIOUS
    <3>1. h = x3 /\ x3 # None /\ H!GapsAreNamed
      BY <1>2, <1>5 DEF H!HistoryKept
    <3>2. h.start .. H!Last(h) \subseteq H!Days
      BY <1>3, <1>4
    <3> QED
      BY <1>1, <2>1, <2>2, <3>1, <3>2 DEF H!GapsAreNamed, H!Window, Named, H!Last
  <2> QED
    BY <1>1, <1>2, <1>6, <2>1, <2>3, LeavesIt
<1>8. CASE first .. x1 # {}
  <2> DEFINE m == H!Came(h, a, first .. x1)
             r == [m EXCEPT !.missing = @ \cup H!Gaps(a)]
  <2>1. Runs(h, first, a)
    BY <1>2, <1>3, <1>8 DEF Runs
  <2>2. Carried(h, m, first, x1, a)
    BY <2>1, CameIs
  <2>3. x3' = r /\ x5' = IF goesOn THEN x5 ELSE first
    BY <1>1, <1>8 DEF H!Updated
  <2> HIDE DEF m
  <2>4. DOMAIN a = first .. x1 /\ H!Gaps(a) \subseteq H!Days
    BY <1>3 DEF H!Gaps
  <2>5. H!Sound(m) /\ m.days = n /\ m \in H!Histories(n)
    BY <1>2, <2>2 DEF Carried, H!Sound
  <2>6. /\ r.start = m.start /\ r.days = m.days /\ r.through = m.through /\ r.median = m.median
        /\ r.missing = m.missing \cup H!Gaps(a) /\ r \in H!Histories(n) /\ H!Last(r) = H!Last(m)
    BY <2>4, <2>5 DEF H!Histories, H!Last
  <2> HIDE DEF r
  <2>7. H!Sound(r)
    BY <2>5, <2>6 DEF H!Sound
  <2>8. /\ m.start \in Nat /\ m.start >= 1 /\ m.start >= h.start /\ H!Last(m) = m.start + n - 1
        /\ H!Last(m) <= x1 /\ H!Last(m) \in Nat /\ m.through \in Nat \cup {None}
        /\ (m.through # None => m.through <= H!Last(m)) /\ H!Last(h) <= H!Last(m)
    BY <1>3, <2>2, <2>5 DEF H!Sound, H!Histories, H!Last, Carried
  <2>9. \A i \in HistoryItems : \A d \in m.start .. H!Last(m) :
          m.median[i][d - m.start] =
            IF d \in first .. x1 /\ a[d] = "file" /\ i \in x2[d] THEN d
            ELSE IF d <= H!Last(h) THEN h.median[i][d - h.start] ELSE None
    BY <2>2 DEF Carried
  <2>10. m.through = h.through \/ (m.through \in first .. x1 /\ a[m.through] = "file")
    BY <2>2 DEF Carried
  <2>11. \A d \in first .. x1 : a[d] = "file" /\ x2[d] # {} => m.through # None /\ d <= m.through
    BY <2>2 DEF Carried
  <2>12. ASSUME NEW i \in HistoryItems, NEW d \in m.start .. H!Last(m), d >= H!Upcoming(m)
         PROVE  m.median[i][d - m.start] = None
    <3>1. d \in Nat /\ d >= h.start /\ (m.through # None => d > m.through)
      BY <1>4, <2>8, <2>12 DEF H!Upcoming
    <3>2. ~(d \in first .. x1 /\ a[d] = "file" /\ i \in x2[d])
      BY <2>8, <2>11, <3>1
    <3>3. d >= H!Upcoming(h)
      BY <1>2, <1>3, <1>4, <2>8, <2>10, <3>1 DEF H!Upcoming
    <3>4. d <= H!Last(h) => h.median[i][d - h.start] = None
      BY <1>2, <1>4, <3>1, <3>3 DEF H!EmptyFrom
    <3> QED
      BY <2>9, <3>2, <3>4
  <2>13. H!EmptyFrom(r, H!Upcoming(r))
    BY <2>6, <2>12 DEF H!EmptyFrom, H!Upcoming
  <2>14. ASSUME m.through # None, NEW d \in ((r.start .. H!Last(r)) \cap (x5' .. r.through)) \ r.missing
         PROVE  /\ x4'[d] \in {"file", "empty"}
                /\ \A i \in HistoryItems : r.median[i][d - r.start] =
                     IF x4'[d] = "file" /\ i \in x2[d] THEN d ELSE None
    <3>1. /\ d \in Nat /\ d \in m.start .. H!Last(m) /\ d >= x5' /\ d <= m.through
          /\ d \notin m.missing /\ d \notin H!Gaps(a) /\ d \in H!Days
      BY <1>3, <1>6, <2>6, <2>8, <2>14
    <3>2. CASE d >= first
      <4>1. d \in first .. x1 /\ x4'[d] = a[d]
        BY <1>1, <1>3, <2>8, <3>1, <3>2
      <4>2. m.through \in first .. x1 /\ a[m.through] = "file"
        BY <1>2, <1>3, <1>4, <2>8, <2>10, <2>14, <3>1, <3>2
      <4>3. a[d] # "failed"
        <5> SUFFICES ASSUME a[d] = "failed" PROVE FALSE
          OBVIOUS
        <5>1. m.through \in H!Answered(a) /\ d < m.through
          BY <2>4, <2>8, <3>1, <4>2 DEF H!Answered
        <5> QED
          BY <2>4, <3>1, <4>1, <5>1 DEF H!Gaps
      <4>4. a[d] \in {"file", "empty"}
        BY <4>1, <4>3
      <4>5. \A i \in HistoryItems : h.start <= d /\ d <= H!Last(h) => h.median[i][d - h.start] = None
        BY <1>2, <1>4, <3>1, <3>2 DEF H!EmptyFrom
      <4> QED
        BY <1>4, <2>6, <2>8, <2>9, <3>1, <4>1, <4>4, <4>5
    <3>3. CASE d < first
      <4>1. goesOn /\ x5' = x5
        BY <1>3, <2>3, <3>1, <3>3
      <4>2. h = x3 /\ x3 # None /\ x3.through # None /\ d <= x3.through
        BY <1>3, <1>4, <1>5, <3>1, <3>3, <4>1
      <4>3. d \notin h.missing
        BY <2>2, <2>8, <3>1 DEF Carried
      <4>4. d \in h.start .. H!Last(h) /\ d \in x5 .. h.through
        BY <1>3, <1>4, <1>6, <2>8, <3>1, <4>1, <4>2
      <4>5. /\ x4[d] \in {"file", "empty"}
            /\ \A i \in HistoryItems : h.median[i][d - h.start] =
                 IF x4[d] = "file" /\ i \in x2[d] THEN d ELSE None
        BY <4>2, <4>3, <4>4 DEF H!HistoryKept, H!GapsAreNamed, H!Window, H!Last
      <4>6. d \notin first .. x1 /\ x4'[d] = x4[d] /\ d <= H!Last(h)
        BY <1>1, <1>3, <1>4, <3>1, <3>3, <4>4
      <4> QED
        BY <2>6, <2>9, <3>1, <4>5, <4>6
    <3> QED
      BY <1>3, <3>1, <3>2, <3>3
  <2>15. r.through # None => Named(r)
    BY <2>6, <2>14 DEF Named
  <2> QED
    BY <1>1, <1>6, <2>3, <2>7, <2>13, <2>15, LeavesIt
<1> QED
  BY <1>7, <1>8

LEMMA DayEnds == H!HistoryKept /\ H!Tick => H!HistoryKept'
<1> SUFFICES ASSUME H!HistoryKept, H!Tick PROVE H!HistoryKept'
  OBVIOUS
<1>1. x1 \in Nat /\ x1 < LastHistoryDay /\ x1' = x1 + 1 /\ x1' \in H!Days /\ LastHistoryDay \in Nat
  BY HistoryConstants DEF H!HistoryKept, H!Tick, H!Days
<1>2. /\ x2' \in [1 .. x1' -> SUBSET HistoryItems] /\ \A d \in 1 .. x1 : x2'[d] = x2[d]
      /\ UNCHANGED <<x3, x4, x5>>
  <2>1. PICK T \in SUBSET HistoryItems : x2' = [d \in 1 .. x1' |-> IF d = x1' THEN T ELSE x2[d]]
    BY DEF H!Tick
  <2>2. 1 .. x1' = 1 .. x1 \cup {x1'} /\ x1' \notin 1 .. x1
    BY <1>1
  <2>3. x2 \in [1 .. x1 -> SUBSET HistoryItems]
    BY DEF H!HistoryKept
  <2> QED
    BY <2>1, <2>2, <2>3 DEF H!Tick
<1>3. x1' \in H!Days /\ x5' \in Nat /\ \A n \in Lengths : n <= x1'
  <2>1. \A n \in Lengths : n \in Nat /\ n <= x1
    BY HistoryConstants DEF H!HistoryKept
  <2> QED
    BY <1>1, <1>2, <2>1 DEF H!HistoryKept
<1>4. ASSUME x3 # None
      PROVE  /\ H!Sound(x3) /\ H!EmptyFrom(x3, H!Upcoming(x3))
             /\ x3.start \in Nat /\ x3.start >= 1 /\ H!Last(x3) \in Nat /\ H!Last(x3) <= x1
  BY <1>4, <1>1, HistoryConstants DEF H!HistoryKept, H!Sound, H!Histories, H!Days, H!Last
<1>5. ASSUME x3' # None PROVE H!Sound(x3)' /\ H!EmptyFrom(x3, H!Upcoming(x3))'
  <2>1. H!Last(x3) <= x1'
    BY <1>1, <1>2, <1>4, <1>5
  <2> QED
    BY <1>2, <1>4, <1>5, <2>1 DEF H!Sound, H!Histories, H!Days, H!Last, H!EmptyFrom, H!Upcoming
<1>6. H!GapsAreNamed'
  <2> SUFFICES ASSUME x3 # None, x3.through # None,
                      NEW d \in (H!Window \cap (x5 .. x3.through)) \ x3.missing
               PROVE  /\ x4[d] \in {"file", "empty"}
                      /\ \A i \in HistoryItems : x3.median[i][d - x3.start] =
                           IF x4[d] = "file" /\ i \in x2'[d] THEN d ELSE None
    BY <1>2 DEF H!GapsAreNamed, H!Window
  <2>1. d \in 1 .. x1
    BY <1>1, <1>4 DEF H!Window, H!Last
  <2> QED
    BY <1>2, <2>1 DEF H!HistoryKept, H!GapsAreNamed
<1> QED
  BY <1>2, <1>3, <1>5, <1>6 DEF H!HistoryKept

LEMMA HistoryNext == H!HistoryKept /\ [H!Next]_H!vars => H!HistoryKept'
<1> SUFFICES ASSUME H!HistoryKept, [H!Next]_H!vars PROVE H!HistoryKept'
  OBVIOUS
<1>1. CASE UNCHANGED H!vars
  <2>1. x1' = x1 /\ x2' = x2 /\ x3' = x3 /\ x4' = x4 /\ x5' = x5
    BY <1>1 DEF H!vars
  <2> QED
    BY <2>1 DEF H!HistoryKept, H!GapsAreNamed, H!Window, H!Sound, H!EmptyFrom, H!Upcoming, H!Histories,
                H!Last, H!Days
<1> QED
  BY <1>1, RunStep, DayEnds DEF H!Next

(* GapsAreNamed: up to the last day that holds data, every day the runs went  *)
(* through is listed as missing, or its column holds what the mirror answered *)
(* for that day and nothing of another, whatever the lengths of the windows,  *)
(* the days that failed and those that came late. (apply_day, update_history) *)
THEOREM NoDayIsLost == H!Spec => []GapsAreNamed
<1>1. H!HistoryKept => GapsAreNamed
  BY DEF H!HistoryKept, GapsAreNamed
<1> QED
  BY <1>1, HistoryInit, HistoryNext, PTL DEF H!Spec
=============================================================================
