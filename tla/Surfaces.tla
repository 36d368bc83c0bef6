------------------------------ MODULE Surfaces ------------------------------
(***************************************************************************)
(* The daily build of market.json out of sources that fail one by one: what *)
(* each surface of the new snapshot holds, and the age it states, given    *)
(* what this cycle observed and what the prior snapshot held.              *)
(*                                                                         *)
(* Followed are: one surface, which is either keyed by item and may be     *)
(* fetched in part (paths, sets, vault status) or a child of the world     *)
(* state; the relic tables, which have a first-party source and a poorer   *)
(* fallback; and Baro's stock, which only exists while he is in town.      *)
(***************************************************************************)
EXTENDS Integers, FiniteSets, FiniteSetsExt

CONSTANTS
  Keys,       \* rows of the surface
  StaleDays,  \* STALE_DAYS
  MaxDay,     \* bound on the days
  None

VARIABLES
  day,      \* the clock that is injected into a build
  keyed,    \* whether the surface is keyed by item, or a child of the world state
  rows,     \* the surface as published, with its stamps, or None before the first build
  relics,   \* the relic tables as published: their source, or None when empty
  stock,    \* Baro's inventory as published: the visit it is for, or None
  visit,    \* the visit the world is at, and whether its stock is listed
  seen      \* for each key: the day the published value was read from a source
vars == <<day, keyed, rows, relics, stock, visit, seen>>

Days == 0 .. MaxDay
Empty == [k \in {} |-> 0]

\* A surface as it is published: its keys, its stamp (surface_fetched_at), and its
\* KeyStamps: when keys were last observed, the carried ones apart.
Surface(keys, stamp, fresh_at, carried) ==
  [data |-> keys, stamp |-> stamp, fresh_at |-> fresh_at, carried |-> carried]
Of(s, k) == IF k \in DOMAIN s.carried THEN s.carried[k] ELSE s.fresh_at

\* A snapshot from before there were key stamps observed every key at the surface's stamp,
\* which it may lack.
Legacy == {Surface(Keys, s, s, Empty) : s \in {0, None}}
Init ==
  /\ day = 0 /\ keyed \in BOOLEAN /\ rows \in Legacy \cup {None}
  /\ relics \in IF rows = None THEN {None} ELSE {None, "legacy", "de"}
  /\ stock = None /\ visit = [number |-> 0, listed |-> FALSE]
  /\ seen = [k \in Keys |-> 0]

---------------------------------------------------------------------------
\* What a source established about the surface this cycle.
Saw(kind, data) == [kind |-> kind, data |-> data]
\* world_array_observation, child_observation: a literal array alone can clear, and one
\* with a row that is not understood establishes nothing.
WorldChild(raw, valid) ==
  IF raw = {} THEN Saw("empty", {})
  ELSE IF valid # raw THEN Saw("invalid", {}) ELSE Saw("complete", raw)
Observations ==
  {Saw("unavailable", {})} \cup
  IF keyed THEN {Saw(kind, S) : kind \in {"partial", "complete"}, S \in (SUBSET Keys) \ {{}}}
  ELSE {Saw("unchanged", {}), Saw("invalid", {})}
       \cup {WorldChild(raw, valid) : raw, valid \in SUBSET Keys}

Now(keys) == Surface(keys, day, day, Empty)
Preserved(prior) == IF prior = None THEN Now({}) ELSE prior

\* reconcile: everything but a partial merge.
Reconciled(o, prior) ==
  IF o.kind \in {"empty", "partial", "complete"} THEN Now(o.data) ELSE Preserved(prior)

\* reconcile_keyed: keys the sources did not return are carried while they are young.
Young(prior, k) == Of(prior, k) # None /\ day - Of(prior, k) < StaleDays
Carried(o, prior) == {k \in prior.data \ o.data : Young(prior, k)}
Bug_StampNow(o, prior) == day
OldestOf(o, prior) == Min({day} \cup {Of(prior, k) : k \in Carried(o, prior)})
Merged(o, prior) ==
  Surface(o.data \cup Carried(o, prior), OldestOf(o, prior), day,
          [k \in Carried(o, prior) |-> Of(prior, k)])
Keyed(o, prior) ==
  IF o.kind = "partial" /\ prior # None THEN Merged(o, prior)
  ELSE Reconciled(o, prior)

---------------------------------------------------------------------------
\* fetch_export: how DE's two manifests for the relic tables came through, and whether
\* they yielded rows. Then the policy of the build: fresh rows, or the prior ones, or
\* the drop tables.
Outcomes == {"unavailable", "invalid", "usable"}
Bug_NoPrior(prior) == FALSE
PriorHasRelics(prior) == prior # None
Relics(ofRelics, ofRecipes, yield, fallback, prior) ==
  IF ofRelics = "usable" /\ ofRecipes = "usable" /\ yield THEN "de"
  ELSE IF PriorHasRelics(prior) THEN prior
  ELSE IF fallback THEN "legacy" ELSE None

\* carry_baro_inventory, before reconcile: a schedule without its stock keeps the last one.
Stock(answered, prior) ==
  IF answered /\ visit.listed THEN visit.number ELSE prior

Build ==
  /\ \E o \in Observations :
       /\ rows' = Keyed(o, rows)
       /\ seen' = [k \in Keys |-> IF k \in o.data THEN day ELSE seen[k]]
  /\ relics' \in {Relics(a, b, yield, fallback, relics) :
                   a, b \in Outcomes, yield, fallback \in BOOLEAN}
  /\ stock' \in {Stock(answered, stock) : answered \in BOOLEAN}
  /\ UNCHANGED <<day, keyed, visit>>

\* Time, and Baro: he is announced with his stock, comes and goes.
Tick == day < MaxDay /\ day' = day + 1 /\ UNCHANGED <<keyed, rows, relics, stock, visit, seen>>
Baro ==
  /\ IF visit.listed THEN visit' = [visit EXCEPT !.listed = FALSE]
     ELSE visit.number < day /\ visit' = [number |-> day, listed |-> TRUE]
  /\ UNCHANGED <<day, keyed, rows, relics, stock, seen>>

Next == Build \/ Tick \/ Baro
Spec == Init /\ [][Next]_vars

---------------------------------------------------------------------------
TypeOK ==
  /\ day \in Days /\ seen \in [Keys -> Days]
  /\ keyed \in BOOLEAN
  /\ rows # None =>
       /\ rows.data \subseteq Keys /\ rows.stamp \in Days \cup {None}
       /\ rows.fresh_at \in Days \cup {None} /\ DOMAIN rows.carried \subseteq rows.data
       /\ \A k \in DOMAIN rows.carried : rows.carried[k] \in Days
  /\ relics \in {None, "legacy", "de"} /\ stock \in Days \cup {None}

(* A snapshot never calls itself younger than it is: whatever failed, in      *)
(* whatever order, the stamp of a surface is not later than the day any key   *)
(* in it was read, and neither is the age it keeps for the key alone.         *)
(* (reconcile and reconcile_keyed, over any number of cycles)                 *)
StampIsHonest ==
  rows # None => \A k \in rows.data :
    /\ rows.stamp # None => rows.stamp <= seen[k]
    /\ Of(rows, k) # None => Of(rows, k) <= seen[k]

(* What only one source can give is not lost when that source fails: relic    *)
(* tables are never emptied, and DE's never replaced by the poorer ones;      *)
(* Baro's last stock stays until there is a newer one.                        *)
LosesNothing ==
  /\ relics # None => relics' # None
  /\ relics = "de" => relics' = "de"
  /\ stock # None => (stock' # None /\ stock' >= stock)
NothingIsLost == [][LosesNothing]_vars

---------------------------------------------------------------------------
(* What makes them inductive.                                               *)
Past == (0 .. day) \cup {None}
StampKept ==
  /\ day \in Nat /\ keyed \in BOOLEAN /\ seen \in [Keys -> 0 .. day]
  /\ rows # None =>
       /\ rows.data \subseteq Keys /\ rows.stamp \in Past /\ rows.fresh_at \in Past
       /\ DOMAIN rows.carried \subseteq rows.data
       /\ rows.carried \in [DOMAIN rows.carried -> 0 .. day]
  /\ StampIsHonest
StockKept ==
  /\ day \in Nat /\ visit \in [number : 0 .. day, listed : BOOLEAN]
  /\ stock \in (0 .. visit.number) \cup {None} /\ relics \in {None, "legacy", "de"}
=============================================================================
