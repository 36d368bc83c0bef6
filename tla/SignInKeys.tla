----------------------------- MODULE SignInKeys -----------------------------
(***************************************************************************)
(* Who may use the publisher's dashboard (Access::principal): the identity *)
(* provider signs a token, and its public keys are fetched, kept for an    *)
(* hour, and used for a day at most while they cannot be fetched again.    *)
(* One mutex serves all requests; it is held over the fetch, and a browser *)
(* that goes away drops the request, fetch and all.                        *)
(*                                                                         *)
(* A token is its key: that it is well formed, in its time and of a person *)
(* on the list is the same verdict for both sets and left out.             *)
(***************************************************************************)
EXTENDS Integers

CONSTANTS
  Keys,
  Refresh, Backoff, Expiry, \* an hour, half a minute, a day
  Timeout,    \* what a fetch may take
  MaxTime, MaxRotations, MaxRequests, \* bounds
  None

VARIABLES
  now,
  served,     \* the keys the provider publishes
  public,     \* for each key: when it was last published, or None
  set, fetched, attempted, \* Keys: the set held, when it came, the last attempt
  request,    \* the request that holds the mutex: its token's key and its step
  answer,     \* what the provider read for the fetch under way, and when it began
  verdict,    \* the last verdict: its token's key, whether accepted, and when
  rotations, requests
held == <<set, fetched, attempted>>
vars == <<now, served, public, held, request, answer, verdict, rotations, requests>>

Idle == [key |-> None, step |-> "idle"]
Init ==
  /\ now = 0 /\ served \in (SUBSET Keys) \ {{}}
  /\ public = [k \in Keys |-> IF k \in served THEN 0 ELSE None]
  /\ set = None /\ fetched = None /\ attempted = None
  /\ request = Idle /\ answer = None /\ verdict = None /\ rotations = 0 /\ requests = 0

---------------------------------------------------------------------------
Since(t) == now - t
Stale      == fetched = None \/ Since(fetched) >= Refresh
Lacks(k)   == set = None \/ k \notin set
BackingOff == attempted # None /\ Since(attempted) < Backoff
\* Not for ever: after a day without a fetch nothing is verified.
TooOld == fetched = None \/ Since(fetched) >= Expiry

\* A token of a key the provider publishes, or published, or of another one.
Request(k) ==
  /\ request = Idle /\ requests < MaxRequests /\ requests' = requests + 1 /\ verdict' = None
  /\ IF (Stale \/ Lacks(k)) /\ ~BackingOff
     THEN /\ attempted' = now /\ request' = [key |-> k, step |-> "fetch"]
          /\ answer' = [keys |-> None, began |-> now]
     ELSE request' = [key |-> k, step |-> "verify"] /\ UNCHANGED <<attempted, answer>>
  /\ UNCHANGED <<now, served, public, set, fetched, rotations>>

\* The provider forms its answer at some time within the fetch, which may come through.
Forms ==
  /\ request.step = "fetch" /\ answer.keys = None
  /\ answer' = [answer EXCEPT !.keys = served]
  /\ UNCHANGED <<now, served, public, held, request, verdict, rotations, requests>>
Bug_StampsFailure(came) == now
FetchedAt(came) == IF came THEN now ELSE fetched
FetchEnds(came) ==
  /\ request.step = "fetch" /\ (came => answer.keys # None)
  /\ set' = IF came THEN answer.keys ELSE set
  /\ fetched' = FetchedAt(came)
  /\ request' = [request EXCEPT !.step = "verify"] /\ answer' = None
  /\ UNCHANGED <<now, served, public, attempted, verdict, rotations, requests>>
Verify ==
  /\ request.step = "verify" /\ request' = Idle
  /\ verdict' = [key |-> request.key, at |-> now,
                 accepted |-> ~TooOld /\ ~Lacks(request.key)]
  /\ UNCHANGED <<now, served, public, held, answer, rotations, requests>>
\* The browser goes away while the request waits.
Dropped ==
  /\ request.step = "fetch" /\ request' = Idle /\ answer' = None
  /\ UNCHANGED <<now, served, public, held, verdict, rotations, requests>>

---------------------------------------------------------------------------
\* Keys are published and withdrawn, with or without an overlap.
Rotate ==
  /\ rotations < MaxRotations /\ rotations' = rotations + 1
  /\ served' \in (SUBSET Keys) \ {{}, served}
  /\ public' = [k \in Keys |-> IF k \in served \cup served' THEN now ELSE public[k]]
  /\ UNCHANGED <<now, held, request, answer, verdict, requests>>
\* A fetch ends in its time, and what needs no network is done at once.
Tick ==
  /\ now < MaxTime /\ request.step # "verify"
  /\ answer # None => Since(answer.began) < Timeout
  /\ now' = now + 1
  /\ public' = [k \in Keys |-> IF k \in served THEN now' ELSE public[k]]
  /\ UNCHANGED <<served, held, request, answer, verdict, rotations, requests>>

Next == \/ \E k \in Keys : Request(k)
        \/ Forms \/ (\E came \in BOOLEAN : FetchEnds(came)) \/ Verify \/ Dropped
        \/ Rotate \/ Tick
Spec == Init /\ [][Next]_vars

---------------------------------------------------------------------------
TypeOK ==
  /\ now \in 0 .. MaxTime /\ request.step \in {"idle", "fetch", "verify"}
  /\ set = None <=> fetched = None
  /\ fetched # None => attempted # None /\ fetched <= now

(* A token is accepted only under a key its provider still published a day    *)
(* (and the time of one fetch) before, whichever fetches failed, were backed  *)
(* off or dropped since. (Access::principal)                                  *)
RevokedKeysStop ==
  verdict # None /\ verdict.accepted =>
    public[verdict.key] # None /\ verdict.at - public[verdict.key] < Expiry + Timeout

---------------------------------------------------------------------------
(* What makes it inductive.                                                 *)
Times == 0 .. now
Answer == [keys : (SUBSET Keys) \cup {None}, began : Times]
Requested == [key : Keys \cup {None}, step : {"idle", "fetch", "verify"}]
Given == [key : Keys, at : Times, accepted : BOOLEAN]
Shapes ==
  /\ now \in Nat /\ served \subseteq Keys /\ public \in [Keys -> Times \cup {None}]
  /\ fetched \in Times \cup {None} /\ set \in (SUBSET Keys) \cup {None}
  /\ request \in Requested /\ (request.step # "idle" => request.key \in Keys)
  /\ IF request.step = "fetch" THEN answer \in Answer ELSE answer = None
  /\ verdict \in Given \cup {None}

\* A published key was published a moment ago; one in an answer, after the fetch began,
\* which is no longer ago than a fetch takes; one in the set, when that came, or a fetch
\* earlier.
PublishedNow   == \A k \in served : public[k] = now
PublishedSince(keys, t) == \A k \in keys : public[k] # None /\ public[k] >= t
AnswerIsYoung ==
  request.step = "fetch" =>
    /\ now <= answer.began + Timeout
    /\ answer.keys # None => PublishedSince(answer.keys, answer.began)
SetIsYoung ==
  set # None => fetched # None /\ PublishedSince(set, fetched - Timeout)
KeysKept == Shapes /\ PublishedNow /\ AnswerIsYoung /\ SetIsYoung /\ RevokedKeysStop
=============================================================================
