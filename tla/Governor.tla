----------------------------- MODULE Governor -----------------------------
(***************************************************************************)
(* wfm-client's request budget: every call to warframe.market waits in one  *)
(* queue of the process, starts when its turn, the spacing and the number   *)
(* of open calls allow, and is refused under a pause or a cooldown.  send   *)
(* retries around it.  A waiting thread sleeps on one condition variable    *)
(* and must be woken by whatever lets it start.                             *)
(*                                                                          *)
(* Time is counted in ticks of the shortest spacing and kept as distances   *)
(* (since the last start, until the cooldown ends), so that it needs no     *)
(* bound; the wall clock is not set by hand.                                *)
(***************************************************************************)
EXTENDS Naturals, Sequences, FiniteSets, FiniteSetsExt, Functions

CONSTANTS
  Threads,       \* threads that call send
  Classes,       \* what they ask for: kind, background or not, with a token or not
  Policies,      \* restrictions the signed policy may bring
  Default,       \* Restrictions::default
  MaxQueue,      \* MAX_QUEUE
  MaxConcurrent, \* MAX_CONCURRENT
  Streak,        \* foreground starts before a waiting background call goes first
  ShortWait,     \* the longest cooldown a mutation waits out by itself
  MaxCooldown,   \* bound: longest cooldown, in ticks
  Expiries,      \* times after which a call is no longer wanted; Forever if none
  Forever,
  MaxThrottles, MaxFailures, MaxPolicies, MaxCrashes, MaxCancels \* bounds

Kinds  == {"Read", "Contract", "Mutation", "Authentication", "WebSocket"}
Class  == [kind : Kinds, background : BOOLEAN, token : BOOLEAN]
Pauses == {"all", "background", "Contract", "Mutation", "WebSocket"}
Restrictions == [spacing : Nat \ {0}, concurrency : 1 .. MaxConcurrent,
                 contract : Nat \ {0}, pauses : SUBSET Pauses]
Ticks == 0 .. Max({p.contract : p \in Policies \cup {Default}}
                    \cup {p.spacing : p \in Policies \cup {Default}})
Queued == {"observe", "scan", "wait"}
Open   == {"send", "body"}

ASSUME GovernorConstants ==
  /\ Classes \subseteq Class /\ Classes # {}
  /\ Policies \subseteq Restrictions /\ Default \in Restrictions
  /\ MaxQueue \in Nat \ {0} /\ MaxConcurrent \in Nat \ {0} /\ Streak \in Nat \ {0}
  /\ ShortWait \in Nat /\ MaxCooldown \in Nat \ {0} /\ Forever \notin Nat
  /\ Expiries \subseteq Nat \cup {Forever} /\ Expiries # {}

VARIABLES
  queue,             \* waiting threads, in order
  outstanding,       \* permits given out
  streak,            \* foreground_streak, up to Streak
  sinceStart,        \* ticks since last_start, saturating
  sinceContract,     \* ticks since last_contract, saturating
  restrictions,      \* those in force
  cooldown,          \* ticks until cooldown_until_ms
  persistenceFailed, \* persistence_failed
  saved,             \* the cooldown file, as ticks left
  pc, class, attempt, \* where each thread is in send, for what, and which try
  expiry, cancelled, \* its Context
  woken,             \* the wake revision differs from the one it observed
  timer,             \* ticks until its wait or sleep ends
  landed,            \* the market may have carried this send's request out
  overtaken,         \* foreground starts that passed it, ready, since a background one
  announced,         \* ticks left of the longest cooldown the market ever asked for
  writeLost,         \* a cooldown could not be saved
  throttles, failures, policies, crashes, cancels

budget == <<queue, outstanding, streak, sinceStart, sinceContract>>
limits == <<restrictions, cooldown, persistenceFailed, saved>>
call   == <<class, attempt, expiry, cancelled>>
ghosts == <<landed, overtaken, announced, writeLost>>
bounds == <<throttles, failures, policies, crashes, cancels>>
vars   == <<budget, limits, call, pc, woken, timer, ghosts, bounds>>

Least(a, b) == IF b = Forever THEN a ELSE IF a = Forever THEN b ELSE Min({a, b})
Less(n)     == IF n = Forever \/ n = 0 THEN n ELSE n - 1
Longest     == Max(Ticks)

\* Wake::notify and the observation a thread makes before it looks at the state.
\* Only a thread that has observed and not yet woken can be told anything.
Others(t)      == [u \in Threads |-> u # t /\ pc[u] \in {"scan", "wait"}]
Bug_Silent(t)  == [woken EXCEPT ![t] = FALSE]
WokenByDrop(t) == Others(t)
\* Context::expired.
Expired(t) == cancelled[t] \/ expiry[t] = 0
\* Restrictions::paused.
Paused(c) ==
  \/ "all" \in restrictions.pauses
  \/ c.background /\ "background" \in restrictions.pauses
  \/ c.kind \in restrictions.pauses
\* check_state refuses: expired, safeguards not saved, paused, or cooling down.
Refused(t) == Expired(t) \/ persistenceFailed \/ Paused(class[t]) \/ cooldown > 0
Ready(t) ==
  /\ ~Refused(t)
  /\ class[t].kind = "Contract" => sinceContract >= restrictions.contract

First(S) == queue[CHOOSE i \in 1 .. Len(queue) :
              queue[i] \in S /\ \A j \in 1 .. i - 1 : queue[j] \notin S]
Waiting(background) == {t \in Range(queue) : Ready(t) /\ class[t].background = background}
Bug_ForegroundFirst == TRUE
ForegroundFirst == streak < Streak
\* The waiting call whose turn it is.
Turn(t) ==
  LET fore == Waiting(FALSE)
      back == Waiting(TRUE)
      best == IF fore # {} /\ (ForegroundFirst \/ back = {}) THEN fore ELSE back
  IN best # {} /\ First(best) = t
MayStart(t) ==
  /\ Turn(t)
  /\ outstanding < restrictions.concurrency
  /\ sinceStart >= restrictions.spacing
\* The queue without t, which is in it once.
LeftQueue(t) ==
  LET place == CHOOSE i \in 1 .. Len(queue) : queue[i] = t
  IN [i \in 1 .. Len(queue) - 1 |-> queue[IF i < place THEN i ELSE i + 1]]

\* The wait of a thread that may not start: the spacing left, if a call could
\* be opened, and for a contract read its own spacing; at most the time the call
\* is wanted, and at most a tick if a token might be set without a notice.
Nap(t) ==
  LET gap(since, need) == IF since < need THEN need - since ELSE Forever
      spacing  == IF outstanding < restrictions.concurrency
                  THEN gap(sinceStart, restrictions.spacing) ELSE Forever
      contract == IF class[t].kind = "Contract"
                  THEN gap(sinceContract, restrictions.contract) ELSE Forever
  IN Least(Least(spacing, contract), Least(expiry[t], IF class[t].token THEN 1 ELSE Forever))

Attempts(k) == CASE k \in {"Read", "Contract"} -> 3
                 [] k = "Mutation" -> 2
                 [] OTHER -> 1
LastTry(t) == attempt[t] = Attempts(class[t].kind)

Goto(t, p) == pc' = [pc EXCEPT ![t] = p]
NoCall == [kind |-> "Read", background |-> FALSE, token |-> FALSE]
Return(t) ==
  /\ Goto(t, "idle")
  /\ class' = [class EXCEPT ![t] = NoCall]
  /\ attempt' = [attempt EXCEPT ![t] = 1]
  /\ expiry' = [expiry EXCEPT ![t] = Forever]
  /\ cancelled' = [cancelled EXCEPT ![t] = FALSE]
  /\ landed' = [landed EXCEPT ![t] = FALSE]
  /\ overtaken' = [overtaken EXCEPT ![t] = 0]
  /\ timer' = [timer EXCEPT ![t] = Forever]

Init ==
  /\ queue = <<>> /\ outstanding = 0 /\ streak = 0
  /\ sinceStart = Longest /\ sinceContract = Longest
  /\ restrictions = Default /\ cooldown = 0 /\ persistenceFailed = FALSE /\ saved = 0
  /\ pc = [t \in Threads |-> "idle"]
  /\ class = [t \in Threads |-> NoCall] /\ attempt = [t \in Threads |-> 1]
  /\ expiry = [t \in Threads |-> Forever] /\ cancelled = [t \in Threads |-> FALSE]
  /\ woken = [t \in Threads |-> FALSE] /\ timer = [t \in Threads |-> Forever]
  /\ landed = [t \in Threads |-> FALSE] /\ overtaken = [t \in Threads |-> 0]
  /\ announced = 0 /\ writeLost = FALSE
  /\ throttles = 0 /\ failures = 0 /\ policies = 0 /\ crashes = 0 /\ cancels = 0

---------------------------------------------------------------------------
\* A thread calls send.
Ask(t) ==
  /\ pc[t] = "idle"
  /\ \E c \in Classes, e \in Expiries :
       class' = [class EXCEPT ![t] = c] /\ expiry' = [expiry EXCEPT ![t] = e]
  /\ Goto(t, "enter")
  /\ UNCHANGED <<budget, limits, attempt, cancelled, woken, timer, ghosts, bounds>>

\* acquire, first section: refused, no room, or queued.
Turned(t) ==
  /\ pc[t] = "enter"
  /\ Refused(t) \/ Len(queue) >= MaxQueue
  /\ woken' = IF Refused(t) THEN woken ELSE Others(t)
  /\ Return(t)
  /\ UNCHANGED <<budget, limits, announced, writeLost, bounds>>
Enqueue(t) ==
  /\ pc[t] = "enter"
  /\ ~Refused(t) /\ Len(queue) < MaxQueue
  /\ queue' = Append(queue, t)
  /\ woken' = Others(t)
  /\ Goto(t, "observe")
  /\ UNCHANGED <<outstanding, streak, sinceStart, sinceContract, limits, call, timer, ghosts, bounds>>

\* The loop: the revision is read before the state is looked at.
Observe(t) ==
  /\ pc[t] = "observe"
  /\ woken' = [woken EXCEPT ![t] = FALSE]
  /\ Goto(t, "scan")
  /\ UNCHANGED <<budget, limits, call, timer, ghosts, bounds>>
GiveUp(t) ==
  /\ pc[t] = "scan"
  /\ Refused(t)
  /\ queue' = LeftQueue(t)
  /\ woken' = Others(t)
  /\ Return(t)
  /\ UNCHANGED <<outstanding, streak, sinceStart, sinceContract, limits, announced, writeLost, bounds>>
Start(t) ==
  /\ pc[t] = "scan"
  /\ ~Refused(t) /\ MayStart(t)
  /\ queue' = LeftQueue(t)
  /\ sinceStart' = 0
  /\ sinceContract' = IF class[t].kind = "Contract" THEN 0 ELSE sinceContract
  /\ streak' = IF class[t].background THEN 0 ELSE Min({streak + 1, Streak})
  /\ outstanding' = outstanding + 1
  /\ overtaken' = [u \in Threads |->
       IF class[t].background \/ u = t THEN 0
       ELSE IF u \in Waiting(TRUE) THEN overtaken[u] + 1 ELSE overtaken[u]]
  /\ woken' = Others(t)
  /\ Goto(t, "send")
  /\ UNCHANGED <<limits, call, timer, landed, announced, writeLost, bounds>>
Sleep(t) ==
  /\ pc[t] = "scan"
  /\ ~Refused(t) /\ ~MayStart(t)
  /\ timer' = [timer EXCEPT ![t] = Nap(t)]
  /\ Goto(t, "wait")
  /\ UNCHANGED <<budget, limits, call, woken, ghosts, bounds>>
\* Wake::wait returns at once if the revision moved since it was observed.
WakeUp(t) ==
  /\ pc[t] = "wait"
  /\ woken[t] \/ timer[t] = 0
  /\ timer' = [timer EXCEPT ![t] = Forever]
  /\ woken' = [woken EXCEPT ![t] = FALSE]
  /\ Goto(t, "observe")
  /\ UNCHANGED <<budget, limits, call, ghosts, bounds>>

\* Permit::drop.
GivenBack(n)  == n - 1
Drop(t) ==
  /\ outstanding' = GivenBack(outstanding)
  /\ woken' = WokenByDrop(t)
  /\ UNCHANGED <<queue, streak, sinceStart, sinceContract>>
\* The next attempt, after a pause with the permit given back.
Bug_RetryAll(t) == ~LastTry(t)
MayRetry(t) == class[t].kind # "Mutation" /\ ~LastTry(t)
Again(t, pause) ==
  /\ attempt' = [attempt EXCEPT ![t] = @ + 1]
  /\ timer' = [timer EXCEPT ![t] = pause]
  /\ Goto(t, "sleep")
  /\ Drop(t)
  /\ UNCHANGED <<class, expiry, cancelled, overtaken>>

\* A usable answer: the permit is held until its body has been read.
Answered(t) ==
  /\ pc[t] = "send"
  /\ landed' = [landed EXCEPT ![t] = TRUE]
  /\ Goto(t, "body")
  /\ UNCHANGED <<budget, limits, call, woken, timer, overtaken, announced, writeLost, bounds>>
CloseBody(t) ==
  /\ pc[t] = "body"
  /\ Drop(t) /\ Return(t)
  /\ UNCHANGED <<limits, announced, writeLost, bounds>>
\* A server error or no answer at all: reads are tried again, a mutation may have
\* been carried out and is reported as uncertain.  The permit goes back when the
\* attempt ends.
Failed(t) ==
  /\ pc[t] = "send"
  /\ failures < MaxFailures
  /\ failures' = failures + 1
  /\ IF MayRetry(t)
     THEN Again(t, 1) /\ landed' = [landed EXCEPT ![t] = TRUE]
     ELSE Drop(t) /\ Return(t)
  /\ UNCHANGED <<limits, announced, writeLost, throttles, policies, crashes, cancels>>

\* throttled: 429 or 509 starts a cooldown for everyone and saves it.  A mutation
\* refused by 429 waits a short one out and tries once more.
Throttled(t) ==
  /\ pc[t] = "send"
  /\ throttles < MaxThrottles
  /\ throttles' = throttles + 1
  /\ \E asked \in 1 .. MaxCooldown :
       /\ cooldown' = Max({cooldown, asked})
       /\ announced' = Max({announced, asked})
  /\ \/ saved' = cooldown' /\ UNCHANGED <<persistenceFailed, writeLost>>
     \/ saved' \in {saved, cooldown'} /\ persistenceFailed' = TRUE /\ writeLost' = TRUE
  /\ \/ /\ class[t].kind = "Mutation" /\ ~LastTry(t)
        /\ ~persistenceFailed' /\ cooldown' <= ShortWait
        /\ Again(t, cooldown') /\ UNCHANGED landed
     \/ Drop(t) /\ Return(t)
  /\ UNCHANGED <<restrictions, failures, policies, crashes, cancels>>
Resume(t) ==
  /\ pc[t] = "sleep"
  /\ timer[t] = 0
  /\ timer' = [timer EXCEPT ![t] = Forever]
  /\ Goto(t, "enter")
  /\ UNCHANGED <<budget, limits, call, woken, ghosts, bounds>>

---------------------------------------------------------------------------
\* apply_policy, a token set with or without notify_cancelled, and time.
ApplyPolicy ==
  /\ policies < MaxPolicies
  /\ policies' = policies + 1
  /\ restrictions' \in Policies
  /\ woken' = [u \in Threads |-> pc[u] \in {"scan", "wait"}]
  /\ UNCHANGED <<budget, cooldown, persistenceFailed, saved, call, pc, timer, ghosts,
                 throttles, failures, crashes, cancels>>
Cancel(t) ==
  /\ cancels < MaxCancels
  /\ pc[t] # "idle" /\ class[t].token /\ ~cancelled[t]
  /\ cancels' = cancels + 1
  /\ cancelled' = [cancelled EXCEPT ![t] = TRUE]
  /\ woken' \in {woken, [u \in Threads |-> pc[u] \in {"scan", "wait"}]}
  /\ UNCHANGED <<budget, limits, class, attempt, expiry, pc, timer, ghosts,
                 throttles, failures, policies, crashes>>
Tick ==
  /\ sinceStart' = Min({sinceStart + 1, Longest})
  /\ sinceContract' = Min({sinceContract + 1, Longest})
  /\ cooldown' = Less(cooldown) /\ saved' = Less(saved) /\ announced' = Less(announced)
  /\ expiry' = [t \in Threads |-> Less(expiry[t])]
  /\ timer' = [t \in Threads |-> Less(timer[t])]
  /\ UNCHANGED <<queue, outstanding, streak, restrictions, persistenceFailed, class, attempt,
                 cancelled, pc, woken, landed, overtaken, writeLost, bounds>>

\* The process dies and is started again: policy::start reads the cooldown file
\* (or cannot, and pauses everything) and the saved policy before any request.
Bug_ForgetCooldown == 0
Restored == saved
Restart ==
  /\ crashes < MaxCrashes
  /\ crashes' = crashes + 1
  /\ queue' = <<>> /\ outstanding' = 0 /\ streak' = 0
  /\ sinceStart' = Longest /\ sinceContract' = Longest
  /\ \/ cooldown' = Restored /\ persistenceFailed' = FALSE
     \/ cooldown' = 0 /\ persistenceFailed' = TRUE
  /\ restrictions' \in {Default} \cup Policies
  /\ pc' = [t \in Threads |-> "idle"]
  /\ class' = [t \in Threads |-> NoCall] /\ attempt' = [t \in Threads |-> 1]
  /\ expiry' = [t \in Threads |-> Forever] /\ cancelled' = [t \in Threads |-> FALSE]
  /\ woken' = [t \in Threads |-> FALSE] /\ timer' = [t \in Threads |-> Forever]
  /\ landed' = [t \in Threads |-> FALSE] /\ overtaken' = [t \in Threads |-> 0]
  /\ UNCHANGED <<saved, announced, writeLost, throttles, failures, policies, cancels>>

Acquire(t) == Turned(t) \/ Enqueue(t) \/ Observe(t) \/ GiveUp(t) \/ Start(t) \/ Sleep(t) \/ WakeUp(t)
Finish(t)  == Answered(t) \/ CloseBody(t) \/ Failed(t) \/ Throttled(t)
Send(t)    == Acquire(t) \/ Finish(t) \/ Resume(t)
Next == \/ \E t \in Threads : Ask(t) \/ Send(t) \/ Cancel(t)
        \/ ApplyPolicy \/ Tick \/ Restart
Spec == Init /\ [][Next]_vars

\* Threads run, time passes, and the client's timeouts end every open call.
Fairness == WF_vars(Tick) /\ \A t \in Threads : WF_vars(Send(t))
LiveSpec == Spec /\ Fairness

---------------------------------------------------------------------------
TypeOK ==
  /\ queue \in Seq(Threads) /\ Len(queue) <= MaxQueue
  /\ outstanding \in 0 .. MaxConcurrent /\ streak \in 0 .. Streak
  /\ sinceStart \in Ticks /\ sinceContract \in Ticks
  /\ restrictions \in Policies \cup {Default}
  /\ cooldown \in 0 .. MaxCooldown /\ saved \in 0 .. MaxCooldown
  /\ persistenceFailed \in BOOLEAN
  /\ pc \in [Threads -> {"idle", "enter", "sleep"} \cup Queued \cup Open]
  /\ class \in [Threads -> Class] /\ attempt \in [Threads -> 1 .. 3]
  /\ cancelled \in [Threads -> BOOLEAN] /\ woken \in [Threads -> BOOLEAN]

\* Every call is accounted for once.  A permit belongs to each open call and to
\* nothing else: none leaks when a call fails or is tried again, none is given back
\* twice.  The queue holds exactly the waiting calls, each once: one that gave up
\* is not left behind to be everyone's turn for ever.
CallsAccounted ==
  /\ outstanding = Cardinality({t \in Threads : pc[t] \in Open})
  /\ Range(queue) = {t \in Threads : pc[t] \in Queued}
  /\ Len(queue) = Cardinality(Range(queue))

\* "waiting background work gets a turn after four foreground starts": at most
\* Streak foreground calls start before a background call that could have.
BackgroundTurn == \A t \in Threads : overtaken[t] <= Streak

\* A mutation the market may have carried out is never sent again by send.
MutationNotRepeated ==
  \A t \in Threads : class[t].kind = "Mutation" /\ landed[t] => pc[t] = "body"

\* No call starts before the latest time the market asked us to wait for, across
\* restarts too, unless that time could not be saved.
CooldownHonoured ==
  [][\A t \in Threads : pc[t] = "scan" /\ pc'[t] = "send" => announced = 0 \/ writeLost]_vars

\* Every queued call is started or refused: no wakeup is lost, and neither the
\* spacing of contract reads nor the preference for foreground work starves it.
EveryCallLeaves == \A t \in Threads : []<>(pc[t] \notin Queued)
=============================================================================
