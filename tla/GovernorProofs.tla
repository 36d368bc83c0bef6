--------------------------- MODULE GovernorProofs ---------------------------
EXTENDS Governor, FiniteSetTheorems, SequenceTheorems, WellFoundedInduction, TLAPS

\* The functions of the threads have the right domain, and the times are numbers.
Shape ==
  /\ pc \in [Threads -> {"idle", "enter", "sleep"} \cup Queued \cup Open]
  /\ class \in [Threads -> Class]
  /\ landed \in [Threads -> BOOLEAN]
  /\ cooldown \in Nat /\ saved \in Nat /\ announced \in Nat
  /\ persistenceFailed \in BOOLEAN /\ writeLost \in BOOLEAN

\* A thread with nothing to send has nothing landed, and a mutation has landed
\* only once its answer is being read.
Untouched == \A t \in Threads :
  /\ pc[t] = "idle" => ~landed[t]
  /\ class[t].kind = "Mutation" /\ landed[t] => pc[t] = "body"

\* The cooldown in force, and the one on disk, cover what the market asked for.
Covered ==
  ~writeLost =>
    /\ announced <= saved
    /\ persistenceFailed \/ announced <= cooldown
    /\ persistenceFailed => \A t \in Threads : pc[t] # "send"

LEMMA MaxOfTwo ==
  ASSUME NEW a \in Nat, NEW b \in Nat
  PROVE  /\ Max({a, b}) \in Nat
         /\ a <= Max({a, b}) /\ b <= Max({a, b})
         /\ Max({a, b}) = a \/ Max({a, b}) = b
<1>1. \E x \in {a, b} : \A y \in {a, b} : x >= y OBVIOUS
<1>2. Max({a, b}) \in {a, b} /\ \A y \in {a, b} : Max({a, b}) >= y
  BY <1>1 DEF Max
<1> QED BY <1>2

LEMMA MinOfTwo ==
  ASSUME NEW a \in Nat, NEW b \in Nat
  PROVE  Min({a, b}) = IF a <= b THEN a ELSE b
<1>1. \E x \in {a, b} : \A y \in {a, b} : x <= y OBVIOUS
<1>2. Min({a, b}) \in {a, b} /\ \A y \in {a, b} : Min({a, b}) <= y
  BY <1>1 DEF Min
<1> QED BY <1>2

LEMMA IdleTypes ==
  /\ NoCall \in Class
  /\ [t \in Threads |-> "idle"] \in [Threads -> {"idle", "enter", "sleep"} \cup Queued \cup Open]
  /\ [t \in Threads |-> NoCall] \in [Threads -> Class]
  /\ [t \in Threads |-> FALSE] \in [Threads -> BOOLEAN]
  /\ \A f \in [Threads -> Class], t \in Threads : [f EXCEPT ![t] = NoCall] \in [Threads -> Class]
<1>1. NoCall \in Class BY DEF NoCall, Class, Kinds
<1> QED BY <1>1

LEMMA LessIsLess ==
  ASSUME NEW a \in Nat
  PROVE  Less(a) \in Nat /\ \A b \in Nat : b <= a => Less(b) <= Less(a)
BY GovernorConstants DEF Less



LEMMA ShapeStep == Shape /\ [Next]_vars => Shape'
<1> SUFFICES ASSUME Shape, [Next]_vars PROVE Shape' OBVIOUS
<1> USE GovernorConstants, MaxOfTwo, LessIsLess DEF Shape, Class, NoCall, Kinds, Queued, Open, budget, limits, call, ghosts, bounds
<1>1. ASSUME NEW t \in Threads, Ask(t) PROVE Shape'
  BY <1>1 DEF Ask, Goto
<1>2. ASSUME NEW t \in Threads, Turned(t) PROVE Shape'
  BY <1>2 DEF Turned, Return, Goto
<1>3. ASSUME NEW t \in Threads, Enqueue(t) PROVE Shape'
  BY <1>3 DEF Enqueue, Goto
<1>4. ASSUME NEW t \in Threads, Observe(t) PROVE Shape'
  BY <1>4 DEF Observe, Goto
<1>5. ASSUME NEW t \in Threads, GiveUp(t) PROVE Shape'
  BY <1>5 DEF GiveUp, Return, Goto
<1>6. ASSUME NEW t \in Threads, Start(t) PROVE Shape'
  BY <1>6 DEF Start, Goto
<1>7. ASSUME NEW t \in Threads, Sleep(t) PROVE Shape'
  BY <1>7 DEF Sleep, Goto
<1>8. ASSUME NEW t \in Threads, WakeUp(t) PROVE Shape'
  BY <1>8 DEF WakeUp, Goto
<1>9. ASSUME NEW t \in Threads, Answered(t) PROVE Shape'
  BY <1>9 DEF Answered, Goto
<1>10. ASSUME NEW t \in Threads, CloseBody(t) PROVE Shape'
  BY <1>10 DEF CloseBody, Drop, Return, Goto
<1>11. ASSUME NEW t \in Threads, Failed(t) PROVE Shape'
  <2>1. pc' \in [Threads -> {"idle", "enter", "sleep"} \cup Queued \cup Open]
    <3>1. pc' = [pc EXCEPT ![t] = "sleep"] \/ pc' = [pc EXCEPT ![t] = "idle"]
      BY <1>11 DEF Failed, Again, Return, Goto
    <3> QED BY <3>1
  <2>2. class' \in [Threads -> Class]
    <3>1. class' = class \/ class' = [class EXCEPT ![t] = NoCall] BY <1>11 DEF Failed, Again, Return
    <3>2. class \in [Threads -> Class] OBVIOUS
    <3>3. [class EXCEPT ![t] = NoCall] \in [Threads -> Class] BY <3>2, IdleTypes
    <3> QED BY <3>1, <3>2, <3>3
  <2>3. landed' \in [Threads -> BOOLEAN]
    <3>1. landed' = [landed EXCEPT ![t] = TRUE] \/ landed' = [landed EXCEPT ![t] = FALSE]
      BY <1>11 DEF Failed, Return
    <3> QED BY <3>1
  <2>4. UNCHANGED <<cooldown, saved, announced, persistenceFailed, writeLost>> BY <1>11 DEF Failed
  <2> QED BY <2>1, <2>2, <2>3, <2>4
<1>12. ASSUME NEW t \in Threads, Throttled(t) PROVE Shape'
  <2>1. pc' \in [Threads -> {"idle", "enter", "sleep"} \cup Queued \cup Open]
    <3>1. pc' = [pc EXCEPT ![t] = "sleep"] \/ pc' = [pc EXCEPT ![t] = "idle"]
      BY <1>12 DEF Throttled, Again, Return, Goto
    <3> QED BY <3>1
  <2>2. class' \in [Threads -> Class] /\ landed' \in [Threads -> BOOLEAN]
    <3>1. class' = class \/ class' = [class EXCEPT ![t] = NoCall] BY <1>12 DEF Throttled, Again, Return
    <3>2. landed' = landed \/ landed' = [landed EXCEPT ![t] = FALSE] BY <1>12 DEF Throttled, Return
    <3>3. [class EXCEPT ![t] = NoCall] \in [Threads -> Class] BY IdleTypes
    <3>4. class' \in [Threads -> Class] BY <3>1, <3>3
    <3>5. landed' \in [Threads -> BOOLEAN] BY <3>2
    <3> QED BY <3>4, <3>5
  <2>3. cooldown' \in Nat /\ saved' \in Nat /\ announced' \in Nat
    <3>1. PICK asked \in 1 .. MaxCooldown : cooldown' = Max({cooldown, asked}) /\ announced' = Max({announced, asked})
      BY <1>12 DEF Throttled
    <3>2. asked \in Nat BY <3>1
    <3>3. cooldown' \in Nat /\ announced' \in Nat BY <3>1, <3>2
    <3>4. saved' \in {saved, cooldown'} BY <1>12 DEF Throttled
    <3> QED BY <3>3, <3>4
  <2>4. persistenceFailed' \in BOOLEAN /\ writeLost' \in BOOLEAN BY <1>12 DEF Throttled
  <2> QED BY <2>1, <2>2, <2>3, <2>4
<1>13. ASSUME NEW t \in Threads, Resume(t) PROVE Shape'
  BY <1>13 DEF Resume, Goto
<1>14. ASSUME NEW t \in Threads, Cancel(t) PROVE Shape'
  BY <1>14 DEF Cancel
<1>15. ASSUME ApplyPolicy PROVE Shape'
  BY <1>15 DEF ApplyPolicy
<1>16. ASSUME Tick PROVE Shape'
  BY <1>16 DEF Tick
<1>17. ASSUME Restart PROVE Shape'
  <2>1. pc' = [t \in Threads |-> "idle"] /\ class' = [t \in Threads |-> NoCall]
        /\ landed' = [t \in Threads |-> FALSE] BY <1>17 DEF Restart
  <2>2. cooldown' \in {0, saved} /\ persistenceFailed' \in BOOLEAN BY <1>17 DEF Restart, Restored
  <2>3. UNCHANGED <<saved, announced, writeLost>> BY <1>17 DEF Restart
  <2> QED BY <2>1, <2>2, <2>3, IdleTypes
<1>18. CASE UNCHANGED vars BY <1>18 DEF vars
<1> QED BY <1>1, <1>2, <1>3, <1>4, <1>5, <1>6, <1>7, <1>8, <1>9, <1>10, <1>11, <1>12, <1>13, <1>14, <1>15, <1>16, <1>17, <1>18 DEF Next, Send, Acquire, Finish

LEMMA UntouchedStep == Shape /\ Untouched /\ [Next]_vars => Untouched'
<1> SUFFICES ASSUME Shape, Untouched, [Next]_vars PROVE Untouched' OBVIOUS
<1> USE GovernorConstants DEF Shape, Untouched, Class, NoCall, Queued, Open, budget, limits, call, ghosts, bounds
<1>1. ASSUME NEW t \in Threads, Ask(t) PROVE Untouched'
  BY <1>1 DEF Ask, Goto
<1>2. ASSUME NEW t \in Threads, Turned(t) PROVE Untouched'
  BY <1>2 DEF Turned, Return, Goto
<1>3. ASSUME NEW t \in Threads, Enqueue(t) PROVE Untouched'
  BY <1>3 DEF Enqueue, Goto
<1>4. ASSUME NEW t \in Threads, Observe(t) PROVE Untouched'
  BY <1>4 DEF Observe, Goto
<1>5. ASSUME NEW t \in Threads, GiveUp(t) PROVE Untouched'
  BY <1>5 DEF GiveUp, Return, Goto
<1>6. ASSUME NEW t \in Threads, Start(t) PROVE Untouched'
  BY <1>6 DEF Start, Goto
<1>7. ASSUME NEW t \in Threads, Sleep(t) PROVE Untouched'
  BY <1>7 DEF Sleep, Goto
<1>8. ASSUME NEW t \in Threads, WakeUp(t) PROVE Untouched'
  BY <1>8 DEF WakeUp, Goto
<1>9. ASSUME NEW t \in Threads, Answered(t) PROVE Untouched'
  BY <1>9 DEF Answered, Goto
<1>10. ASSUME NEW t \in Threads, CloseBody(t) PROVE Untouched'
  BY <1>10 DEF CloseBody, Drop, Return, Goto
<1>11. ASSUME NEW t \in Threads, Failed(t) PROVE Untouched'
  BY <1>11 DEF Failed, Again, Drop, Return, Goto, MayRetry
<1>12. ASSUME NEW t \in Threads, Throttled(t) PROVE Untouched'
  BY <1>12 DEF Throttled, Again, Drop, Return, Goto
<1>13. ASSUME NEW t \in Threads, Resume(t) PROVE Untouched'
  BY <1>13 DEF Resume, Goto
<1>14. ASSUME NEW t \in Threads, Cancel(t) PROVE Untouched'
  BY <1>14 DEF Cancel
<1>15. ASSUME ApplyPolicy PROVE Untouched'
  BY <1>15 DEF ApplyPolicy
<1>16. ASSUME Tick PROVE Untouched'
  BY <1>16 DEF Tick
<1>17. ASSUME Restart PROVE Untouched'
  BY <1>17 DEF Restart, Restored
<1>18. CASE UNCHANGED vars BY <1>18 DEF vars
<1> QED BY <1>1, <1>2, <1>3, <1>4, <1>5, <1>6, <1>7, <1>8, <1>9, <1>10, <1>11, <1>12, <1>13, <1>14, <1>15, <1>16, <1>17, <1>18 DEF Next, Send, Acquire, Finish

LEMMA CoveredStep == Shape /\ Covered /\ [Next]_vars => Covered'
<1> SUFFICES ASSUME Shape, Covered, [Next]_vars PROVE Covered' OBVIOUS
<1> USE GovernorConstants, MaxOfTwo, LessIsLess DEF Shape, Covered, Refused, Queued, Open, budget, limits, call, ghosts, bounds
<1>1. ASSUME NEW t \in Threads, Ask(t) PROVE Covered'
  BY <1>1 DEF Ask, Goto
<1>2. ASSUME NEW t \in Threads, Turned(t) PROVE Covered'
  BY <1>2 DEF Turned, Return, Goto
<1>3. ASSUME NEW t \in Threads, Enqueue(t) PROVE Covered'
  BY <1>3 DEF Enqueue, Goto
<1>4. ASSUME NEW t \in Threads, Observe(t) PROVE Covered'
  BY <1>4 DEF Observe, Goto
<1>5. ASSUME NEW t \in Threads, GiveUp(t) PROVE Covered'
  BY <1>5 DEF GiveUp, Return, Goto
<1>6. ASSUME NEW t \in Threads, Start(t) PROVE Covered'
  BY <1>6 DEF Start, Goto
<1>7. ASSUME NEW t \in Threads, Sleep(t) PROVE Covered'
  BY <1>7 DEF Sleep, Goto
<1>8. ASSUME NEW t \in Threads, WakeUp(t) PROVE Covered'
  BY <1>8 DEF WakeUp, Goto
<1>9. ASSUME NEW t \in Threads, Answered(t) PROVE Covered'
  BY <1>9 DEF Answered, Goto
<1>10. ASSUME NEW t \in Threads, CloseBody(t) PROVE Covered'
  BY <1>10 DEF CloseBody, Drop, Return, Goto
<1>11. ASSUME NEW t \in Threads, Failed(t) PROVE Covered'
  BY <1>11 DEF Failed, Again, Drop, Return, Goto, MayRetry
<1>12. ASSUME NEW t \in Threads, Throttled(t) PROVE Covered'
  <2> SUFFICES ASSUME ~writeLost' PROVE /\ announced' <= saved' /\ announced' <= cooldown'
                                          /\ ~persistenceFailed'
    BY DEF Covered
  <2>1. PICK asked \in 1 .. MaxCooldown : cooldown' = Max({cooldown, asked}) /\ announced' = Max({announced, asked})
    BY <1>12 DEF Throttled
  <2>2. saved' = cooldown' /\ persistenceFailed' = persistenceFailed /\ ~writeLost BY <1>12 DEF Throttled
  <2>3. pc[t] = "send" BY <1>12 DEF Throttled
  <2>4. ~persistenceFailed /\ announced <= cooldown BY <2>2, <2>3
  <2>5. asked \in Nat BY <2>1
  <2>6. announced' <= cooldown'
    <3>1. cooldown <= cooldown' /\ asked <= cooldown' /\ cooldown' \in Nat BY <2>1, <2>5
    <3>2. announced' \in {announced, asked} BY <2>1, <2>5
    <3> QED BY <2>4, <2>5, <3>1, <3>2
  <2> QED BY <2>2, <2>4, <2>6
<1>13. ASSUME NEW t \in Threads, Resume(t) PROVE Covered'
  BY <1>13 DEF Resume, Goto
<1>14. ASSUME NEW t \in Threads, Cancel(t) PROVE Covered'
  BY <1>14 DEF Cancel
<1>15. ASSUME ApplyPolicy PROVE Covered'
  BY <1>15 DEF ApplyPolicy
<1>16. ASSUME Tick PROVE Covered'
  BY <1>16 DEF Tick
<1>17. ASSUME Restart PROVE Covered'
  BY <1>17 DEF Restart, Restored
<1>18. CASE UNCHANGED vars BY <1>18 DEF vars
<1> QED BY <1>1, <1>2, <1>3, <1>4, <1>5, <1>6, <1>7, <1>8, <1>9, <1>10, <1>11, <1>12, <1>13, <1>14, <1>15, <1>16, <1>17, <1>18 DEF Next, Send, Acquire, Finish

Kept == Shape /\ Untouched /\ Covered

LEMMA InitKept == Init => Kept
<1> SUFFICES ASSUME Init PROVE Kept OBVIOUS
<1>1. Shape
  <2>1. pc = [t \in Threads |-> "idle"] /\ class = [t \in Threads |-> NoCall]
        /\ landed = [t \in Threads |-> FALSE] BY DEF Init
  <2>2. cooldown = 0 /\ saved = 0 /\ announced = 0 /\ persistenceFailed = FALSE /\ writeLost = FALSE
    BY DEF Init
  <2> QED BY <2>1, <2>2, IdleTypes DEF Shape
<1>2. Untouched BY DEF Init, Untouched
<1>3. Covered BY DEF Init, Covered
<1> QED BY <1>1, <1>2, <1>3 DEF Kept

LEMMA AlwaysKept == Spec => []Kept
<1>1. Kept /\ [Next]_vars => Kept' BY ShapeStep, UntouchedStep, CoveredStep DEF Kept
<1> QED BY InitKept, <1>1, PTL DEF Spec

LEMMA KeptOnce == Kept => MutationNotRepeated
BY DEF Kept, Untouched, MutationNotRepeated

\* For any threads, kinds of call and number of failures and restarts: send never
\* sends a mutation again that the market may have carried out.
THEOREM MutationSentOnce == Spec => []MutationNotRepeated
BY AlwaysKept, KeptOnce, PTL


\* A call that starts does so after every deadline that could be saved.
StartsLate == \A t \in Threads : pc[t] = "scan" /\ pc'[t] = "send" => announced = 0 \/ writeLost

LEMMA StartStep == Shape /\ Covered /\ [Next]_vars => [StartsLate]_vars
<1> SUFFICES ASSUME Shape, Covered, [Next]_vars PROVE [StartsLate]_vars OBVIOUS
<1> USE GovernorConstants DEF StartsLate, Shape, Queued, Open, budget, limits, call, ghosts, bounds
<1>1. ASSUME NEW t \in Threads, Ask(t) PROVE StartsLate
  BY <1>1 DEF Ask, Goto
<1>2. ASSUME NEW t \in Threads, Turned(t) PROVE StartsLate
  BY <1>2 DEF Turned, Return, Goto
<1>3. ASSUME NEW t \in Threads, Enqueue(t) PROVE StartsLate
  BY <1>3 DEF Enqueue, Goto
<1>4. ASSUME NEW t \in Threads, Observe(t) PROVE StartsLate
  BY <1>4 DEF Observe, Goto
<1>5. ASSUME NEW t \in Threads, GiveUp(t) PROVE StartsLate
  BY <1>5 DEF GiveUp, Return, Goto
<1>6. ASSUME NEW t \in Threads, Start(t) PROVE StartsLate
  BY <1>6 DEF Start, Covered, Refused, Goto
<1>7. ASSUME NEW t \in Threads, Sleep(t) PROVE StartsLate
  BY <1>7 DEF Sleep, Goto
<1>8. ASSUME NEW t \in Threads, WakeUp(t) PROVE StartsLate
  BY <1>8 DEF WakeUp, Goto
<1>9. ASSUME NEW t \in Threads, Answered(t) PROVE StartsLate
  BY <1>9 DEF Answered, Goto
<1>10. ASSUME NEW t \in Threads, CloseBody(t) PROVE StartsLate
  BY <1>10 DEF CloseBody, Drop, Return, Goto
<1>11. ASSUME NEW t \in Threads, Failed(t) PROVE StartsLate
  BY <1>11 DEF Failed, Again, Drop, Return, Goto, MayRetry
<1>12. ASSUME NEW t \in Threads, Throttled(t) PROVE StartsLate
  BY <1>12 DEF Throttled, Again, Drop, Return, Goto
<1>13. ASSUME NEW t \in Threads, Resume(t) PROVE StartsLate
  BY <1>13 DEF Resume, Goto
<1>14. ASSUME NEW t \in Threads, Cancel(t) PROVE StartsLate
  BY <1>14 DEF Cancel
<1>15. ASSUME ApplyPolicy PROVE StartsLate
  BY <1>15 DEF ApplyPolicy
<1>16. ASSUME Tick PROVE StartsLate
  BY <1>16 DEF Tick
<1>17. ASSUME Restart PROVE StartsLate
  BY <1>17 DEF Restart, Restored
<1>18. CASE UNCHANGED vars BY <1>18 DEF vars
<1> QED BY <1>1, <1>2, <1>3, <1>4, <1>5, <1>6, <1>7, <1>8, <1>9, <1>10, <1>11, <1>12, <1>13, <1>14, <1>15, <1>16, <1>17, <1>18 DEF Next, Send, Acquire, Finish

\* No call is started before the latest deadline the market announced, restarts
\* included, unless that deadline could not be saved.
THEOREM CooldownAlwaysHonoured == Spec => CooldownHonoured
<1>1. Kept /\ [Next]_vars => [StartsLate]_vars BY StartStep DEF Kept
<1> QED BY AlwaysKept, <1>1, PTL DEF Spec, CooldownHonoured, StartsLate

---------------------------------------------------------------------------
(* Who waits and who holds a permit.                                       *)

\* The queue holds each waiting thread once, and nobody else.
Lined ==
  /\ queue \in Seq(Threads)
  /\ \A i, j \in 1 .. Len(queue) : queue[i] = queue[j] => i = j
  /\ \A t \in Threads : pc[t] \in Queued <=> \E i \in 1 .. Len(queue) : queue[i] = t

OpenCalls == {t \in Threads : pc[t] \in Open}
Permits == IsFiniteSet(OpenCalls) /\ outstanding = Cardinality(OpenCalls)

\* Taking a thread out of the queue takes out nobody else, and keeps the order.
LEMMA QueueWithout ==
  ASSUME Lined, NEW t \in Threads, pc[t] \in Queued
  PROVE  /\ LeftQueue(t) \in Seq(Threads)
         /\ \A i, j \in 1 .. Len(LeftQueue(t)) : LeftQueue(t)[i] = LeftQueue(t)[j] => i = j
         /\ \A u \in Threads : (\E i \in 1 .. Len(LeftQueue(t)) : LeftQueue(t)[i] = u) <=>
              u # t /\ \E i \in 1 .. Len(queue) : queue[i] = u
<1> DEFINE n == Len(queue)
           place == CHOOSE i \in 1 .. Len(queue) : queue[i] = t
           left == [i \in 1 .. n - 1 |-> queue[IF i < place THEN i ELSE i + 1]]
<1>1. n \in Nat /\ \A i \in 1 .. n : queue[i] \in Threads BY DEF Lined
<1>2. place \in 1 .. n /\ queue[place] = t BY DEF Lined
<1>3. LeftQueue(t) = left BY DEF LeftQueue
<1> HIDE DEF place
<1>4. n - 1 \in Nat /\ \A i \in 1 .. n - 1 : i \in 1 .. n /\ i + 1 \in 1 .. n BY <1>1, <1>2
<1>5. \A i \in 1 .. n - 1 : left[i] = queue[IF i < place THEN i ELSE i + 1] /\ left[i] \in Threads
  BY <1>1, <1>4
<1>6. left \in Seq(Threads) /\ Len(left) = n - 1
  <2>1. left \in [1 .. n - 1 -> Threads] BY <1>5
  <2> QED BY <2>1, <1>4
<1>7. \A i, j \in 1 .. n - 1 : left[i] = left[j] => i = j
  <2> SUFFICES ASSUME NEW i \in 1 .. n - 1, NEW j \in 1 .. n - 1, left[i] = left[j] PROVE i = j OBVIOUS
  <2>1. (IF i < place THEN i ELSE i + 1) = (IF j < place THEN j ELSE j + 1)
    BY <1>4, <1>5 DEF Lined
  <2> QED BY <2>1, <1>1, <1>2
<1>8. ASSUME NEW u \in Threads
      PROVE (\E i \in 1 .. n - 1 : left[i] = u) <=> u # t /\ \E i \in 1 .. n : queue[i] = u
  <2>1. ASSUME NEW i \in 1 .. n - 1, left[i] = u PROVE u # t /\ \E k \in 1 .. n : queue[k] = u
    <3>1. (IF i < place THEN i ELSE i + 1) \in 1 .. n /\ (IF i < place THEN i ELSE i + 1) # place
      BY <1>1, <1>2, <1>4
    <3> QED BY <3>1, <1>2, <1>5, <2>1 DEF Lined
  <2>2. ASSUME u # t, NEW k \in 1 .. n, queue[k] = u PROVE \E i \in 1 .. n - 1 : left[i] = u
    <3>1. k # place BY <1>2, <2>2
    <3>2. CASE k < place
      <4>1. k \in 1 .. n - 1 BY <1>1, <1>2, <3>2
      <4> QED BY <1>5, <2>2, <3>2, <4>1
    <3>3. CASE k > place
      <4>1. k - 1 \in 1 .. n - 1 /\ ~(k - 1 < place) /\ (k - 1) + 1 = k BY <1>1, <1>2, <3>3
      <4>2. left[k - 1] = queue[(k - 1) + 1] BY <1>5, <4>1
      <4> QED BY <2>2, <4>1, <4>2
    <3> QED BY <1>1, <1>2, <3>1, <3>2, <3>3
  <2> QED BY <2>1, <2>2
<1> HIDE DEF left
<1> QED BY <1>3, <1>6, <1>7, <1>8

\* A step of one thread that neither queues it, opens its call nor undoes either.
LEMMA SameStanding ==
  ASSUME Shape, NEW t \in Threads, NEW p, pc' = [pc EXCEPT ![t] = p],
         p \in Queued <=> pc[t] \in Queued, p \in Open <=> pc[t] \in Open
  PROVE  /\ Lined /\ queue' = queue => Lined'
         /\ Permits /\ outstanding' = outstanding => Permits'
<1>1. \A u \in Threads : /\ pc'[u] \in Queued <=> pc[u] \in Queued
                         /\ pc'[u] \in Open <=> pc[u] \in Open
  BY DEF Shape
<1>2. OpenCalls' = OpenCalls BY <1>1 DEF OpenCalls
<1> QED BY <1>1, <1>2 DEF Lined, Permits

\* A thread that leaves the queue.
LEMMA Leaves ==
  ASSUME Shape, Lined, NEW t \in Threads, NEW p, pc[t] \in Queued, pc' = [pc EXCEPT ![t] = p],
         p \notin Queued, queue' = LeftQueue(t)
  PROVE  Lined'
<1>1. \A u \in Threads : pc'[u] = IF u = t THEN p ELSE pc[u] BY DEF Shape
<1>2. /\ queue' \in Seq(Threads)
      /\ \A i, j \in 1 .. Len(queue') : queue'[i] = queue'[j] => i = j
      /\ \A u \in Threads : (\E i \in 1 .. Len(queue') : queue'[i] = u) <=>
           u # t /\ \E i \in 1 .. Len(queue) : queue[i] = u
  BY QueueWithout
<1>3. \A u \in Threads : pc'[u] \in Queued <=> u # t /\ pc[u] \in Queued BY <1>1
<1>4. \A u \in Threads : pc'[u] \in Queued <=> \E i \in 1 .. Len(queue') : queue'[i] = u
  BY <1>2, <1>3 DEF Lined
<1> QED BY <1>2, <1>4 DEF Lined

\* A permit given back.
LEMMA GivesBack ==
  ASSUME Shape, Lined, Permits, NEW t \in Threads, NEW p, pc[t] \in Open,
         pc' = [pc EXCEPT ![t] = p], p \notin Queued \cup Open,
         queue' = queue, outstanding' = outstanding - 1
  PROVE  Lined' /\ Permits'
<1>1. \A u \in Threads : pc'[u] = IF u = t THEN p ELSE pc[u] BY DEF Shape
<1>2. pc[t] \notin Queued BY DEF Open, Queued
<1>3. Lined' BY <1>1, <1>2 DEF Lined
<1>4. OpenCalls' = OpenCalls \ {t} /\ t \in OpenCalls BY <1>1 DEF OpenCalls
<1>5. IsFiniteSet(OpenCalls') /\ Cardinality(OpenCalls') = Cardinality(OpenCalls) - 1
  BY <1>4, FS_RemoveElement DEF Permits
<1> QED BY <1>3, <1>5 DEF Permits

LEMMA AccountedStep == Shape /\ Lined /\ Permits /\ [Next]_vars => Lined' /\ Permits'
<1> SUFFICES ASSUME Shape, Lined, Permits, [Next]_vars PROVE Lined' /\ Permits' OBVIOUS
<1> USE DEF budget, limits, call, ghosts, bounds
<1>1. ASSUME NEW t \in Threads, Ask(t) PROVE Lined' /\ Permits'
  <2>1. /\ pc' = [pc EXCEPT ![t] = "enter"] /\ queue' = queue /\ outstanding' = outstanding
        /\ "enter" \in Queued <=> pc[t] \in Queued
        /\ "enter" \in Open <=> pc[t] \in Open
    BY <1>1 DEF Ask, Goto, Queued, Open
  <2> QED BY <2>1, SameStanding
<1>2. ASSUME NEW t \in Threads, Turned(t) PROVE Lined' /\ Permits'
  <2>1. /\ pc' = [pc EXCEPT ![t] = "idle"] /\ queue' = queue /\ outstanding' = outstanding
        /\ "idle" \in Queued <=> pc[t] \in Queued
        /\ "idle" \in Open <=> pc[t] \in Open
    BY <1>2 DEF Turned, Return, Goto, Queued, Open
  <2> QED BY <2>1, SameStanding
<1>3. ASSUME NEW t \in Threads, Enqueue(t) PROVE Lined' /\ Permits'
  <2>1. /\ pc[t] = "enter" /\ pc' = [pc EXCEPT ![t] = "observe"]
        /\ queue' = Append(queue, t) /\ outstanding' = outstanding
    BY <1>3 DEF Enqueue, Goto
  <2>2. \A u \in Threads : pc'[u] = IF u = t THEN "observe" ELSE pc[u] BY <2>1 DEF Shape
  <2>3. OpenCalls' = OpenCalls BY <2>1, <2>2 DEF OpenCalls, Open
  <2>4. /\ queue' \in Seq(Threads) /\ Len(queue') = Len(queue) + 1 /\ Len(queue) \in Nat
        /\ \A i \in 1 .. Len(queue') : queue'[i] = IF i = Len(queue) + 1 THEN t ELSE queue[i]
        /\ \A i \in 1 .. Len(queue') : i # Len(queue) + 1 => i \in 1 .. Len(queue)
    BY <2>1 DEF Lined
  <2>5. \A i \in 1 .. Len(queue) : queue[i] # t BY <2>1 DEF Lined, Queued
  <2>6. \A i, j \in 1 .. Len(queue') : queue'[i] = queue'[j] => i = j BY <2>4, <2>5 DEF Lined
  <2>7. \A u \in Threads : (\E i \in 1 .. Len(queue') : queue'[i] = u) <=>
          u = t \/ \E i \in 1 .. Len(queue) : queue[i] = u
    BY <2>4
  <2> QED BY <2>2, <2>3, <2>1, <2>4, <2>6, <2>7 DEF Lined, Permits, Queued
<1>4. ASSUME NEW t \in Threads, Observe(t) PROVE Lined' /\ Permits'
  <2>1. /\ pc' = [pc EXCEPT ![t] = "scan"] /\ queue' = queue /\ outstanding' = outstanding
        /\ "scan" \in Queued <=> pc[t] \in Queued
        /\ "scan" \in Open <=> pc[t] \in Open
    BY <1>4 DEF Observe, Goto, Queued, Open
  <2> QED BY <2>1, SameStanding
<1>5. ASSUME NEW t \in Threads, GiveUp(t) PROVE Lined' /\ Permits'
  <2>1. pc[t] = "scan" /\ pc' = [pc EXCEPT ![t] = "idle"] /\ queue' = LeftQueue(t) /\ outstanding' = outstanding
    BY <1>5 DEF GiveUp, Return, Goto
  <2>2. pc[t] \in Queued /\ "idle" \notin Queued BY <2>1 DEF Queued
  <2>3. Lined' BY <2>1, <2>2, Leaves
  <2>4. OpenCalls' = OpenCalls BY <2>1 DEF OpenCalls, Open, Shape
  <2> QED BY <2>1, <2>3, <2>4 DEF Permits
<1>6. ASSUME NEW t \in Threads, Start(t) PROVE Lined' /\ Permits'
  <2>1. /\ pc[t] = "scan" /\ pc' = [pc EXCEPT ![t] = "send"]
        /\ queue' = LeftQueue(t) /\ outstanding' = outstanding + 1
    BY <1>6 DEF Start, Goto
  <2>2. pc[t] \in Queued /\ "send" \notin Queued BY <2>1 DEF Queued
  <2>3. Lined' BY <2>1, <2>2, Leaves
  <2>4. OpenCalls' = OpenCalls \cup {t} /\ t \notin OpenCalls BY <2>1 DEF OpenCalls, Open, Shape
  <2>5. IsFiniteSet(OpenCalls') /\ Cardinality(OpenCalls') = Cardinality(OpenCalls) + 1
    BY <2>4, FS_AddElement DEF Permits
  <2> QED BY <2>1, <2>3, <2>5 DEF Permits
<1>7. ASSUME NEW t \in Threads, Sleep(t) PROVE Lined' /\ Permits'
  <2>1. /\ pc' = [pc EXCEPT ![t] = "wait"] /\ queue' = queue /\ outstanding' = outstanding
        /\ "wait" \in Queued <=> pc[t] \in Queued
        /\ "wait" \in Open <=> pc[t] \in Open
    BY <1>7 DEF Sleep, Goto, Queued, Open
  <2> QED BY <2>1, SameStanding
<1>8. ASSUME NEW t \in Threads, WakeUp(t) PROVE Lined' /\ Permits'
  <2>1. /\ pc' = [pc EXCEPT ![t] = "observe"] /\ queue' = queue /\ outstanding' = outstanding
        /\ "observe" \in Queued <=> pc[t] \in Queued
        /\ "observe" \in Open <=> pc[t] \in Open
    BY <1>8 DEF WakeUp, Goto, Queued, Open
  <2> QED BY <2>1, SameStanding
<1>9. ASSUME NEW t \in Threads, Answered(t) PROVE Lined' /\ Permits'
  <2>1. /\ pc' = [pc EXCEPT ![t] = "body"] /\ queue' = queue /\ outstanding' = outstanding
        /\ "body" \in Queued <=> pc[t] \in Queued
        /\ "body" \in Open <=> pc[t] \in Open
    BY <1>9 DEF Answered, Goto, Queued, Open
  <2> QED BY <2>1, SameStanding
<1>10. ASSUME NEW t \in Threads, CloseBody(t) PROVE Lined' /\ Permits'
  <2>1. /\ pc[t] \in Open /\ pc' = [pc EXCEPT ![t] = "idle"] /\ "idle" \notin Queued \cup Open
        /\ queue' = queue /\ outstanding' = outstanding - 1
    BY <1>10 DEF CloseBody, Return, Goto, Drop, GivenBack, Open, Queued
  <2> QED BY <2>1, GivesBack
<1>11. ASSUME NEW t \in Threads, Failed(t) PROVE Lined' /\ Permits'
  <2>1. PICK p \in {"idle", "sleep"} : pc' = [pc EXCEPT ![t] = p]
    BY <1>11 DEF Failed, Again, Return, Goto
  <2>2. pc[t] \in Open /\ p \notin Queued \cup Open BY <1>11, <2>1 DEF Failed, Open, Queued
  <2>3. queue' = queue /\ outstanding' = outstanding - 1 BY <1>11 DEF Failed, Again, Drop, GivenBack
  <2> QED BY <2>1, <2>2, <2>3, GivesBack
<1>12. ASSUME NEW t \in Threads, Throttled(t) PROVE Lined' /\ Permits'
  <2>1. PICK p \in {"idle", "sleep"} : pc' = [pc EXCEPT ![t] = p]
    BY <1>12 DEF Throttled, Again, Return, Goto
  <2>2. pc[t] \in Open /\ p \notin Queued \cup Open BY <1>12, <2>1 DEF Throttled, Open, Queued
  <2>3. queue' = queue /\ outstanding' = outstanding - 1 BY <1>12 DEF Throttled, Again, Drop, GivenBack
  <2> QED BY <2>1, <2>2, <2>3, GivesBack
<1>13. ASSUME NEW t \in Threads, Resume(t) PROVE Lined' /\ Permits'
  <2>1. /\ pc' = [pc EXCEPT ![t] = "enter"] /\ queue' = queue /\ outstanding' = outstanding
        /\ "enter" \in Queued <=> pc[t] \in Queued
        /\ "enter" \in Open <=> pc[t] \in Open
    BY <1>13 DEF Resume, Goto, Queued, Open
  <2> QED BY <2>1, SameStanding
<1>14. ASSUME NEW t \in Threads, Cancel(t) PROVE Lined' /\ Permits'
  BY <1>14 DEF Cancel, Lined, Permits, OpenCalls
<1>15. ASSUME ApplyPolicy PROVE Lined' /\ Permits'
  BY <1>15 DEF ApplyPolicy, Lined, Permits, OpenCalls
<1>16. ASSUME Tick PROVE Lined' /\ Permits'
  BY <1>16 DEF Tick, Lined, Permits, OpenCalls
<1>17. ASSUME Restart PROVE Lined' /\ Permits'
  <2>1. queue' = <<>> /\ outstanding' = 0 /\ \A u \in Threads : pc'[u] = "idle" BY <1>17 DEF Restart
  <2>2. OpenCalls' = {} BY <2>1 DEF OpenCalls, Open
  <2> QED BY <2>1, <2>2, FS_EmptySet DEF Lined, Permits, Queued
<1>18. CASE UNCHANGED vars BY <1>18 DEF vars, Lined, Permits, OpenCalls
<1> QED BY <1>1, <1>2, <1>3, <1>4, <1>5, <1>6, <1>7, <1>8, <1>9, <1>10, <1>11, <1>12, <1>13, <1>14, <1>15, <1>16, <1>17, <1>18 DEF Next, Send, Acquire, Finish

LEMMA InitAccounted == Init => Lined /\ Permits
<1> SUFFICES ASSUME Init PROVE Lined /\ Permits OBVIOUS
<1>1. queue = <<>> /\ outstanding = 0 /\ \A u \in Threads : pc[u] = "idle" BY DEF Init
<1>2. OpenCalls = {} BY <1>1 DEF OpenCalls, Open
<1> QED BY <1>1, <1>2, FS_EmptySet DEF Lined, Permits, Queued

LEMMA AlwaysAccounted == Spec => [](Shape /\ Lined /\ Permits)
<1>1. Init => Shape /\ Lined /\ Permits BY InitKept, InitAccounted DEF Kept
<1>2. Shape /\ Lined /\ Permits /\ [Next]_vars => (Shape /\ Lined /\ Permits)'
  BY ShapeStep, AccountedStep
<1> QED BY <1>1, <1>2, PTL DEF Spec

LEMMA AccountedOnce == Lined /\ Permits => CallsAccounted
<1> SUFFICES ASSUME Lined, Permits PROVE CallsAccounted OBVIOUS
<1>1. queue \in Seq(Threads) /\ Len(queue) \in Nat /\ DOMAIN queue = 1 .. Len(queue) BY DEF Lined
<1>2. Range(queue) = {t \in Threads : pc[t] \in Queued} BY <1>1 DEF Lined, Range
<1>3. Len(queue) = Cardinality(Range(queue))
  <2>1. queue \in Bijection(1 .. Len(queue), Range(queue))
    BY <1>1 DEF Lined, Range, Bijection, Injection, Surjection, IsInjective
  <2>2. IsFiniteSet(1 .. Len(queue)) /\ Cardinality(1 .. Len(queue)) = Len(queue)
    BY <1>1, FS_Interval
  <2> QED BY <2>1, <2>2, FS_Bijection DEF ExistsBijection
<1> QED BY <1>2, <1>3 DEF CallsAccounted, Permits, OpenCalls

\* Every permit belongs to an open call and every place in the queue to a waiting
\* one: none leaks, none is given back twice, whatever fails or is tried again.
THEOREM EveryCallAccounted == Spec => []CallsAccounted
BY AlwaysAccounted, AccountedOnce, PTL

---------------------------------------------------------------------------
(* Background work gets its turn.                                          *)

Paced ==
  /\ streak \in 0 .. Streak
  /\ overtaken \in [Threads -> Nat]
  /\ \A t \in Threads : overtaken[t] <= streak

\* The first of some waiting calls is one of them.
LEMMA FirstIsOneOf ==
  ASSUME Lined, NEW S, S # {}, S \subseteq Range(queue)
  PROVE  First(S) \in S
<1> DEFINE At == {i \in 1 .. Len(queue) : queue[i] \in S}
<1>1. Len(queue) \in Nat /\ DOMAIN queue = 1 .. Len(queue) BY DEF Lined
<1>2. At # {} /\ At \subseteq Nat BY <1>1 DEF Range
<1>3. PICK i \in At : \A j \in At : ~(<<j, i>> \in OpToRel(<, Nat))
  BY <1>2, WFMin, NatLessThanWellFounded
<1>4. \A j \in At : ~(j < i) BY <1>2, <1>3 DEF OpToRel
<1>5. \A j \in 1 .. i - 1 : queue[j] \notin S
  <2> SUFFICES ASSUME NEW j \in 1 .. i - 1, queue[j] \in S PROVE FALSE OBVIOUS
  <2>1. j \in 1 .. Len(queue) /\ j < i BY <1>1
  <2> QED BY <1>4, <2>1
<1>6. \E k \in 1 .. Len(queue) : queue[k] \in S /\ \A j \in 1 .. k - 1 : queue[j] \notin S
  BY <1>5
<1> QED BY <1>6 DEF First

\* A foreground call goes before a background one that could start only while
\* fewer than Streak have done so.
LEMMA ForegroundYields ==
  ASSUME Lined, NEW t \in Threads, Turn(t), ~class[t].background, Waiting(TRUE) # {}
  PROVE  streak < Streak
<1> DEFINE best == IF Waiting(FALSE) # {} /\ (ForegroundFirst \/ Waiting(TRUE) = {})
                   THEN Waiting(FALSE) ELSE Waiting(TRUE)
<1>1. best # {} /\ First(best) = t BY DEF Turn
<1>2. best \subseteq Range(queue) BY DEF Waiting
<1>3. t \in best BY <1>1, <1>2, FirstIsOneOf
<1>4. t \notin Waiting(TRUE) BY DEF Waiting
<1>5. best # Waiting(TRUE) BY <1>3, <1>4
<1> QED BY <1>5 DEF ForegroundFirst

LEMMA PacedStep == Shape /\ Lined /\ Paced /\ [Next]_vars => Paced'
<1> SUFFICES ASSUME Shape, Lined, Paced, [Next]_vars PROVE Paced' OBVIOUS
<1> USE GovernorConstants DEF Paced, budget, limits, call, ghosts, bounds
<1>1. ASSUME NEW t \in Threads, Ask(t) PROVE Paced'
  BY <1>1 DEF Ask
<1>2. ASSUME NEW t \in Threads, Turned(t) PROVE Paced'
  BY <1>2 DEF Turned, Return
<1>3. ASSUME NEW t \in Threads, Enqueue(t) PROVE Paced'
  BY <1>3 DEF Enqueue
<1>4. ASSUME NEW t \in Threads, Observe(t) PROVE Paced'
  BY <1>4 DEF Observe
<1>5. ASSUME NEW t \in Threads, GiveUp(t) PROVE Paced'
  BY <1>5 DEF GiveUp, Return
<1>6. ASSUME NEW t \in Threads, Start(t) PROVE Paced'
  <2>1. CASE class[t].background BY <1>6, <2>1 DEF Start
  <2>2. CASE ~class[t].background
    <3>1. /\ streak' = Min({streak + 1, Streak})
          /\ overtaken' = [u \in Threads |-> IF u = t THEN 0
               ELSE IF u \in Waiting(TRUE) THEN overtaken[u] + 1 ELSE overtaken[u]]
      BY <1>6, <2>2 DEF Start
    <3>2. streak' \in 0 .. Streak /\ streak <= streak' /\ (streak < Streak => streak' = streak + 1)
      BY <3>1, MinOfTwo
    <3>3. Waiting(TRUE) # {} => streak < Streak BY <1>6, <2>2, ForegroundYields DEF Start, MayStart
    <3>4. ASSUME NEW u \in Threads PROVE overtaken'[u] \in Nat /\ overtaken'[u] <= streak'
      <4>1. overtaken[u] \in Nat /\ overtaken[u] <= streak /\ streak \in Nat /\ streak' \in Nat
        BY <3>2
      <4>2. CASE u = t BY <3>1, <3>2, <4>2
      <4>3. CASE u # t /\ u \in Waiting(TRUE)
        <5>1. streak' = streak + 1 /\ overtaken'[u] = overtaken[u] + 1 BY <3>1, <3>2, <3>3, <4>3
        <5> QED BY <4>1, <5>1
      <4>4. CASE u # t /\ u \notin Waiting(TRUE)
        <5>1. overtaken'[u] = overtaken[u] BY <3>1, <4>4
        <5> QED BY <3>2, <4>1, <5>1
      <4> QED BY <4>2, <4>3, <4>4
    <3> QED BY <3>1, <3>2, <3>4
  <2> QED BY <2>1, <2>2
<1>7. ASSUME NEW t \in Threads, Sleep(t) PROVE Paced'
  BY <1>7 DEF Sleep
<1>8. ASSUME NEW t \in Threads, WakeUp(t) PROVE Paced'
  BY <1>8 DEF WakeUp
<1>9. ASSUME NEW t \in Threads, Answered(t) PROVE Paced'
  BY <1>9 DEF Answered
<1>10. ASSUME NEW t \in Threads, CloseBody(t) PROVE Paced'
  BY <1>10 DEF CloseBody, Drop, Return
<1>11. ASSUME NEW t \in Threads, Failed(t) PROVE Paced'
  BY <1>11 DEF Failed, Again, Drop, Return
<1>12. ASSUME NEW t \in Threads, Throttled(t) PROVE Paced'
  BY <1>12 DEF Throttled, Again, Drop, Return
<1>13. ASSUME NEW t \in Threads, Resume(t) PROVE Paced'
  BY <1>13 DEF Resume
<1>14. ASSUME NEW t \in Threads, Cancel(t) PROVE Paced'
  BY <1>14 DEF Cancel
<1>15. ASSUME ApplyPolicy PROVE Paced'
  BY <1>15 DEF ApplyPolicy
<1>16. ASSUME Tick PROVE Paced'
  BY <1>16 DEF Tick
<1>17. ASSUME Restart PROVE Paced'
  BY <1>17 DEF Restart
<1>18. CASE UNCHANGED vars BY <1>18 DEF vars
<1> QED BY <1>1, <1>2, <1>3, <1>4, <1>5, <1>6, <1>7, <1>8, <1>9, <1>10, <1>11, <1>12, <1>13, <1>14, <1>15, <1>16, <1>17, <1>18 DEF Next, Send, Acquire, Finish

\* For any threads and any queue: at most Streak foreground calls start before a
\* background call that could have.
THEOREM BackgroundGetsItsTurn == Spec => []BackgroundTurn
<1> DEFINE Inv == Shape /\ Lined /\ Paced
<1>1. Init => Paced BY GovernorConstants DEF Init, Paced
<1>2. Shape /\ Lined /\ Paced /\ [Next]_vars => Paced' BY PacedStep
<1>3. Shape /\ Lined /\ Paced => BackgroundTurn
  BY GovernorConstants DEF Paced, BackgroundTurn
<1> QED BY <1>1, <1>2, <1>3, AlwaysAccounted, PTL DEF Spec
=============================================================================
