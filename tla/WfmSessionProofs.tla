-------------------------- MODULE WfmSessionProofs --------------------------
EXTENDS WfmSession, TLAPS

\* Steps taken inside the credential section, and steps a logout takes.
Section == {"check", "truncate", "write", "remove", "advance"}
Leaving == {"pending", "remove", "advance"}

\* A step at which the task may still publish the login it holds, or write its
\* file, provided its generation is the session's.
Standing(t) ==
  \/ pc[t] \in {"window", "check", "truncate", "write", "warm", "install"}
  \/ pc[t] = "lock" /\ job[t].kind = "login"

\* One task's own steps: what it holds, what kind of command it runs, and that
\* the login it holds stands as long as its generation does.
KindTo(t) ==
  /\ pc[t] \in {"window", "check", "truncate", "write"} => job[t].kind = "login"
  /\ pc[t] \in Leaving => job[t].kind = "logout"
  /\ pc[t] = "lock" => job[t].kind \in {"login", "logout"}
  /\ pc[t] \in {"reload", "decrypt", "load", "capture"} => job[t].intent = "Forget"
  /\ job[t].kind \in {"silent", "logout", "batch"} => job[t].intent = "Forget"
  /\ Standing(t) => job[t].cred \in Logins
LockTo(t) ==
  /\ pc[t] \in Section <=> credentialFile = t
  /\ pc[t] \in Leaving \cup {"run", "account"} => planRunning = t
  /\ pc[t] = "lock" /\ job[t].kind = "logout" => planRunning = t
StandTo(t) ==
  /\ job[t].gen <= generation
  /\ Standing(t) /\ job[t].gen = generation => job[t].cred \notin voided
  /\ pc[t] \in {"truncate", "write"} => job[t].gen = generation
  /\ pc[t] = "advance" => file = NoLogin
  /\ pc[t] = "run" => job[t].cred \notin voided
OpenTo(t) ==
  /\ pc[t] \in {"reread", "decide", "keyring"} /\ job[t].intent = "Remember" => job[t].cred \in published

Kinded   == \A t \in Tasks : KindTo(t)
Locked   == \A t \in Tasks : LockTo(t)
Stands   == \A t \in Tasks : StandTo(t)
Opened   == \A t \in Tasks : OpenTo(t)
Counted  == voided \subseteq 1 .. logins

LEMMA NotNumbers ==
  ASSUME TypeOK
  PROVE  NoLogin \notin voided /\ Torn \notin voided
<1>1. voided \subseteq Nat BY SessionBounds DEF TypeOK, Logins
<1> QED BY <1>1, SessionNames


LEMMA TypeStep == TypeOK /\ Kinded /\ [Next]_vars => TypeOK'
<1> SUFFICES ASSUME TypeOK, Kinded, [Next]_vars PROVE TypeOK' OBVIOUS
<1> USE SessionBounds, SessionNames DEF TypeOK, Job, Kinds, Intents, Steps, Idle, Logins, memory, locks, counts, ghosts, Kinded, KindTo, Standing
<1>1. ASSUME NEW t \in Tasks, StartUnlock(t) PROVE TypeOK'
  BY <1>1 DEF StartUnlock, Begin
<1>2. ASSUME NEW t \in Tasks, StartSilent(t) PROVE TypeOK'
  BY <1>2 DEF StartSilent, Begin
<1>3. ASSUME NEW t \in Tasks, StartLogin(t) PROVE TypeOK'
  BY <1>3 DEF StartLogin, Begin
<1>4. ASSUME NEW t \in Tasks, StartLogout(t) PROVE TypeOK'
  BY <1>4 DEF StartLogout, Begin, PlanGuardFree
<1>5. ASSUME NEW t \in Tasks, StartBatch(t) PROVE TypeOK'
  BY <1>5 DEF StartBatch, Begin, PlanGuardFree
<1>6. ASSUME NEW t \in Tasks, Decrypt(t) PROVE TypeOK'
  BY <1>6 DEF Decrypt, Return, Dropped, Goto, Readable
<1>7. ASSUME NEW t \in Tasks, Capture(t) PROVE TypeOK'
  BY <1>7 DEF Capture, Return, Dropped, Goto
<1>8. ASSUME NEW t \in Tasks, LoadKey(t) PROVE TypeOK'
  BY <1>8 DEF LoadKey, Return, Dropped, Goto
<1>9. ASSUME NEW t \in Tasks, DecryptWithKey(t) PROVE TypeOK'
  BY <1>9 DEF DecryptWithKey, Return, Dropped, Goto, Readable
<1>10. ASSUME NEW t \in Tasks, Reload(t) PROVE TypeOK'
  BY <1>10 DEF Reload, Return, Dropped, Goto
<1>11. ASSUME NEW t \in Tasks, SignedIn(t) PROVE TypeOK'
  BY <1>11 DEF SignedIn, Return, Dropped, Goto
<1>12. ASSUME NEW t \in Tasks, LockCredentialFile(t) PROVE TypeOK'
  BY <1>12 DEF LockCredentialFile, Goto, InCredentialSection
<1>13. ASSUME NEW t \in Tasks, CheckLogin(t) PROVE TypeOK'
  BY <1>13 DEF CheckLogin, Return, Dropped, Goto, MayPersist
<1>14. ASSUME NEW t \in Tasks, Truncate(t) PROVE TypeOK'
  BY <1>14 DEF Truncate, Return, Dropped, Goto
<1>15. ASSUME NEW t \in Tasks, WriteLogin(t) PROVE TypeOK'
  BY <1>15 DEF WriteLogin, Return, Dropped, Goto, AfterPersist
<1>16. ASSUME NEW t \in Tasks, Warm(t) PROVE TypeOK'
  BY <1>16 DEF Warm, Return, Dropped, Goto
<1>17. ASSUME NEW t \in Tasks, Install(t) PROVE TypeOK'
  BY <1>17 DEF Install, Return, Dropped, Goto, MayPublish
<1>18. ASSUME NEW t \in Tasks, Reread(t) PROVE TypeOK'
  BY <1>18 DEF Reread, Return, Dropped, Goto
<1>19. ASSUME NEW t \in Tasks, Decide(t) PROVE TypeOK'
  BY <1>19 DEF Decide, Return, Dropped, Goto, MayRemember
<1>20. ASSUME NEW t \in Tasks, Keyring(t) PROVE TypeOK'
  BY <1>20 DEF Keyring, Return, Dropped
<1>21. ASSUME NEW t \in Tasks, RemovePending(t) PROVE TypeOK'
  BY <1>21 DEF RemovePending, Return, Dropped, Goto
<1>22. ASSUME NEW t \in Tasks, RemoveFile(t) PROVE TypeOK'
  BY <1>22 DEF RemoveFile, Return, Dropped, Goto
<1>23. ASSUME NEW t \in Tasks, Advance(t) PROVE TypeOK'
  <2>1. voided' \subseteq Logins BY <1>23 DEF Advance
  <2>2. generation' \in Nat /\ unlocked' = NoLogin BY <1>23 DEF Advance
  <2>6. job[t] \in Job /\ generation + 1 \in Nat OBVIOUS
  <2>7. [job[t] EXCEPT !.gen = generation + 1] \in Job BY <2>6
  <2>3. job' \in [Tasks -> Job] BY <1>23, <2>7 DEF Advance
  <2>4. pc' \in [Tasks -> Steps] BY <1>23 DEF Advance, Goto
  <2>5. UNCHANGED <<file, keyring, planRunning, counts, published>> /\ credentialFile' = Nobody BY <1>23 DEF Advance
  <2> QED BY <2>1, <2>2, <2>3, <2>4, <2>5
<1>24. ASSUME NEW t \in Tasks, RequireUnlocked(t) PROVE TypeOK'
  BY <1>24 DEF RequireUnlocked, Return, Dropped, Goto
<1>25. ASSUME NEW t \in Tasks, EndBatch(t) PROVE TypeOK'
  BY <1>25 DEF EndBatch, Return, Dropped
<1>26. ASSUME Crash PROVE TypeOK'
  BY <1>26 DEF Crash
<1>27. CASE UNCHANGED vars BY <1>27 DEF vars
<1> QED BY <1>1, <1>2, <1>3, <1>4, <1>5, <1>6, <1>7, <1>8, <1>9, <1>10, <1>11, <1>12, <1>13, <1>14, <1>15, <1>16, <1>17, <1>18, <1>19, <1>20, <1>21, <1>22, <1>23, <1>24, <1>25, <1>26, <1>27 DEF Next, Start, Continue

LEMMA KindStep == TypeOK /\ Kinded /\ [Next]_vars => Kinded'
<1> SUFFICES ASSUME TypeOK, Kinded, [Next]_vars PROVE Kinded' OBVIOUS
<1> USE SessionBounds, SessionNames DEF TypeOK, Job, Intents, Idle, Logins, memory, locks, counts, ghosts, Kinded, KindTo, Standing, Leaving
<1>1. ASSUME NEW t \in Tasks, StartUnlock(t) PROVE Kinded'
  BY <1>1 DEF StartUnlock, Begin
<1>2. ASSUME NEW t \in Tasks, StartSilent(t) PROVE Kinded'
  BY <1>2 DEF StartSilent, Begin
<1>3. ASSUME NEW t \in Tasks, StartLogin(t) PROVE Kinded'
  BY <1>3 DEF StartLogin, Begin
<1>4. ASSUME NEW t \in Tasks, StartLogout(t) PROVE Kinded'
  BY <1>4 DEF StartLogout, Begin, PlanGuardFree
<1>5. ASSUME NEW t \in Tasks, StartBatch(t) PROVE Kinded'
  BY <1>5 DEF StartBatch, Begin, PlanGuardFree
<1>6. ASSUME NEW t \in Tasks, Decrypt(t) PROVE Kinded'
  BY <1>6 DEF Decrypt, Return, Dropped, Goto, Readable
<1>7. ASSUME NEW t \in Tasks, Capture(t) PROVE Kinded'
  BY <1>7 DEF Capture, Return, Dropped, Goto
<1>8. ASSUME NEW t \in Tasks, LoadKey(t) PROVE Kinded'
  BY <1>8 DEF LoadKey, Return, Dropped, Goto
<1>9. ASSUME NEW t \in Tasks, DecryptWithKey(t) PROVE Kinded'
  BY <1>9 DEF DecryptWithKey, Return, Dropped, Goto, Readable
<1>10. ASSUME NEW t \in Tasks, Reload(t) PROVE Kinded'
  BY <1>10 DEF Reload, Return, Dropped, Goto
<1>11. ASSUME NEW t \in Tasks, SignedIn(t) PROVE Kinded'
  BY <1>11 DEF SignedIn, Return, Dropped, Goto
<1>12. ASSUME NEW t \in Tasks, LockCredentialFile(t) PROVE Kinded'
  BY <1>12 DEF LockCredentialFile, Goto, InCredentialSection
<1>13. ASSUME NEW t \in Tasks, CheckLogin(t) PROVE Kinded'
  BY <1>13 DEF CheckLogin, Return, Dropped, Goto, MayPersist
<1>14. ASSUME NEW t \in Tasks, Truncate(t) PROVE Kinded'
  BY <1>14 DEF Truncate, Return, Dropped, Goto
<1>15. ASSUME NEW t \in Tasks, WriteLogin(t) PROVE Kinded'
  BY <1>15 DEF WriteLogin, Return, Dropped, Goto, AfterPersist
<1>16. ASSUME NEW t \in Tasks, Warm(t) PROVE Kinded'
  BY <1>16 DEF Warm, Return, Dropped, Goto
<1>17. ASSUME NEW t \in Tasks, Install(t) PROVE Kinded'
  BY <1>17 DEF Install, Return, Dropped, Goto, MayPublish
<1>18. ASSUME NEW t \in Tasks, Reread(t) PROVE Kinded'
  BY <1>18 DEF Reread, Return, Dropped, Goto
<1>19. ASSUME NEW t \in Tasks, Decide(t) PROVE Kinded'
  BY <1>19 DEF Decide, Return, Dropped, Goto, MayRemember
<1>20. ASSUME NEW t \in Tasks, Keyring(t) PROVE Kinded'
  BY <1>20 DEF Keyring, Return, Dropped
<1>21. ASSUME NEW t \in Tasks, RemovePending(t) PROVE Kinded'
  BY <1>21 DEF RemovePending, Return, Dropped, Goto
<1>22. ASSUME NEW t \in Tasks, RemoveFile(t) PROVE Kinded'
  BY <1>22 DEF RemoveFile, Return, Dropped, Goto
<1>23. ASSUME NEW t \in Tasks, Advance(t) PROVE Kinded'
  BY <1>23 DEF Advance, Goto
<1>24. ASSUME NEW t \in Tasks, RequireUnlocked(t) PROVE Kinded'
  BY <1>24 DEF RequireUnlocked, Return, Dropped, Goto
<1>25. ASSUME NEW t \in Tasks, EndBatch(t) PROVE Kinded'
  BY <1>25 DEF EndBatch, Return, Dropped
<1>26. ASSUME Crash PROVE Kinded'
  BY <1>26 DEF Crash
<1>27. CASE UNCHANGED vars BY <1>27 DEF vars
<1> QED BY <1>1, <1>2, <1>3, <1>4, <1>5, <1>6, <1>7, <1>8, <1>9, <1>10, <1>11, <1>12, <1>13, <1>14, <1>15, <1>16, <1>17, <1>18, <1>19, <1>20, <1>21, <1>22, <1>23, <1>24, <1>25, <1>26, <1>27 DEF Next, Start, Continue

LEMMA LockStep == TypeOK /\ Kinded /\ Locked /\ [Next]_vars => Locked'
<1> SUFFICES ASSUME TypeOK, Kinded, Locked, [Next]_vars PROVE Locked' OBVIOUS
<1> USE SessionBounds, SessionNames DEF TypeOK, Job, Idle, locks, Kinded, KindTo, Locked, LockTo, Section, Leaving
<1>1. ASSUME NEW t \in Tasks, StartUnlock(t) PROVE Locked'
  BY <1>1 DEF StartUnlock, Begin
<1>2. ASSUME NEW t \in Tasks, StartSilent(t) PROVE Locked'
  BY <1>2 DEF StartSilent, Begin
<1>3. ASSUME NEW t \in Tasks, StartLogin(t) PROVE Locked'
  BY <1>3 DEF StartLogin, Begin
<1>4. ASSUME NEW t \in Tasks, StartLogout(t) PROVE Locked'
  BY <1>4 DEF StartLogout, Begin, PlanGuardFree
<1>5. ASSUME NEW t \in Tasks, StartBatch(t) PROVE Locked'
  BY <1>5 DEF StartBatch, Begin, PlanGuardFree
<1>6. ASSUME NEW t \in Tasks, Decrypt(t) PROVE Locked'
  BY <1>6 DEF Decrypt, Return, Dropped, Goto, Readable
<1>7. ASSUME NEW t \in Tasks, Capture(t) PROVE Locked'
  BY <1>7 DEF Capture, Return, Dropped, Goto
<1>8. ASSUME NEW t \in Tasks, LoadKey(t) PROVE Locked'
  BY <1>8 DEF LoadKey, Return, Dropped, Goto
<1>9. ASSUME NEW t \in Tasks, DecryptWithKey(t) PROVE Locked'
  BY <1>9 DEF DecryptWithKey, Return, Dropped, Goto, Readable
<1>10. ASSUME NEW t \in Tasks, Reload(t) PROVE Locked'
  BY <1>10 DEF Reload, Return, Dropped, Goto
<1>11. ASSUME NEW t \in Tasks, SignedIn(t) PROVE Locked'
  BY <1>11 DEF SignedIn, Return, Dropped, Goto
<1>12. ASSUME NEW t \in Tasks, LockCredentialFile(t) PROVE Locked'
  BY <1>12 DEF LockCredentialFile, Goto, InCredentialSection
<1>13. ASSUME NEW t \in Tasks, CheckLogin(t) PROVE Locked'
  BY <1>13 DEF CheckLogin, Return, Dropped, Goto, MayPersist
<1>14. ASSUME NEW t \in Tasks, Truncate(t) PROVE Locked'
  BY <1>14 DEF Truncate, Return, Dropped, Goto
<1>15. ASSUME NEW t \in Tasks, WriteLogin(t) PROVE Locked'
  BY <1>15 DEF WriteLogin, Return, Dropped, Goto, AfterPersist
<1>16. ASSUME NEW t \in Tasks, Warm(t) PROVE Locked'
  BY <1>16 DEF Warm, Return, Dropped, Goto
<1>17. ASSUME NEW t \in Tasks, Install(t) PROVE Locked'
  BY <1>17 DEF Install, Return, Dropped, Goto, MayPublish
<1>18. ASSUME NEW t \in Tasks, Reread(t) PROVE Locked'
  BY <1>18 DEF Reread, Return, Dropped, Goto
<1>19. ASSUME NEW t \in Tasks, Decide(t) PROVE Locked'
  BY <1>19 DEF Decide, Return, Dropped, Goto, MayRemember
<1>20. ASSUME NEW t \in Tasks, Keyring(t) PROVE Locked'
  BY <1>20 DEF Keyring, Return, Dropped
<1>21. ASSUME NEW t \in Tasks, RemovePending(t) PROVE Locked'
  BY <1>21 DEF RemovePending, Return, Dropped, Goto
<1>22. ASSUME NEW t \in Tasks, RemoveFile(t) PROVE Locked'
  BY <1>22 DEF RemoveFile, Return, Dropped, Goto
<1>23. ASSUME NEW t \in Tasks, Advance(t) PROVE Locked'
  BY <1>23 DEF Advance, Goto
<1>24. ASSUME NEW t \in Tasks, RequireUnlocked(t) PROVE Locked'
  BY <1>24 DEF RequireUnlocked, Return, Dropped, Goto
<1>25. ASSUME NEW t \in Tasks, EndBatch(t) PROVE Locked'
  BY <1>25 DEF EndBatch, Return, Dropped
<1>26. ASSUME Crash PROVE Locked'
  BY <1>26 DEF Crash
<1>27. CASE UNCHANGED vars BY <1>27 DEF vars
<1> QED BY <1>1, <1>2, <1>3, <1>4, <1>5, <1>6, <1>7, <1>8, <1>9, <1>10, <1>11, <1>12, <1>13, <1>14, <1>15, <1>16, <1>17, <1>18, <1>19, <1>20, <1>21, <1>22, <1>23, <1>24, <1>25, <1>26, <1>27 DEF Next, Start, Continue

LEMMA CountStep == TypeOK /\ Counted /\ [Next]_vars => Counted'
<1> SUFFICES ASSUME TypeOK, Counted, [Next]_vars PROVE Counted' OBVIOUS
<1> USE SessionBounds, SessionNames DEF TypeOK, Counted, Logins, counts, ghosts
<1>1. ASSUME NEW t \in Tasks, StartUnlock(t) PROVE Counted'
  BY <1>1 DEF StartUnlock, Begin
<1>2. ASSUME NEW t \in Tasks, StartSilent(t) PROVE Counted'
  BY <1>2 DEF StartSilent, Begin
<1>3. ASSUME NEW t \in Tasks, StartLogin(t) PROVE Counted'
  BY <1>3 DEF StartLogin, Begin
<1>4. ASSUME NEW t \in Tasks, StartLogout(t) PROVE Counted'
  BY <1>4 DEF StartLogout, Begin, PlanGuardFree
<1>5. ASSUME NEW t \in Tasks, StartBatch(t) PROVE Counted'
  BY <1>5 DEF StartBatch, Begin, PlanGuardFree
<1>6. ASSUME NEW t \in Tasks, Decrypt(t) PROVE Counted'
  BY <1>6 DEF Decrypt, Return, Dropped, Goto, Readable
<1>7. ASSUME NEW t \in Tasks, Capture(t) PROVE Counted'
  BY <1>7 DEF Capture, Return, Dropped, Goto
<1>8. ASSUME NEW t \in Tasks, LoadKey(t) PROVE Counted'
  BY <1>8 DEF LoadKey, Return, Dropped, Goto
<1>9. ASSUME NEW t \in Tasks, DecryptWithKey(t) PROVE Counted'
  BY <1>9 DEF DecryptWithKey, Return, Dropped, Goto, Readable
<1>10. ASSUME NEW t \in Tasks, Reload(t) PROVE Counted'
  BY <1>10 DEF Reload, Return, Dropped, Goto
<1>11. ASSUME NEW t \in Tasks, SignedIn(t) PROVE Counted'
  BY <1>11 DEF SignedIn, Return, Dropped, Goto
<1>12. ASSUME NEW t \in Tasks, LockCredentialFile(t) PROVE Counted'
  BY <1>12 DEF LockCredentialFile, Goto, InCredentialSection
<1>13. ASSUME NEW t \in Tasks, CheckLogin(t) PROVE Counted'
  BY <1>13 DEF CheckLogin, Return, Dropped, Goto, MayPersist
<1>14. ASSUME NEW t \in Tasks, Truncate(t) PROVE Counted'
  BY <1>14 DEF Truncate, Return, Dropped, Goto
<1>15. ASSUME NEW t \in Tasks, WriteLogin(t) PROVE Counted'
  BY <1>15 DEF WriteLogin, Return, Dropped, Goto, AfterPersist
<1>16. ASSUME NEW t \in Tasks, Warm(t) PROVE Counted'
  BY <1>16 DEF Warm, Return, Dropped, Goto
<1>17. ASSUME NEW t \in Tasks, Install(t) PROVE Counted'
  BY <1>17 DEF Install, Return, Dropped, Goto, MayPublish
<1>18. ASSUME NEW t \in Tasks, Reread(t) PROVE Counted'
  BY <1>18 DEF Reread, Return, Dropped, Goto
<1>19. ASSUME NEW t \in Tasks, Decide(t) PROVE Counted'
  BY <1>19 DEF Decide, Return, Dropped, Goto, MayRemember
<1>20. ASSUME NEW t \in Tasks, Keyring(t) PROVE Counted'
  BY <1>20 DEF Keyring, Return, Dropped
<1>21. ASSUME NEW t \in Tasks, RemovePending(t) PROVE Counted'
  BY <1>21 DEF RemovePending, Return, Dropped, Goto
<1>22. ASSUME NEW t \in Tasks, RemoveFile(t) PROVE Counted'
  BY <1>22 DEF RemoveFile, Return, Dropped, Goto
<1>23. ASSUME NEW t \in Tasks, Advance(t) PROVE Counted'
  BY <1>23 DEF Advance, Goto
<1>24. ASSUME NEW t \in Tasks, RequireUnlocked(t) PROVE Counted'
  BY <1>24 DEF RequireUnlocked, Return, Dropped, Goto
<1>25. ASSUME NEW t \in Tasks, EndBatch(t) PROVE Counted'
  BY <1>25 DEF EndBatch, Return, Dropped
<1>26. ASSUME Crash PROVE Counted'
  BY <1>26 DEF Crash
<1>27. CASE UNCHANGED vars BY <1>27 DEF vars
<1> QED BY <1>1, <1>2, <1>3, <1>4, <1>5, <1>6, <1>7, <1>8, <1>9, <1>10, <1>11, <1>12, <1>13, <1>14, <1>15, <1>16, <1>17, <1>18, <1>19, <1>20, <1>21, <1>22, <1>23, <1>24, <1>25, <1>26, <1>27 DEF Next, Start, Continue

LEMMA StandStep == TypeOK /\ Kinded /\ Locked /\ Counted /\ LogoutWins /\ Stands /\ [Next]_vars => Stands'
<1> SUFFICES ASSUME TypeOK, Kinded, Locked, Counted, LogoutWins, Stands, [Next]_vars PROVE Stands' OBVIOUS
<1> USE SessionBounds, SessionNames DEF TypeOK, Job, Idle, Logins, memory, locks, counts, ghosts, Kinded, KindTo, Locked, LockTo, Stands, StandTo, Standing, Section, Leaving, Counted, LogoutWins
<1>1. ASSUME NEW t \in Tasks, StartUnlock(t) PROVE Stands'
  BY <1>1 DEF StartUnlock, Begin
<1>2. ASSUME NEW t \in Tasks, StartSilent(t) PROVE Stands'
  BY <1>2 DEF StartSilent, Begin
<1>3. ASSUME NEW t \in Tasks, StartLogin(t) PROVE Stands'
  BY <1>3 DEF StartLogin, Begin
<1>4. ASSUME NEW t \in Tasks, StartLogout(t) PROVE Stands'
  BY <1>4 DEF StartLogout, Begin, PlanGuardFree
<1>5. ASSUME NEW t \in Tasks, StartBatch(t) PROVE Stands'
  BY <1>5 DEF StartBatch, Begin, PlanGuardFree
<1>6. ASSUME NEW t \in Tasks, Decrypt(t) PROVE Stands'
  BY <1>6 DEF Decrypt, Return, Dropped, Goto, Readable
<1>7. ASSUME NEW t \in Tasks, Capture(t) PROVE Stands'
  BY <1>7 DEF Capture, Return, Dropped, Goto
<1>8. ASSUME NEW t \in Tasks, LoadKey(t) PROVE Stands'
  BY <1>8 DEF LoadKey, Return, Dropped, Goto
<1>9. ASSUME NEW t \in Tasks, DecryptWithKey(t) PROVE Stands'
  BY <1>9 DEF DecryptWithKey, Return, Dropped, Goto, Readable
<1>10. ASSUME NEW t \in Tasks, Reload(t) PROVE Stands'
  BY <1>10 DEF Reload, Return, Dropped, Goto
<1>11. ASSUME NEW t \in Tasks, SignedIn(t) PROVE Stands'
  BY <1>11 DEF SignedIn, Return, Dropped, Goto
<1>12. ASSUME NEW t \in Tasks, LockCredentialFile(t) PROVE Stands'
  BY <1>12 DEF LockCredentialFile, Goto, InCredentialSection
<1>13. ASSUME NEW t \in Tasks, CheckLogin(t) PROVE Stands'
  BY <1>13 DEF CheckLogin, Return, Dropped, Goto, MayPersist
<1>14. ASSUME NEW t \in Tasks, Truncate(t) PROVE Stands'
  BY <1>14 DEF Truncate, Return, Dropped, Goto
<1>15. ASSUME NEW t \in Tasks, WriteLogin(t) PROVE Stands'
  BY <1>15 DEF WriteLogin, Return, Dropped, Goto, AfterPersist
<1>16. ASSUME NEW t \in Tasks, Warm(t) PROVE Stands'
  BY <1>16 DEF Warm, Return, Dropped, Goto
<1>17. ASSUME NEW t \in Tasks, Install(t) PROVE Stands'
  BY <1>17 DEF Install, Return, Dropped, Goto, MayPublish
<1>18. ASSUME NEW t \in Tasks, Reread(t) PROVE Stands'
  BY <1>18 DEF Reread, Return, Dropped, Goto
<1>19. ASSUME NEW t \in Tasks, Decide(t) PROVE Stands'
  BY <1>19 DEF Decide, Return, Dropped, Goto, MayRemember
<1>20. ASSUME NEW t \in Tasks, Keyring(t) PROVE Stands'
  BY <1>20 DEF Keyring, Return, Dropped
<1>21. ASSUME NEW t \in Tasks, RemovePending(t) PROVE Stands'
  BY <1>21 DEF RemovePending, Return, Dropped, Goto
<1>22. ASSUME NEW t \in Tasks, RemoveFile(t) PROVE Stands'
  BY <1>22 DEF RemoveFile, Return, Dropped, Goto
<1>23. ASSUME NEW t \in Tasks, Advance(t) PROVE Stands'
  BY <1>23 DEF Advance, Goto
<1>24. ASSUME NEW t \in Tasks, RequireUnlocked(t) PROVE Stands'
  BY <1>24 DEF RequireUnlocked, Return, Dropped, Goto
<1>25. ASSUME NEW t \in Tasks, EndBatch(t) PROVE Stands'
  BY <1>25 DEF EndBatch, Return, Dropped
<1>26. ASSUME Crash PROVE Stands'
  BY <1>26 DEF Crash
<1>27. CASE UNCHANGED vars BY <1>27 DEF vars
<1> QED BY <1>1, <1>2, <1>3, <1>4, <1>5, <1>6, <1>7, <1>8, <1>9, <1>10, <1>11, <1>12, <1>13, <1>14, <1>15, <1>16, <1>17, <1>18, <1>19, <1>20, <1>21, <1>22, <1>23, <1>24, <1>25, <1>26, <1>27 DEF Next, Start, Continue

LEMMA WinStep == TypeOK /\ Kinded /\ Locked /\ Counted /\ Stands /\ LogoutWins /\ [Next]_vars => LogoutWins'
<1> SUFFICES ASSUME TypeOK, Kinded, Locked, Counted, Stands, LogoutWins, [Next]_vars PROVE LogoutWins' OBVIOUS
<1> USE SessionBounds, SessionNames DEF TypeOK, Job, Logins, memory, locks, counts, ghosts, Kinded, KindTo, Locked, LockTo, Stands, StandTo, Standing, Section, Leaving, Counted, LogoutWins
<1>1. ASSUME NEW t \in Tasks, StartUnlock(t) PROVE LogoutWins'
  BY <1>1 DEF StartUnlock, Begin
<1>2. ASSUME NEW t \in Tasks, StartSilent(t) PROVE LogoutWins'
  BY <1>2 DEF StartSilent, Begin
<1>3. ASSUME NEW t \in Tasks, StartLogin(t) PROVE LogoutWins'
  BY <1>3 DEF StartLogin, Begin
<1>4. ASSUME NEW t \in Tasks, StartLogout(t) PROVE LogoutWins'
  BY <1>4 DEF StartLogout, Begin, PlanGuardFree
<1>5. ASSUME NEW t \in Tasks, StartBatch(t) PROVE LogoutWins'
  BY <1>5 DEF StartBatch, Begin, PlanGuardFree
<1>6. ASSUME NEW t \in Tasks, Decrypt(t) PROVE LogoutWins'
  BY <1>6 DEF Decrypt, Return, Dropped, Goto, Readable
<1>7. ASSUME NEW t \in Tasks, Capture(t) PROVE LogoutWins'
  BY <1>7 DEF Capture, Return, Dropped, Goto
<1>8. ASSUME NEW t \in Tasks, LoadKey(t) PROVE LogoutWins'
  BY <1>8 DEF LoadKey, Return, Dropped, Goto
<1>9. ASSUME NEW t \in Tasks, DecryptWithKey(t) PROVE LogoutWins'
  BY <1>9 DEF DecryptWithKey, Return, Dropped, Goto, Readable
<1>10. ASSUME NEW t \in Tasks, Reload(t) PROVE LogoutWins'
  BY <1>10 DEF Reload, Return, Dropped, Goto
<1>11. ASSUME NEW t \in Tasks, SignedIn(t) PROVE LogoutWins'
  BY <1>11 DEF SignedIn, Return, Dropped, Goto
<1>12. ASSUME NEW t \in Tasks, LockCredentialFile(t) PROVE LogoutWins'
  BY <1>12 DEF LockCredentialFile, Goto, InCredentialSection
<1>13. ASSUME NEW t \in Tasks, CheckLogin(t) PROVE LogoutWins'
  BY <1>13 DEF CheckLogin, Return, Dropped, Goto, MayPersist
<1>14. ASSUME NEW t \in Tasks, Truncate(t) PROVE LogoutWins'
  <2>1. NoLogin \notin voided /\ Torn \notin voided BY NotNumbers
  <2>2. unlocked' = unlocked /\ voided' = voided BY <1>14 DEF Truncate
  <2>3. file' \in {Torn, file} BY <1>14 DEF Truncate
  <2> QED BY <2>1, <2>2, <2>3
<1>15. ASSUME NEW t \in Tasks, WriteLogin(t) PROVE LogoutWins'
  <2>1. NoLogin \notin voided /\ Torn \notin voided BY NotNumbers
  <2>2. unlocked' = unlocked /\ voided' = voided BY <1>15 DEF WriteLogin
  <2>3. file' = job[t].cred \/ file' = Torn BY <1>15 DEF WriteLogin
  <2>4. job[t].cred \notin voided BY <1>15 DEF WriteLogin
  <2> QED BY <2>1, <2>2, <2>3, <2>4
<1>16. ASSUME NEW t \in Tasks, Warm(t) PROVE LogoutWins'
  BY <1>16 DEF Warm, Return, Dropped, Goto
<1>17. ASSUME NEW t \in Tasks, Install(t) PROVE LogoutWins'
  BY <1>17 DEF Install, Return, Dropped, Goto, MayPublish
<1>18. ASSUME NEW t \in Tasks, Reread(t) PROVE LogoutWins'
  BY <1>18 DEF Reread, Return, Dropped, Goto
<1>19. ASSUME NEW t \in Tasks, Decide(t) PROVE LogoutWins'
  BY <1>19 DEF Decide, Return, Dropped, Goto, MayRemember
<1>20. ASSUME NEW t \in Tasks, Keyring(t) PROVE LogoutWins'
  BY <1>20 DEF Keyring, Return, Dropped
<1>21. ASSUME NEW t \in Tasks, RemovePending(t) PROVE LogoutWins'
  BY <1>21 DEF RemovePending, Return, Dropped, Goto
<1>22. ASSUME NEW t \in Tasks, RemoveFile(t) PROVE LogoutWins'
  <2>1. NoLogin \notin voided /\ Torn \notin voided BY NotNumbers
  <2>2. unlocked' = unlocked /\ voided' = voided BY <1>22 DEF RemoveFile
  <2>3. file' \in {NoLogin, file} BY <1>22 DEF RemoveFile
  <2> QED BY <2>1, <2>2, <2>3
<1>23. ASSUME NEW t \in Tasks, Advance(t) PROVE LogoutWins'
  <2>1. unlocked' = NoLogin /\ file' = NoLogin BY <1>23 DEF Advance
  <2>2. voided' = 1 .. logins BY <1>23 DEF Advance
  <2>3. NoLogin \notin 1 .. logins OBVIOUS
  <2> QED BY <2>1, <2>2, <2>3
<1>24. ASSUME NEW t \in Tasks, RequireUnlocked(t) PROVE LogoutWins'
  BY <1>24 DEF RequireUnlocked, Return, Dropped, Goto
<1>25. ASSUME NEW t \in Tasks, EndBatch(t) PROVE LogoutWins'
  BY <1>25 DEF EndBatch, Return, Dropped
<1>26. ASSUME Crash PROVE LogoutWins'
  <2>1. NoLogin \notin voided /\ Torn \notin voided BY NotNumbers
  <2>2. unlocked' = NoLogin /\ file' = file /\ voided' = voided BY <1>26 DEF Crash
  <2> QED BY <2>1, <2>2
<1>27. CASE UNCHANGED vars BY <1>27 DEF vars
<1> QED BY <1>1, <1>2, <1>3, <1>4, <1>5, <1>6, <1>7, <1>8, <1>9, <1>10, <1>11, <1>12, <1>13, <1>14, <1>15, <1>16, <1>17, <1>18, <1>19, <1>20, <1>21, <1>22, <1>23, <1>24, <1>25, <1>26, <1>27 DEF Next, Start, Continue

LEMMA OpenStep == TypeOK /\ Kinded /\ Opened /\ [Next]_vars => Opened'
<1> SUFFICES ASSUME TypeOK, Kinded, Opened, [Next]_vars PROVE Opened' OBVIOUS
<1> USE SessionBounds, SessionNames DEF TypeOK, Job, Idle, Intents, Logins, memory, locks, counts, ghosts, Kinded, KindTo, Opened, OpenTo, Standing, Leaving
<1>1. ASSUME NEW t \in Tasks, StartUnlock(t) PROVE Opened'
  BY <1>1 DEF StartUnlock, Begin
<1>2. ASSUME NEW t \in Tasks, StartSilent(t) PROVE Opened'
  BY <1>2 DEF StartSilent, Begin
<1>3. ASSUME NEW t \in Tasks, StartLogin(t) PROVE Opened'
  BY <1>3 DEF StartLogin, Begin
<1>4. ASSUME NEW t \in Tasks, StartLogout(t) PROVE Opened'
  BY <1>4 DEF StartLogout, Begin, PlanGuardFree
<1>5. ASSUME NEW t \in Tasks, StartBatch(t) PROVE Opened'
  BY <1>5 DEF StartBatch, Begin, PlanGuardFree
<1>6. ASSUME NEW t \in Tasks, Decrypt(t) PROVE Opened'
  BY <1>6 DEF Decrypt, Return, Dropped, Goto, Readable
<1>7. ASSUME NEW t \in Tasks, Capture(t) PROVE Opened'
  BY <1>7 DEF Capture, Return, Dropped, Goto
<1>8. ASSUME NEW t \in Tasks, LoadKey(t) PROVE Opened'
  BY <1>8 DEF LoadKey, Return, Dropped, Goto
<1>9. ASSUME NEW t \in Tasks, DecryptWithKey(t) PROVE Opened'
  BY <1>9 DEF DecryptWithKey, Return, Dropped, Goto, Readable
<1>10. ASSUME NEW t \in Tasks, Reload(t) PROVE Opened'
  BY <1>10 DEF Reload, Return, Dropped, Goto
<1>11. ASSUME NEW t \in Tasks, SignedIn(t) PROVE Opened'
  BY <1>11 DEF SignedIn, Return, Dropped, Goto
<1>12. ASSUME NEW t \in Tasks, LockCredentialFile(t) PROVE Opened'
  BY <1>12 DEF LockCredentialFile, Goto, InCredentialSection
<1>13. ASSUME NEW t \in Tasks, CheckLogin(t) PROVE Opened'
  BY <1>13 DEF CheckLogin, Return, Dropped, Goto, MayPersist
<1>14. ASSUME NEW t \in Tasks, Truncate(t) PROVE Opened'
  BY <1>14 DEF Truncate, Return, Dropped, Goto
<1>15. ASSUME NEW t \in Tasks, WriteLogin(t) PROVE Opened'
  BY <1>15 DEF WriteLogin, Return, Dropped, Goto, AfterPersist
<1>16. ASSUME NEW t \in Tasks, Warm(t) PROVE Opened'
  BY <1>16 DEF Warm, Return, Dropped, Goto
<1>17. ASSUME NEW t \in Tasks, Install(t) PROVE Opened'
  BY <1>17 DEF Install, Return, Dropped, Goto, MayPublish
<1>18. ASSUME NEW t \in Tasks, Reread(t) PROVE Opened'
  BY <1>18 DEF Reread, Return, Dropped, Goto
<1>19. ASSUME NEW t \in Tasks, Decide(t) PROVE Opened'
  BY <1>19 DEF Decide, Return, Dropped, Goto, MayRemember
<1>20. ASSUME NEW t \in Tasks, Keyring(t) PROVE Opened'
  BY <1>20 DEF Keyring, Return, Dropped
<1>21. ASSUME NEW t \in Tasks, RemovePending(t) PROVE Opened'
  BY <1>21 DEF RemovePending, Return, Dropped, Goto
<1>22. ASSUME NEW t \in Tasks, RemoveFile(t) PROVE Opened'
  BY <1>22 DEF RemoveFile, Return, Dropped, Goto
<1>23. ASSUME NEW t \in Tasks, Advance(t) PROVE Opened'
  <2>1. ASSUME NEW u \in Tasks PROVE OpenTo(u)'
    <3>1. CASE u = t BY <1>23, <3>1 DEF Advance, Goto
    <3>2. CASE u # t BY <1>23, <3>2 DEF Advance, Goto
    <3> QED BY <3>1, <3>2
  <2> QED BY <2>1
<1>24. ASSUME NEW t \in Tasks, RequireUnlocked(t) PROVE Opened'
  BY <1>24 DEF RequireUnlocked, Return, Dropped, Goto
<1>25. ASSUME NEW t \in Tasks, EndBatch(t) PROVE Opened'
  BY <1>25 DEF EndBatch, Return, Dropped
<1>26. ASSUME Crash PROVE Opened'
  BY <1>26 DEF Crash
<1>27. CASE UNCHANGED vars BY <1>27 DEF vars
<1> QED BY <1>1, <1>2, <1>3, <1>4, <1>5, <1>6, <1>7, <1>8, <1>9, <1>10, <1>11, <1>12, <1>13, <1>14, <1>15, <1>16, <1>17, <1>18, <1>19, <1>20, <1>21, <1>22, <1>23, <1>24, <1>25, <1>26, <1>27 DEF Next, Start, Continue

LEMMA RememberStep == TypeOK /\ Opened /\ RememberedOnlyIfOpened /\ [Next]_vars => RememberedOnlyIfOpened'
<1> SUFFICES ASSUME TypeOK, Opened, RememberedOnlyIfOpened, [Next]_vars PROVE RememberedOnlyIfOpened' OBVIOUS
<1> USE SessionBounds, SessionNames DEF TypeOK, Intents, Job, memory, locks, counts, ghosts, Opened, OpenTo, RememberedOnlyIfOpened
<1>1. ASSUME NEW t \in Tasks, StartUnlock(t) PROVE RememberedOnlyIfOpened'
  BY <1>1 DEF StartUnlock, Begin
<1>2. ASSUME NEW t \in Tasks, StartSilent(t) PROVE RememberedOnlyIfOpened'
  BY <1>2 DEF StartSilent, Begin
<1>3. ASSUME NEW t \in Tasks, StartLogin(t) PROVE RememberedOnlyIfOpened'
  BY <1>3 DEF StartLogin, Begin
<1>4. ASSUME NEW t \in Tasks, StartLogout(t) PROVE RememberedOnlyIfOpened'
  BY <1>4 DEF StartLogout, Begin, PlanGuardFree
<1>5. ASSUME NEW t \in Tasks, StartBatch(t) PROVE RememberedOnlyIfOpened'
  BY <1>5 DEF StartBatch, Begin, PlanGuardFree
<1>6. ASSUME NEW t \in Tasks, Decrypt(t) PROVE RememberedOnlyIfOpened'
  BY <1>6 DEF Decrypt, Return, Dropped, Goto, Readable
<1>7. ASSUME NEW t \in Tasks, Capture(t) PROVE RememberedOnlyIfOpened'
  BY <1>7 DEF Capture, Return, Dropped, Goto
<1>8. ASSUME NEW t \in Tasks, LoadKey(t) PROVE RememberedOnlyIfOpened'
  BY <1>8 DEF LoadKey, Return, Dropped, Goto
<1>9. ASSUME NEW t \in Tasks, DecryptWithKey(t) PROVE RememberedOnlyIfOpened'
  BY <1>9 DEF DecryptWithKey, Return, Dropped, Goto, Readable
<1>10. ASSUME NEW t \in Tasks, Reload(t) PROVE RememberedOnlyIfOpened'
  BY <1>10 DEF Reload, Return, Dropped, Goto
<1>11. ASSUME NEW t \in Tasks, SignedIn(t) PROVE RememberedOnlyIfOpened'
  BY <1>11 DEF SignedIn, Return, Dropped, Goto
<1>12. ASSUME NEW t \in Tasks, LockCredentialFile(t) PROVE RememberedOnlyIfOpened'
  BY <1>12 DEF LockCredentialFile, Goto, InCredentialSection
<1>13. ASSUME NEW t \in Tasks, CheckLogin(t) PROVE RememberedOnlyIfOpened'
  BY <1>13 DEF CheckLogin, Return, Dropped, Goto, MayPersist
<1>14. ASSUME NEW t \in Tasks, Truncate(t) PROVE RememberedOnlyIfOpened'
  BY <1>14 DEF Truncate, Return, Dropped, Goto
<1>15. ASSUME NEW t \in Tasks, WriteLogin(t) PROVE RememberedOnlyIfOpened'
  BY <1>15 DEF WriteLogin, Return, Dropped, Goto, AfterPersist
<1>16. ASSUME NEW t \in Tasks, Warm(t) PROVE RememberedOnlyIfOpened'
  BY <1>16 DEF Warm, Return, Dropped, Goto
<1>17. ASSUME NEW t \in Tasks, Install(t) PROVE RememberedOnlyIfOpened'
  BY <1>17 DEF Install, Return, Dropped, Goto, MayPublish
<1>18. ASSUME NEW t \in Tasks, Reread(t) PROVE RememberedOnlyIfOpened'
  BY <1>18 DEF Reread, Return, Dropped, Goto
<1>19. ASSUME NEW t \in Tasks, Decide(t) PROVE RememberedOnlyIfOpened'
  BY <1>19 DEF Decide, Return, Dropped, Goto, MayRemember
<1>20. ASSUME NEW t \in Tasks, Keyring(t) PROVE RememberedOnlyIfOpened'
  BY <1>20 DEF Keyring, Return, Dropped
<1>21. ASSUME NEW t \in Tasks, RemovePending(t) PROVE RememberedOnlyIfOpened'
  BY <1>21 DEF RemovePending, Return, Dropped, Goto
<1>22. ASSUME NEW t \in Tasks, RemoveFile(t) PROVE RememberedOnlyIfOpened'
  BY <1>22 DEF RemoveFile, Return, Dropped, Goto
<1>23. ASSUME NEW t \in Tasks, Advance(t) PROVE RememberedOnlyIfOpened'
  BY <1>23 DEF Advance, Goto
<1>24. ASSUME NEW t \in Tasks, RequireUnlocked(t) PROVE RememberedOnlyIfOpened'
  BY <1>24 DEF RequireUnlocked, Return, Dropped, Goto
<1>25. ASSUME NEW t \in Tasks, EndBatch(t) PROVE RememberedOnlyIfOpened'
  BY <1>25 DEF EndBatch, Return, Dropped
<1>26. ASSUME Crash PROVE RememberedOnlyIfOpened'
  BY <1>26 DEF Crash
<1>27. CASE UNCHANGED vars BY <1>27 DEF vars
<1> QED BY <1>1, <1>2, <1>3, <1>4, <1>5, <1>6, <1>7, <1>8, <1>9, <1>10, <1>11, <1>12, <1>13, <1>14, <1>15, <1>16, <1>17, <1>18, <1>19, <1>20, <1>21, <1>22, <1>23, <1>24, <1>25, <1>26, <1>27 DEF Next, Start, Continue

Sound == /\ TypeOK /\ Kinded /\ Locked /\ Counted /\ Stands /\ Opened
         /\ LogoutWins /\ RememberedOnlyIfOpened

LEMMA InitSound == Init => Sound
BY SessionBounds, SessionNames DEF Init, Sound, TypeOK, Job, Kinds, Intents, Steps, Idle, Logins, Kinded, KindTo,
   Standing, Section, Leaving, Locked, LockTo, Counted, Stands, StandTo, Opened, OpenTo, LogoutWins, RememberedOnlyIfOpened

LEMMA StepSound == Sound /\ [Next]_vars => Sound'
BY TypeStep, KindStep, LockStep, CountStep, StandStep, WinStep, OpenStep, RememberStep DEF Sound

LEMMA AlwaysSound == Spec => []Sound
BY InitSound, StepSound, PTL DEF Spec

\* Types.
THEOREM SessionTyped == Spec => []TypeOK
BY AlwaysSound, PTL DEF Sound

\* For every number of tasks, sign-ins, unlocks and crashes: no unlock, silent
\* unlock or sign-in that a logout overtook opens the account again or puts its
\* login file back.
THEOREM LogoutAlwaysWins == Spec => []LogoutWins
BY AlwaysSound, PTL DEF Sound

\* The keyring only ever holds the key of an account that was opened.
THEOREM KeyringOnlyOpened == Spec => []RememberedOnlyIfOpened
BY AlwaysSound, PTL DEF Sound

LEMMA SoundBatch == Sound => BatchAccountStands
BY DEF Sound, Stands, StandTo, BatchAccountStands

\* No batch is ever running for an account that was logged out under it.
THEOREM BatchKeepsItsAccount == Spec => []BatchAccountStands
BY AlwaysSound, SoundBatch, PTL
=============================================================================
