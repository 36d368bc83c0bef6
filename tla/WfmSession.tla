---------------------------- MODULE WfmSession ----------------------------
(***************************************************************************)
(* The desktop's warframe.market session: an account unlocked in memory, an *)
(* encrypted login file, and the device key kept in the OS keyring.  Sign-  *)
(* in, unlock, silent unlock, logout and listing batches run on blocking    *)
(* tasks; every network call, file access and keyring access is a step of   *)
(* its own, and the process may die between any two.                        *)
(*                                                                          *)
(* A sign-in is named by a number that stands for the account, the salt of  *)
(* its login file and the device key derived from that salt.                *)
(***************************************************************************)
EXTENDS Naturals, FiniteSets

CONSTANTS
  Tasks,       \* blocking tasks
  Nobody,      \* the owner of a free lock
  NoLogin,     \* nothing unlocked, no file, no keyring entry
  Torn,        \* a login file cut short while it was written
  UseKeyring,  \* FALSE when the login path is overridden
  MaxLogins,   \* bound: sign-ins started
  MaxLogouts,  \* bound: generation advances in one process
  MaxUnlocks,  \* bound: unlocks and silent unlocks started
  MaxBatches,  \* bound: batches started
  MaxCrashes   \* bound: process deaths

Logins  == 1 .. MaxLogins
Kinds   == {"unlock", "silent", "login", "logout", "batch"}
Intents == {"Remember", "Forget"}
Steps   == {"idle", "read", "capture", "load", "decrypt", "reload", "window", "lock",
            "check", "truncate", "write", "warm", "install", "reread", "decide",
            "keyring", "pending", "remove", "advance", "account", "run"}
Job     == [kind : Kinds, gen : Nat, cred : Logins \cup {NoLogin}, intent : Intents]

ASSUME SessionBounds ==
  /\ MaxLogins \in Nat /\ MaxLogouts \in Nat /\ MaxUnlocks \in Nat
  /\ MaxBatches \in Nat /\ MaxCrashes \in Nat
  /\ UseKeyring \in BOOLEAN

ASSUME SessionNames ==
  /\ Nobody \notin Tasks
  /\ NoLogin \notin Nat /\ Torn \notin Nat /\ NoLogin # Torn

VARIABLES
  generation,     \* SessionState.generation
  unlocked,       \* SessionState.unlocked
  file,           \* the login file
  keyring,        \* the OS keyring entry
  credentialFile, \* holder of WfmSession.credential_file
  planRunning,    \* holder of WfmSession.plan_running
  pc, job,        \* where each task is, and its locals
  logins,         \* sign-ins started so far
  voided,         \* sign-ins a logout has ended
  published,      \* sign-ins that were unlocked in memory at some time
  unlocks, batches, crashes

memory == <<generation, unlocked>>
locks  == <<credentialFile, planRunning>>
counts == <<logins, unlocks, batches, crashes>>
ghosts == <<voided, published>>
vars   == <<generation, unlocked, file, keyring, credentialFile, planRunning, pc, job,
            logins, voided, published, unlocks, batches, crashes>>

Idle == [kind |-> "batch", gen |-> 0, cred |-> NoLogin, intent |-> "Forget"]

\* The generation a task captured is still the session's: the test before the
\* login file is written, before a session is published and before the keyring
\* is changed.
Bug_AlwaysCurrent(t) == TRUE
MayPersist(t)   == job[t].gen = generation
MayPublish(t)   == job[t].gen = generation
MayRemember(t)  == job[t].gen = generation

\* PlanGuard::acquire; Bug_Always is the command that does not take the guard.
Bug_Always == TRUE
PlanGuardFree == planRunning = Nobody

\* read_blob: a torn file does not parse.
Readable(f) == f \in Logins

Goto(t, p) == pc' = [pc EXCEPT ![t] = p]
\* Returning drops the guards the call holds; Bug_NotDropped is the early return
\* that forgets to.
Bug_NotDropped(holder, t) == holder
Dropped(holder, t) == IF holder = t THEN Nobody ELSE holder
Return(t) ==
  /\ pc' = [pc EXCEPT ![t] = "idle"]
  /\ job' = [job EXCEPT ![t] = Idle]
  /\ credentialFile' = Dropped(credentialFile, t)
  /\ planRunning' = Dropped(planRunning, t)
Begin(t, j, p) ==
  /\ pc[t] = "idle"
  /\ pc' = [pc EXCEPT ![t] = p]
  /\ job' = [job EXCEPT ![t] = j]

Init ==
  /\ generation = 0 /\ unlocked = NoLogin /\ file = NoLogin /\ keyring = NoLogin
  /\ credentialFile = Nobody /\ planRunning = Nobody
  /\ pc = [t \in Tasks |-> "idle"]
  /\ job = [t \in Tasks |-> Idle]
  /\ logins = 0 /\ voided = {} /\ published = {}
  /\ unlocks = 0 /\ batches = 0 /\ crashes = 0

---------------------------------------------------------------------------
\* unlock: the generation, then the file, with the passphrase typed for it.
StartUnlock(t) ==
  /\ unlocks < MaxUnlocks
  /\ \E i \in Intents :
       Begin(t, [kind |-> "unlock", gen |-> generation, cred |-> NoLogin, intent |-> i], "read")
  /\ unlocks' = unlocks + 1
  /\ UNCHANGED <<memory, file, keyring, locks, logins, ghosts, batches, crashes>>

\* decrypt_from_disk: no file, an unreadable one or a wrong passphrase ends it.
Decrypt(t) ==
  /\ pc[t] = "read"
  /\ \/ /\ Readable(file)
        /\ job' = [job EXCEPT ![t].cred = file]
        /\ Goto(t, "warm")
        /\ UNCHANGED locks
     \/ Return(t)
  /\ UNCHANGED <<memory, file, keyring, counts, ghosts>>

\* try_silent_unlock: already unlocked is success at once.  The generation is
\* captured under a lock of its own, after that look.
StartSilent(t) ==
  /\ unlocks < MaxUnlocks
  /\ unlocked = NoLogin
  /\ Begin(t, [Idle EXCEPT !.kind = "silent"], "capture")
  /\ unlocks' = unlocks + 1
  /\ UNCHANGED <<memory, file, keyring, locks, logins, ghosts, batches, crashes>>
Capture(t) ==
  /\ pc[t] = "capture"
  /\ IF UseKeyring /\ file # NoLogin
     THEN /\ job' = [job EXCEPT ![t].gen = generation]
          /\ Goto(t, "load")
          /\ UNCHANGED locks
     ELSE Return(t)
  /\ UNCHANGED <<memory, file, keyring, counts, ghosts>>
\* load_key: a transient error reads as no entry.
LoadKey(t) ==
  /\ pc[t] = "load"
  /\ \/ /\ keyring # NoLogin
        /\ job' = [job EXCEPT ![t].cred = keyring]
        /\ Goto(t, "decrypt")
        /\ UNCHANGED locks
     \/ Return(t)
  /\ UNCHANGED <<memory, file, keyring, counts, ghosts>>
\* The key is bound to the salt, so it opens its own login's file and no other.
DecryptWithKey(t) ==
  /\ pc[t] = "decrypt"
  /\ \/ /\ Readable(file)
        /\ Goto(t, IF file = job[t].cred THEN "warm" ELSE "reload")
        /\ UNCHANGED <<job, locks>>
     \/ Return(t)
  /\ UNCHANGED <<memory, file, keyring, counts, ghosts>>
\* The stale entry is forgotten only if it is still the entry that failed.
Reload(t) ==
  /\ pc[t] = "reload"
  /\ \/ keyring = job[t].cred /\ Goto(t, "decide") /\ UNCHANGED <<job, locks>>
     \/ Return(t)
  /\ UNCHANGED <<memory, file, keyring, counts, ghosts>>

\* wfm_login and wfm_login_with_token: the generation is captured before the
\* user signs in; the window may be closed, time out or be refused.
StartLogin(t) ==
  /\ logins < MaxLogins
  /\ \E i \in Intents :
       Begin(t, [kind |-> "login", gen |-> generation, cred |-> logins + 1, intent |-> i], "window")
  /\ logins' = logins + 1
  /\ UNCHANGED <<memory, file, keyring, locks, ghosts, unlocks, batches, crashes>>
SignedIn(t) ==
  /\ pc[t] = "window"
  /\ \/ Goto(t, "lock") /\ UNCHANGED <<job, locks>>
     \/ Return(t)
  /\ UNCHANGED <<memory, file, keyring, counts, ghosts>>

\* Login and logout both take the credential section; each goes on its own way.
InCredentialSection(t) == IF job[t].kind = "login" THEN "check" ELSE "remove"
LockCredentialFile(t) ==
  /\ pc[t] = "lock"
  /\ credentialFile = Nobody
  /\ credentialFile' = t
  /\ Goto(t, InCredentialSection(t))
  /\ UNCHANGED <<memory, file, keyring, planRunning, job, counts, ghosts>>
CheckLogin(t) ==
  /\ pc[t] = "check"
  /\ IF MayPersist(t) THEN Goto(t, "truncate") /\ UNCHANGED <<job, locks>> ELSE Return(t)
  /\ UNCHANGED <<memory, file, keyring, counts, ghosts>>

\* persist / write_restricted: the file is truncated, then written.
Truncate(t) ==
  /\ pc[t] = "truncate"
  /\ \/ file' = Torn /\ Goto(t, "write") /\ UNCHANGED <<job, locks>>
     \/ file' = file /\ Return(t)
  /\ UNCHANGED <<memory, keyring, counts, ghosts>>
AfterPersist == "warm"
WriteLogin(t) ==
  /\ pc[t] = "write"
  /\ \/ /\ file' = job[t].cred
        /\ credentialFile' = Nobody
        /\ Goto(t, AfterPersist)
        /\ UNCHANGED <<job, planRunning>>
     \/ file' = Torn /\ Return(t)
  /\ UNCHANGED <<memory, keyring, counts, ghosts>>

\* warm_session: the network says yes or the call fails.
Warm(t) ==
  /\ pc[t] = "warm"
  /\ \/ Goto(t, "install") /\ UNCHANGED <<job, locks>>
     \/ Return(t)
  /\ UNCHANGED <<memory, file, keyring, counts, ghosts>>
\* install_unlocked: check and publish in one critical section.
Install(t) ==
  /\ pc[t] = "install"
  /\ IF MayPublish(t)
     THEN /\ unlocked' = job[t].cred
          /\ published' = published \cup {job[t].cred}
          /\ CASE job[t].kind = "unlock" -> Goto(t, "reread") /\ UNCHANGED <<job, locks>>
               [] job[t].kind = "login"  -> Goto(t, "decide") /\ UNCHANGED <<job, locks>>
               [] OTHER                  -> Return(t)
     ELSE /\ Return(t)
          /\ UNCHANGED <<unlocked, published>>
  /\ UNCHANGED <<generation, file, keyring, counts, voided>>
\* The keyring follows an unlock only if the file still has the salt it opened.
Reread(t) ==
  /\ pc[t] = "reread"
  /\ \/ file = job[t].cred /\ Goto(t, "decide") /\ UNCHANGED <<job, locks>>
     \/ Return(t)
  /\ UNCHANGED <<memory, file, keyring, counts, ghosts>>

\* apply_keyring: the generation is checked, then the OS is called.  A failed
\* call leaves the entry as it was.  A key that cannot be derived is not stored.
Decide(t) ==
  /\ pc[t] = "decide"
  /\ \/ UseKeyring /\ MayRemember(t) /\ Goto(t, "keyring") /\ UNCHANGED <<job, locks>>
     \/ /\ ~UseKeyring \/ ~MayRemember(t) \/ (job[t].kind = "login" /\ job[t].intent = "Remember")
        /\ Return(t)
  /\ UNCHANGED <<memory, file, keyring, counts, ghosts>>
Keyring(t) ==
  /\ pc[t] = "keyring"
  /\ keyring' \in {keyring, IF job[t].intent = "Remember" THEN job[t].cred ELSE NoLogin}
  /\ Return(t)
  /\ UNCHANGED <<memory, file, counts, ghosts>>

\* logout: refused while a batch runs, and given up if the interrupted batch or
\* the login file cannot be removed.
StartLogout(t) ==
  /\ generation < MaxLogouts
  /\ PlanGuardFree
  /\ Begin(t, [Idle EXCEPT !.kind = "logout"], "pending")
  /\ planRunning' = t
  /\ UNCHANGED <<memory, file, keyring, credentialFile, counts, ghosts>>
RemovePending(t) ==
  /\ pc[t] = "pending"
  /\ \/ Goto(t, "lock") /\ UNCHANGED <<job, locks>>
     \/ Return(t)
  /\ UNCHANGED <<memory, file, keyring, counts, ghosts>>
RemoveFile(t) ==
  /\ pc[t] = "remove"
  /\ \/ file' = NoLogin /\ Goto(t, "advance") /\ UNCHANGED <<job, locks>>
     \/ file # NoLogin /\ file' = file /\ Return(t)
  /\ UNCHANGED <<memory, keyring, counts, ghosts>>
Advance(t) ==
  /\ pc[t] = "advance"
  /\ generation' = generation + 1
  /\ unlocked' = NoLogin
  /\ voided' = 1 .. logins
  /\ job' = [job EXCEPT ![t].gen = generation + 1]
  /\ credentialFile' = Nobody
  /\ Goto(t, "decide")
  /\ UNCHANGED <<file, keyring, planRunning, counts, published>>

\* A listing batch or a single-order command: the guard, then the account, which
\* it keeps (an Arc) until it returns.
StartBatch(t) ==
  /\ batches < MaxBatches
  /\ PlanGuardFree
  /\ Begin(t, [Idle EXCEPT !.kind = "batch"], "account")
  /\ planRunning' = t
  /\ batches' = batches + 1
  /\ UNCHANGED <<memory, file, keyring, credentialFile, logins, ghosts, unlocks, crashes>>
RequireUnlocked(t) ==
  /\ pc[t] = "account"
  /\ IF unlocked # NoLogin
     THEN job' = [job EXCEPT ![t].cred = unlocked] /\ Goto(t, "run") /\ UNCHANGED locks
     ELSE Return(t)
  /\ UNCHANGED <<memory, file, keyring, counts, ghosts>>
EndBatch(t) ==
  /\ pc[t] = "run"
  /\ Return(t)
  /\ UNCHANGED <<memory, file, keyring, counts, ghosts>>

\* The process dies: memory and tasks go, the file and the keyring stay.
Crash ==
  /\ crashes < MaxCrashes
  /\ crashes' = crashes + 1
  /\ generation' = 0 /\ unlocked' = NoLogin
  /\ credentialFile' = Nobody /\ planRunning' = Nobody
  /\ pc' = [t \in Tasks |-> "idle"]
  /\ job' = [t \in Tasks |-> Idle]
  /\ UNCHANGED <<file, keyring, logins, ghosts, unlocks, batches>>

---------------------------------------------------------------------------
Start(t) == StartUnlock(t) \/ StartSilent(t) \/ StartLogin(t) \/ StartLogout(t) \/ StartBatch(t)
Continue(t) ==
  \/ Decrypt(t) \/ Capture(t) \/ LoadKey(t) \/ DecryptWithKey(t) \/ Reload(t) \/ SignedIn(t)
  \/ LockCredentialFile(t) \/ CheckLogin(t) \/ Truncate(t) \/ WriteLogin(t) \/ Warm(t)
  \/ Install(t) \/ Reread(t) \/ Decide(t) \/ Keyring(t) \/ RemovePending(t) \/ RemoveFile(t)
  \/ Advance(t) \/ RequireUnlocked(t) \/ EndBatch(t)
Next == Crash \/ \E t \in Tasks : Start(t) \/ Continue(t)
Spec == Init /\ [][Next]_vars

\* Every network call of a task has a time limit and the sign-in window gives up
\* after a quarter of an hour, so a started command takes its next step; a mutex
\* that keeps being released is not withheld from one waiter for ever.
Fairness == \A t \in Tasks : WF_vars(Continue(t)) /\ SF_vars(LockCredentialFile(t))
LiveSpec == Spec /\ Fairness

---------------------------------------------------------------------------
TypeOK ==
  /\ generation \in Nat
  /\ unlocked \in Logins \cup {NoLogin}
  /\ file \in Logins \cup {NoLogin, Torn}
  /\ keyring \in Logins \cup {NoLogin}
  /\ credentialFile \in Tasks \cup {Nobody}
  /\ planRunning \in Tasks \cup {Nobody}
  /\ pc \in [Tasks -> Steps]
  /\ job \in [Tasks -> Job]
  /\ logins \in 0 .. MaxLogins
  /\ voided \subseteq Logins /\ published \subseteq Logins
  /\ unlocks \in 0 .. MaxUnlocks /\ batches \in 0 .. MaxBatches /\ crashes \in 0 .. MaxCrashes

\* Logout wins: a sign-in begun before a logout took effect is never unlocked
\* again and its login file never returns, whatever unlock, silent unlock or
\* sign-in was under way, and whenever the process restarts.
LogoutWins == unlocked \notin voided /\ file \notin voided

\* A device key is kept only for an account that was actually opened: a sign-in
\* or an unlock that the network refused leaves nothing in the keyring.
RememberedOnlyIfOpened == keyring # NoLogin => keyring \in published

\* A batch never trades for an account that has been logged out under it.
BatchAccountStands == \A t \in Tasks : pc[t] = "run" => job[t].cred \notin voided

\* The comment in unlock: "neither may overwrite the newer sign-in's keyring
\* entry".  An unlock's keyring change leaves a later sign-in's entry alone.
NewerEntryKept ==
  [][\A t \in Tasks :
       pc[t] = "keyring" /\ pc'[t] = "idle" /\ job[t].kind = "unlock" /\ crashes' = crashes
         /\ keyring # NoLogin /\ file = keyring
         => keyring' = keyring \/ job[t].cred = keyring]_vars

\* Every command returns, and the locks it took are free again.
Returns == \A t \in Tasks : []<>(pc[t] = "idle")
=============================================================================
