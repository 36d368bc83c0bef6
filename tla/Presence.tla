------------------------------ MODULE Presence ------------------------------
(***************************************************************************)
(* The user's status on warframe.market.  One thread owns the status        *)
(* channel: it takes commands from a queue, looks for the game, decides     *)
(* what the program keeps up (Brain), sends it and hears from the server.   *)
(* The server, the website, the session, the access policy and the game all *)
(* move on their own.                                                       *)
(*                                                                          *)
(* Time is left out: a renewal is due now or not, a look for the game takes *)
(* place in a turn or not.  There is one account, and the server numbers    *)
(* its changes and answers a change before it announces it.                 *)
(***************************************************************************)
EXTENDS Naturals, Sequences, SequencesExt

CONSTANTS
  UserSettings, \* the settings a user may choose among
  MaxEvents,   \* bound: commands of the user, renewals falling due, starts and lines of
               \* the game, and upsets (changes on the website, expiries, refusals, drops,
               \* pauses, sign-outs, crashes of the program), together
  None

Statuses == {"online", "ingame", "invisible"}
Settings == [follow : BOOLEAN, closed : {"online", "invisible"}, timed : BOOLEAN]

VARIABLES
  queue,          \* commands given and not yet handled
  brain, ended,   \* Brain, and the process GameWatch takes to have ended
  phase,          \* where the thread is
  todo,           \* sends decided on connecting
  pending,        \* changes sent and not yet answered, with the call that waits
  socket,         \* the session the socket is for, and the number of its last message
  own,            \* own_revision
  refusedGen,     \* the session whose sign-in was refused
  answers,        \* what each set() was told
  wire, inbox,    \* messages under way to the server, frames under way to the socket
  stray,          \* messages of sockets that are gone, which the server may still take
  market,         \* the status the server holds: how long, by whose hand, its revision
  signedIn, gen,  \* the account session and its generation
  paused,         \* the access policy pauses WebSockets
  pid, said,      \* the game's process, and what it wrote to its log
  misheard,       \* a change of the program's own was taken for one made elsewhere
  events          \* how many so far

loop  == <<brain, ended, phase, todo, pending, socket, own, refusedGen>>
net   == <<wire, inbox, stray>>
world == <<signedIn, gen, paused, pid, said>>
vars  == <<queue, loop, answers, net, market, world, misheard, events>>

Init ==
  /\ queue = <<>> /\ ended = None /\ phase = "offline" /\ todo = <<>> /\ pending = <<>>
  /\ \E s \in UserSettings :
       brain = [set |-> s, game |-> FALSE, paused |-> FALSE, keeps |-> None, due |-> FALSE,
                over |-> FALSE]
  /\ socket = [gen |-> 0, id |-> 0] /\ own = 0 /\ refusedGen = None
  /\ answers = [c \in 1 .. MaxEvents |-> "none"]
  /\ wire = <<>> /\ inbox = <<>> /\ stray = <<>>
  /\ market = [status |-> "invisible", keep |-> "none", by |-> "start", rev |-> 1]
  /\ signedIn = TRUE /\ gen = 1 /\ paused = FALSE /\ pid = None /\ said = "none"
  /\ misheard = FALSE
  /\ events = 0

Event == events < MaxEvents /\ events' = events + 1
Upset == Event

---------------------------------------------------------------------------
\* Brain: each decision gives the brain after it and what to send, if anything.  Its
\* field "over" is history: the website has changed what was kept up since it was asked.
Change(status, keep, why) == [status |-> status, keep |-> keep, why |-> why]
Quiet(b) == [brain |-> b, send |-> <<>>]
Maintain(b, s, why) ==
  [brain |-> [b EXCEPT !.keeps = s, !.due = FALSE, !.over = @ /\ why # "asked"],
   send |-> <<Change(s, "managed", why)>>]
Release(b, s, keep) ==
  [brain |-> [b EXCEPT !.keeps = None, !.due = FALSE, !.over = FALSE],
   send |-> <<Change(s, keep, "asked")>>]
Following(b) == b.set.follow /\ ~b.paused

Game(b, running) ==
  LET g == [b EXCEPT !.game = running]
      resumed == [g EXCEPT !.paused = FALSE]
  IN IF running = b.game THEN Quiet(b)
     ELSE IF running THEN IF Following(resumed) THEN Maintain(resumed, "ingame", "asked")
                          ELSE Quiet(resumed)
     ELSE IF ~Following(g) THEN Quiet(g)
     ELSE IF g.set.closed = "online" THEN Maintain(g, "online", "asked")
     ELSE Release(g, "invisible", "none")
Manual(b, s) ==
  LET m == [b EXCEPT !.paused = @ \/ b.set.follow]
  IN IF s = "invisible" THEN Release(m, s, "none")
     ELSE IF b.set.timed THEN Release(m, s, "timed")
     ELSE Maintain(m, s, "asked")
FollowNow(b) ==
  LET f == [b EXCEPT !.paused = FALSE]
  IN IF f.set.follow /\ f.game THEN Maintain(f, "ingame", "asked") ELSE Quiet(f)
SettingsChanged(b, s) ==
  LET c == [b EXCEPT !.set = s, !.paused = @ /\ s.follow]
  IN IF ~Following(b) /\ Following(c) /\ c.game THEN Maintain(c, "ingame", "asked")
     ELSE Quiet(c)
Refused(b) == [b EXCEPT !.keeps = None, !.due = FALSE, !.over = FALSE]
ExternalChange(b) == [Refused(b) EXCEPT !.paused = @ \/ b.set.follow]
Due(b) == IF b.keeps # None /\ b.due THEN Maintain(b, b.keeps, "renew") ELSE Quiet(b)
Bug_NoReassert(b) == Quiet(b)
Reconnected(b) == IF b.keeps # None THEN Maintain(b, b.keeps, "reconnect") ELSE Quiet(b)
Leaving(b) == IF b.keeps # None THEN Release(b, "invisible", "none") ELSE Quiet(b)

\* GameWatch, and what the thread works on in one turn.
Now(process, over) == process # None /\ process # over
Told(process, over) == IF process = None THEN None ELSE over
After(l, step, call) ==
  [l EXCEPT !.brain = step.brain,
            !.out = @ \o [i \in 1 .. Len(step.send) |-> [change |-> step.send[i], call |-> call]]]
Look(l) ==
  After([l EXCEPT !.ended = Told(pid, @)], Game(l.brain, Now(pid, l.ended)), None)
GameLine(l, started) ==
  LET over == IF started THEN None ELSE pid
  IN After([l EXCEPT !.ended = Told(pid, over), !.looked = TRUE],
           Game(l.brain, Now(pid, over)), None)
\* Loop::handle.
Handle(l, c) ==
  CASE c.kind = "set"      -> After(l, Manual(l.brain, c.status), c.call)
    [] c.kind = "follow"   -> After(l, FollowNow(l.brain), None)
    [] c.kind = "settings" -> After(l, SettingsChanged(l.brain, c.set), None)
    [] c.kind = "line"     -> GameLine(l, c.started)
    [] c.kind = "quit"     -> [After(l, Leaving(l.brain), None) EXCEPT !.quit = TRUE]
Begin == [brain |-> brain, ended |-> ended, out |-> todo, looked |-> FALSE, quit |-> FALSE]
MayLook(l) == {l} \cup IF l.looked THEN {} ELSE {Look(l)}
Calls(sends) == {sends[i].call : i \in 1 .. Len(sends)} \ {None}
Tell(calls, word) ==
  answers' = [c \in DOMAIN answers |->
                IF c \in calls /\ answers[c] = "wait" THEN word ELSE answers[c]]

---------------------------------------------------------------------------
\* Without a socket: one command, a look for the game, and an attempt to connect.
Idle == MayLook(IF queue = <<>> THEN Begin ELSE Handle(Begin, Head(queue)))
Offline(l) ==
  /\ phase = "offline"
  /\ queue' = IF queue = <<>> THEN queue ELSE Tail(queue)
  /\ brain' = l.brain /\ ended' = l.ended
  /\ Tell(Calls(l.out), "failed")
  /\ UNCHANGED <<todo, pending, own, refusedGen, inbox, market, world, misheard, events>>
Wait ==
  \E l \in Idle :
    /\ Offline(l)
    /\ phase' = IF l.quit THEN "gone" ELSE "offline"
    /\ UNCHANGED <<socket, wire, stray>>
\* PresenceSocket::connect: a new socket numbers its own messages, and hears no answer to
\* those of the last one.
Try ==
  \E l \in Idle :
    /\ Offline(l) /\ ~l.quit
    /\ signedIn /\ ~paused /\ refusedGen # gen
    /\ phase' = "connecting" /\ socket' = [gen |-> gen, id |-> 1]
    /\ wire' = <<>> /\ stray' = stray \o wire

Bug_OwnForgotten(rev) == own
OwnAfterSet(rev) == IF own < rev THEN rev ELSE own
\* The sign-in is answered with the current status, as a rule in time.
Connect ==
  /\ phase = "connecting"
  /\ phase' = "turn"
  /\ LET l == After(Begin, Reconnected(brain), None) IN
     \E m \in MayLook(l) : brain' = m.brain /\ ended' = m.ended /\ todo' = m.out
  /\ \/ own' = OwnAfterSet(market.rev) /\ inbox' = <<>>
        /\ UNCHANGED events
     \/ Upset /\ UNCHANGED own
        /\ inbox' = <<[kind |-> "first", rev |-> market.rev, own |-> FALSE]>>
  /\ UNCHANGED <<queue, pending, socket, refusedGen, answers, wire, stray, market, world, misheard>>
Unavailable ==
  /\ phase = "connecting" /\ Upset
  /\ phase' = "offline"
  /\ refusedGen' \in {refusedGen, socket.gen}
  /\ UNCHANGED <<queue, brain, ended, todo, pending, socket, own, answers, net, market, world,
                 misheard>>

---------------------------------------------------------------------------
\* With a socket: every command, a look, a renewal; then what was decided is sent.
SignedOut == ~signedIn \/ gen # socket.gen
Drained ==
  LET after[i \in 0 .. Len(queue)] == IF i = 0 THEN Begin ELSE Handle(after[i - 1], queue[i])
  IN after[Len(queue)]
Decided(look) ==
  LET looked == IF look THEN Look(Drained) ELSE Drained
      renewed == After(looked, Due(looked.brain), None)
  IN IF SignedOut THEN After(renewed, Leaving(renewed.brain), None) ELSE renewed
Lines == \E i \in 1 .. Len(queue) : queue[i].kind = "line"
Message(send, n) ==
  [id |-> socket.id + n, change |-> send.change, call |-> send.call, knew |-> own]
\* The first k sends get through; a pause stops them all.
Sent(l, k) ==
  /\ wire' = wire \o [i \in 1 .. k |-> Message(l.out[i], i)]
  /\ pending' = pending \o [i \in 1 .. k |-> [id |-> socket.id + i, call |-> l.out[i].call]]
  /\ socket' = [socket EXCEPT !.id = @ + k]
  /\ brain' = IF k < Len(l.out) THEN Refused(l.brain) ELSE l.brain
  /\ Tell(Calls(SubSeq(l.out, k + 1, Len(l.out))), "failed")
Turn ==
  /\ phase = "turn"
  /\ \E look \in {FALSE, ~Lines} :
       LET l == Decided(look) IN
        /\ ended' = l.ended
        /\ \E k \in 0 .. Len(l.out) :
             /\ Sent(l, k)
             /\ IF paused THEN k = 0 /\ UNCHANGED events
                ELSE IF k = Len(l.out) THEN UNCHANGED events ELSE Upset
        /\ phase' = IF l.quit THEN "quitting"
                    ELSE IF SignedOut THEN "leaving"
                    ELSE IF paused THEN "offline" ELSE "poll"
        /\ inbox' = IF phase' = "offline" THEN <<>> ELSE inbox
  /\ queue' = <<>> /\ todo' = <<>>
  /\ UNCHANGED <<own, refusedGen, stray, market, world, misheard>>

\* take_pending.
Takes(id) == SelectInSeq(pending, LAMBDA p : p.id = id)
Take(id, word) ==
  IF Takes(id) = 0 THEN UNCHANGED <<pending, answers>>
  ELSE pending' = RemoveAt(pending, Takes(id)) /\ Tell({pending[Takes(id)].call}, word)
Polling == phase \in {"poll", "quitting", "leaving"}
Hears(kinds) ==
  /\ Polling /\ inbox # <<>> /\ Head(inbox).kind \in kinds
  /\ phase = "poll" \/ pending # <<>>
  /\ inbox' = Tail(inbox)
  /\ phase' = IF phase = "poll" THEN "turn" ELSE phase
  /\ UNCHANGED <<queue, ended, todo, socket, refusedGen, wire, stray, market, world, events>>
Frame == Head(inbox)
StatusSet ==
  /\ Hears({"ok"})
  /\ own' = OwnAfterSet(Frame.rev) /\ Take(Frame.id, "done")
  /\ UNCHANGED <<brain, misheard>>
StatusRefused ==
  /\ Hears({"no"})
  /\ brain' = Refused(brain) /\ Take(Frame.id, "refused")
  /\ UNCHANGED <<own, misheard>>
StatusChanged ==
  /\ Hears({"changed", "first"})
  /\ IF Frame.rev > own
     THEN /\ brain' = ExternalChange(brain) /\ own' = Frame.rev
          /\ misheard' = (misheard \/ Frame.own)
     ELSE UNCHANGED <<brain, own, misheard>>
  /\ UNCHANGED <<pending, answers>>
Silence ==
  /\ phase = "poll" /\ inbox = <<>>
  /\ phase' = "turn"
  /\ \/ UNCHANGED <<pending, answers, events>>
     \/ /\ pending # <<>> /\ Upset \* expire_pending
        /\ pending' = Tail(pending) /\ Tell({Head(pending).call}, "failed")
  /\ UNCHANGED <<queue, brain, ended, todo, socket, own, refusedGen, net, market, world, misheard>>
\* The socket fails: what was under way may be lost, or reach the server all the same.
Dropped ==
  /\ phase = "poll" /\ Upset
  /\ phase' = "offline" /\ inbox' = <<>> /\ wire' \in {wire, <<>>}
  /\ pending' = <<>> /\ Tell(Calls(pending), "failed")
  /\ UNCHANGED <<queue, brain, ended, todo, socket, own, refusedGen, stray, market, world, misheard>>
Closed ==
  /\ phase \in {"quitting", "leaving"}
  /\ phase' = IF phase = "quitting" THEN "gone" ELSE "offline"
  /\ inbox' = <<>>
  /\ UNCHANGED <<queue, brain, ended, todo, pending, socket, own, refusedGen, answers, wire,
                 stray, market, world, misheard, events>>

---------------------------------------------------------------------------
\* The server.
Connected == phase \in {"turn", "poll", "quitting", "leaving"}
Frames(fs) == inbox' = IF Connected THEN inbox \o fs ELSE inbox
\* The socket's own change is the one it has an answer to before it.
Announce(status, keep, by, before) ==
  /\ market' = [status |-> status, keep |-> keep, by |-> by, rev |-> market.rev + 1]
  /\ Frames(before \o <<[kind |-> "changed", rev |-> market'.rev, own |-> before # <<>>]>>)
Commit ==
  /\ wire # <<>>
  /\ LET m == Head(wire) IN
     Announce(m.change.status, m.change.keep, "app",
              <<[kind |-> "ok", id |-> m.id, rev |-> market.rev + 1]>>)
  /\ wire' = Tail(wire)
  /\ UNCHANGED <<queue, loop, answers, stray, world, misheard, events>>
Refuse ==
  /\ wire # <<>> /\ Upset
  /\ wire' = Tail(wire)
  /\ \E id \in {Head(wire).id, None} : Frames(<<[kind |-> "no", id |-> id]>>)
  /\ UNCHANGED <<queue, loop, answers, stray, market, world, misheard>>
\* A message of a socket that is gone: the change is announced to the socket there is now,
\* and answered to nobody.
CommitStray ==
  /\ stray # <<>>
  /\ LET m == Head(stray) IN Announce(m.change.status, m.change.keep, "app", <<>>)
  /\ stray' = Tail(stray)
  /\ UNCHANGED <<queue, loop, answers, wire, world, misheard, events>>
RefuseStray ==
  /\ stray # <<>> /\ Upset
  /\ stray' = Tail(stray)
  /\ UNCHANGED <<queue, loop, answers, wire, inbox, market, world, misheard>>
Website ==
  /\ Upset
  /\ \E s \in {"online", "invisible"} : Announce(s, "none", "site", <<>>)
  /\ brain' = [brain EXCEPT !.over = @ \/ (brain.keeps # None /\ market.by = "app")]
  /\ UNCHANGED <<queue, ended, phase, todo, pending, socket, own, refusedGen, answers, wire, stray,
                 world, misheard>>
\* What is kept up ends only when it is not renewed.
Expire ==
  /\ market.keep = "timed" \/ (market.keep = "managed" /\ ~Connected)
  /\ Upset
  /\ Announce("invisible", "none", "expiry", <<>>)
  /\ UNCHANGED <<queue, loop, answers, wire, stray, world, misheard>>

---------------------------------------------------------------------------
\* The user, until the program is told to exit.
Leaves == \E i \in 1 .. Len(queue) : queue[i].kind = "quit"
Ask(command) ==
  /\ phase \notin {"quitting", "gone"} /\ ~Leaves /\ Event
  /\ queue' = Append(queue, command)
  /\ UNCHANGED <<loop, net, market, world, misheard>>
Pick ==
  /\ Connected
  /\ \E s \in Statuses : Ask([kind |-> "set", status |-> s, call |-> events'])
  /\ answers' = [answers EXCEPT ![events'] = "wait"]
FollowGameNow == Ask([kind |-> "follow"]) /\ UNCHANGED answers
Set == \E s \in UserSettings : Ask([kind |-> "settings", set |-> s]) /\ UNCHANGED answers
Quit == Ask([kind |-> "quit"]) /\ UNCHANGED answers
SignOut ==
  /\ signedIn /\ Upset
  /\ signedIn' = FALSE /\ gen' = gen + 1
  /\ UNCHANGED <<queue, loop, answers, net, market, paused, pid, said, misheard>>
SignIn ==
  /\ ~signedIn
  /\ signedIn' = TRUE /\ gen' = gen + 1
  /\ UNCHANGED <<queue, loop, answers, net, market, paused, pid, said, misheard, events>>
Pause ==
  /\ ~paused /\ Upset
  /\ paused' = TRUE
  /\ UNCHANGED <<queue, loop, answers, net, market, signedIn, gen, pid, said, misheard>>
Resume ==
  /\ paused
  /\ paused' = FALSE
  /\ UNCHANGED <<queue, loop, answers, net, market, signedIn, gen, pid, said, misheard, events>>

\* The game starts, logs in, says it shuts down, and ends, with or without saying so.
Elsewhere == UNCHANGED <<loop, answers, net, market, signedIn, gen, paused, misheard>>
GameStarts ==
  /\ pid = None /\ Event
  /\ pid' = events' /\ said' = "none"
  /\ UNCHANGED queue /\ Elsewhere
GameSays ==
  /\ pid # None /\ said # "out" /\ Event
  /\ said' = IF said = "none" THEN "in" ELSE "out"
  /\ queue' = Append(queue, [kind |-> "line", started |-> said = "none"])
  /\ UNCHANGED pid /\ Elsewhere
GameEnds ==
  /\ pid # None /\ pid' = None
  /\ UNCHANGED <<queue, said, events>> /\ Elsewhere
\* RENEW_EVERY has passed since the last send; what was sent has been answered.
RenewalDue ==
  /\ brain.keeps # None /\ ~brain.due /\ Event
  /\ todo = <<>> /\ wire = <<>> /\ inbox = <<>> /\ stray = <<>>
  /\ brain' = [brain EXCEPT !.due = TRUE]
  /\ UNCHANGED <<queue, ended, phase, todo, pending, socket, own, refusedGen, answers, net, market,
                 world, misheard>>
Crash ==
  /\ phase # "gone" /\ Upset
  /\ phase' = "gone"
  /\ UNCHANGED <<queue, brain, ended, todo, pending, socket, own, refusedGen, answers, net, market,
                 world, misheard>>

Thread == Wait \/ Try \/ Connect \/ Unavailable \/ Turn
          \/ StatusSet \/ StatusRefused \/ StatusChanged \/ Silence \/ Dropped \/ Closed
Server == Commit \/ Refuse \/ CommitStray \/ RefuseStray \/ Website \/ Expire
User == Pick \/ FollowGameNow \/ Set \/ Quit \/ SignOut \/ SignIn \/ Pause \/ Resume
Outside == GameStarts \/ GameSays \/ GameEnds \/ RenewalDue \/ Crash
Next == Thread \/ Server \/ User \/ Outside
Spec == Init /\ [][Next]_vars
\* The thread goes on from wherever it is, backs off for a time only, and the server
\* takes what it was sent.
Phases == {"offline", "connecting", "turn", "poll", "quitting", "leaving", "gone"}
Moves == phase \notin {"offline", "gone"} /\ phase' \in Phases
Tries == phase = "offline" /\ signedIn /\ ~paused /\ refusedGen # gen /\ phase' = "connecting"
LiveSpec == Spec /\ WF_phase(Moves) /\ WF_phase(Tries) /\ WF_vars(Commit)

---------------------------------------------------------------------------
Brains == [set : UserSettings, game : BOOLEAN, paused : BOOLEAN, keeps : Statuses \cup {None},
           due : BOOLEAN, over : BOOLEAN]
TypeOK ==
  /\ brain \in Brains /\ ended \in 1 .. MaxEvents \cup {None}
  /\ phase \in Phases
  /\ own <= market.rev
  /\ \A c \in DOMAIN answers : answers[c] \in {"none", "wait", "done", "refused", "failed"}

\* A change made over the socket that is open is never taken for one made elsewhere,
\* whatever arrives between its answer and its announcement and whatever the sockets
\* before it left under way.  (One made over a socket that is gone may be: its answer goes
\* to nobody, and the socket there is now hears the announcement alone.)
OwnChangeKept == ~misheard

\* While the game is followed and running, no other status is kept up.
FollowsInGame == Following(brain) /\ brain.game => brain.keeps \in {"ingame", None}

\* "A change the app did not make wins": what the program sends of its own accord
\* overrules a change made on the website only if the program had not heard of it.
Overrules(m) ==
  market' # market /\ m.change.why = "renew" /\ market.by = "site" /\ m.knew >= market.rev
RenewalYields ==
  [][/\ wire # <<>> /\ wire' = Tail(wire) => ~Overrules(Head(wire))
     /\ stray # <<>> /\ stray' = Tail(stray) => ~Overrules(Head(stray))]_vars

\* "A change the app did not make wins: it stops what the app was keeping up": also a
\* change made while the socket was down, which the sign-in tells of.
SiteChangeStands ==
  [][brain.over /\ phase = "connecting" /\ phase' = "turn" =>
       \A i \in 1 .. Len(todo') : todo'[i].change.why # "reconnect"]_vars

\* What the program keeps up is what the market shows in the end.
Shown == market.status = brain.keeps /\ market.keep = "managed"
Cut == phase = "gone" \/ ~signedIn \/ paused \/ refusedGen = gen
KeptUpIsShown == []<>(brain.keeps = None \/ Shown \/ Cut)
=============================================================================
