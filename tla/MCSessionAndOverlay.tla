------------------------- MODULE MCSessionAndOverlay -------------------------
(* One run for two components that share nothing: `part` says whether the   *)
(* behaviour is one of the account session or one of the overlay.           *)
EXTENDS WfmSession

CONSTANTS NoCard, MaxCards, MaxScreens, MaxSlots, MaxEvents

VARIABLES part, game, unread, marker, expected, enabled, busy, current, result, card,
  passes, jobs, cards, timers, hiding, note, gen, noter, notices, asleep, waking, lowering,
  late, lates, clicks

O == INSTANCE Overlay WITH None <- NoCard, pc <- passes, job <- jobs
ovars == <<game, unread, marker, expected, enabled, busy, current, result, card,
  passes, jobs, cards, timers, hiding, note, gen, noter, notices, asleep, waking, lowering,
  late, lates, clicks>>
all == <<part, vars, ovars>>

BothInit == part \in {"session", "overlay"} /\ Init /\ O!Init
SessionMoves == part = "session" /\ Next   /\ UNCHANGED <<part, ovars>>
OverlayMoves == part = "overlay" /\ O!Next /\ UNCHANGED <<part, vars>>
Overlays(A) == part = "overlay" /\ A
BothSpec ==
  /\ BothInit /\ [][SessionMoves \/ OverlayMoves]_all
  /\ \A t \in Tasks : /\ WF_vars(part = "session" /\ Continue(t))
                       /\ SF_vars(part = "session" /\ LockCredentialFile(t))
  /\ WF_ovars(Overlays(O!Pass)) /\ WF_ovars(Overlays(O!Work("user")))
  /\ WF_ovars(Overlays(O!Appears)) /\ WF_ovars(Overlays(O!Delivery))
  /\ WF_ovars(Overlays(O!LogLine))
  /\ \A h \in O!Hiders : WF_ovars(Overlays(O!Hide(h)))
  /\ \A i \in O!Ids : WF_ovars(Overlays(O!Timer(i)))
  /\ WF_ovars(Overlays(\E g \in O!Gens : O!NoticeTimer(g)))

\* The properties of Overlay, under the names the module states them.
PassesEnd       == O!PassesEnd
NoticeComesDown == O!NoticeComesDown
=============================================================================
