----------------------- MODULE MCPublicationAndClients -----------------------
(* One run for four components that share nothing here but the site that    *)
(* two of them read: `part` says whether the behaviour is one of the        *)
(* publisher's store, of the desktop's market snapshot, of its definitions  *)
(* or of its presence loop.                                                 *)
EXTENDS Publication, Clients

CONSTANTS a1, m1, short, r1, r2, n1

\* The one content ends between the two readings of the clock.
EndsAt == [c \in Contents |-> 2]

VARIABLE part

\* Following the game and Online afterwards, or neither and a status kept for a time.
Chosen == {[follow |-> TRUE, closed |-> "online", timed |-> FALSE],
           [follow |-> FALSE, closed |-> "invisible", timed |-> FALSE]}
all == <<part, vars, avars, dvars, pvars>>

AllInit == /\ part \in {"publication", "snapshot", "definitions", "presence"}
           /\ Init /\ A!Init /\ D!Init /\ P!Init
           /\ part # "presence" => brain.set = CHOOSE s \in Chosen : TRUE
PublisherMoves   == part = "publication" /\ Next   /\ UNCHANGED <<part, avars, dvars, pvars>>
SnapshotMoves    == part = "snapshot"    /\ A!Next /\ UNCHANGED <<part, vars, dvars, pvars>>
DefinitionsMoves == part = "definitions" /\ D!Next /\ UNCHANGED <<part, vars, avars, pvars>>
PresenceMoves    == part = "presence"    /\ P!Next /\ UNCHANGED <<part, vars, avars, dvars>>
AllSpec ==
  /\ AllInit /\ [][PublisherMoves \/ SnapshotMoves \/ DefinitionsMoves \/ PresenceMoves]_all
  /\ WF_vars(part = "publication" /\ Service)
  /\ WF_phase(part = "presence" /\ P!Moves)
  /\ WF_phase(part = "presence" /\ P!Tries)
  /\ WF_pvars(part = "presence" /\ P!Commit)

\* Under the name Presence states it by.
KeptUpIsShown == P!KeptUpIsShown
=============================================================================
