----------------------------- MODULE Definitions -----------------------------
(***************************************************************************)
(* The patterns of the memory scan and of the reward overlay: compiled in, *)
(* or taken at a start from definitions.json, a signed file of the site    *)
(* that is kept with its entity tag for the starts without a network.      *)
(***************************************************************************)
EXTENDS Naturals

CONSTANTS MaxDefinitions, \* bound: versions the site makes
          MaxFaults       \* bound: refused writes and removals
VARIABLES
  pushed, quality,  \* what the site serves: its number, and clean, partly or unsigned
  draft, draftTag,  \* definitions.json and definitions.etag
  held,       \* what this build finds in the file: clean, partly or unsigned
  starting,   \* refresh_and_install of this run of the program
  fetched,    \* the definitions it fetched, 0 for none
  installed,  \* the patterns in force, 0 for the compiled-in ones
  lost,       \* history: versions whose body could not be written, or was removed and its
              \* tag was not
  faults

vars == <<pushed, quality, draft, draftTag, held, starting, fetched, installed, lost, faults>>
Qualities == {"clean", "partly", "unsigned"}

Init ==
  /\ pushed = 0 /\ quality = "clean" /\ draft = 0 /\ draftTag = 0 /\ held = "clean"
  /\ starting = "fetch" /\ fetched = 0 /\ installed = 0 /\ lost = {} /\ faults = 0

Fault == faults < MaxFaults /\ faults' = faults + 1

\* Once a start.  A body that compiles in part is used for this
\* run only; one without a good signature not at all.
Push ==
  /\ pushed < MaxDefinitions /\ pushed' = pushed + 1
  /\ quality' \in Qualities
  /\ UNCHANGED <<draft, draftTag, held, starting, fetched, installed, lost, faults>>

DFetch ==
  /\ starting = "fetch"
  /\ \/ starting' = "cached" /\ UNCHANGED fetched
     \/ /\ pushed \notin {0, draftTag} /\ quality # "unsigned" /\ fetched' = pushed
        /\ starting' = IF quality = "clean" THEN "body" ELSE "install"
  /\ UNCHANGED <<pushed, quality, draft, draftTag, held, installed, lost, faults>>
\* Both writes are best effort: the tag is written whether the body was or not.
DWrite ==
  /\ \/ /\ starting = "body" /\ starting' = "tag" /\ UNCHANGED draftTag
        /\ \/ draft' = fetched /\ held' = "clean" /\ lost' = lost \ {fetched} /\ UNCHANGED faults
           \/ Fault /\ lost' = lost \cup {fetched} /\ UNCHANGED <<draft, held>>
     \/ /\ starting = "tag" /\ starting' = "install" /\ UNCHANGED <<draft, held, lost>>
        /\ \/ draftTag' \in {fetched, 0} /\ UNCHANGED faults
           \/ Fault /\ UNCHANGED draftTag
  /\ UNCHANGED <<pushed, quality, fetched, installed>>
\* The cached file is verified on every read, and dropped if it fails; one that no
\* longer compiles cleanly is installed once more and dropped.
DCached ==
  /\ starting = "cached"
  /\ \/ draft = 0 /\ starting' = "done" /\ UNCHANGED installed
     \/ draft # 0 /\ held = "clean" /\ starting' = "done" /\ installed' = draft
     \/ draft # 0 /\ held = "partly" /\ starting' = "drop" /\ installed' = draft
     \/ draft # 0 /\ held = "unsigned" /\ starting' = "drop" /\ UNCHANGED installed
  /\ UNCHANGED <<pushed, quality, draft, draftTag, held, fetched, lost, faults>>
\* reset_cache removes the body and then its tag; a refused removal is not looked at.
TagDropped == starting' = "done" /\ draftTag' = 0 /\ UNCHANGED <<lost, faults>>
TagLeft == starting' = "done" /\ Fault /\ lost' = lost \cup {draftTag} /\ UNCHANGED draftTag
Reset ==
  /\ \/ /\ starting = "drop" /\ starting' = "untag" /\ UNCHANGED <<draftTag, lost>>
        /\ \/ draft' = 0 /\ UNCHANGED faults
           \/ Fault /\ UNCHANGED draft
     \/ starting = "untag" /\ (TagDropped \/ TagLeft) /\ UNCHANGED draft
  /\ UNCHANGED <<pushed, quality, held, fetched, installed>>
Install ==
  /\ starting = "install" /\ starting' = "done" /\ installed' = fetched
  /\ UNCHANGED <<pushed, quality, draft, draftTag, held, fetched, lost, faults>>

----------------------------------------------------------------------------
\* The program ends, anywhere, and starts again, perhaps as a newer build that
\* judges the file by other keys and by another pattern compiler.
Restart ==
  /\ starting' = "fetch" /\ fetched' = 0 /\ installed' = 0 /\ held' \in Qualities
  \* A removal that was not finished leaves the tag of a file that is gone.
  /\ lost' = IF starting = "untag" THEN lost \cup {draftTag} ELSE lost
  /\ UNCHANGED <<pushed, quality, draft, draftTag, faults>>

Next == Push \/ DFetch \/ DWrite \/ DCached \/ Reset \/ Install \/ Restart
Spec == Init /\ [][Next]_vars

TypeOK ==
  /\ {pushed, draft, draftTag, fetched, installed} \cup lost \subseteq 0 .. MaxDefinitions
  /\ {quality, held} \subseteq Qualities /\ faults \in 0 .. MaxFaults
  /\ starting \in {"fetch", "cached", "body", "tag", "install", "drop", "untag", "done"}

(* A "not modified" hides no definition from the starts to come but one: a    *)
(* tag on disk belongs to the file beside it or to an older one, over crashes *)
(* and dropped files, unless it is the tag of the very version whose body the *)
(* disk refused, or removed without the tag.  (fetch() writes the tag although *)
(* the body's write failed; then that version stays hidden until the next.)   *)
TagNamesTheDraft ==
  draftTag \notin lost \cup {0} /\ starting # "untag" => draft # 0 /\ draft >= draftTag
=============================================================================
