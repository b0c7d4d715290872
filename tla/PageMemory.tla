----------------------------- MODULE PageMemory -----------------------------
(***************************************************************************)
(* The requests page next to what its user remembers of it: which details  *)
(* he opened and has not closed.  `opened` is a history variable; the page *)
(* of module Page does what it does without it.                            *)
(***************************************************************************)
EXTENDS Page

VARIABLE opened     \* history: cards whose last click opened them

MemoryInit == PageInit /\ opened = {}

MemoryNext ==
    \/ \E id \in Ids : ToggleOpen(id) /\ opened' = opened \cup {id}
    \/ \E id \in Ids : ToggleClosed(id) /\ opened' = opened \ {id}
    \/ /\ PageNext /\ UNCHANGED opened
       /\ ~ \E id \in Ids : ToggleOpen(id) \/ ToggleClosed(id)

MemorySpec == MemoryInit /\ [][MemoryNext]_<<pageVars, opened>>

-----------------------------------------------------------------------------
(* "Keep expanded state stable across refreshes/filtering" (app.js:189): a *)
(* detail that the user opened and has not closed is displayed whenever    *)
(* its card is on the page, whatever answers and filters came in between.  *)
ExpandedStateStable == opened \cap Shown(cards) \subseteq visible
=============================================================================
