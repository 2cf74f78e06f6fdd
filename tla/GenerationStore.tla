-------------------------- MODULE GenerationStore --------------------------
(***************************************************************************)
(* What a consumer of published generations relies on: a set of complete   *)
(* generations, which grows unless somebody damages it, and of which one   *)
(* is selected.  A generation is selected after it was found or made       *)
(* complete, by who keeps the others from selecting meanwhile; it may have *)
(* been damaged since.                                                     *)
(***************************************************************************)
CONSTANTS
  Generations, \* the generations there can be
  None,        \* nothing was ever published; nothing is about to be selected
  Damages      \* somebody may change files of what is published

VARIABLES
  available, \* generations that can be read completely
  checked,   \* the one that is about to be selected
  selected   \* the one that current.json names

storeVars == <<available, checked, selected>>

StoreInit == available = {} /\ checked = None /\ selected = None

\* A generation appears, as a whole.
Add(g) == available' = available \union {g} /\ checked' = g /\ UNCHANGED selected

\* A generation is found whole.
Check(g) == g \in available /\ checked' = g /\ UNCHANGED <<available, selected>>

\* What was found whole, or made, is selected.
Select ==
  /\ checked # None
  /\ selected' = checked
  /\ checked' = None
  /\ UNCHANGED available

\* Nothing is selected after all.
Forget == checked' = None /\ UNCHANGED <<available, selected>>

\* A generation is no longer what it was.
Damage(g) == Damages /\ available' = available \ {g} /\ UNCHANGED <<checked, selected>>

StoreNext ==
  \/ \E g \in Generations : Add(g) \/ Check(g) \/ Damage(g)
  \/ Select \/ Forget

StoreSpec == StoreInit /\ [][StoreNext]_storeVars
=============================================================================
