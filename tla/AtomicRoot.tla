----------------------------- MODULE AtomicRoot -----------------------------
(***************************************************************************)
(* What the Plugin Root promises to everybody who reads it: one mapping    *)
(* from paths to bytes that changes only as a whole.  A command replaces   *)
(* all the paths of one reviewed change set in a single step, and only     *)
(* when the Host Catalog resolves the outcome; a person may edit one file  *)
(* at a time.  The removal of an instance takes two steps, and a process   *)
(* that stops between them leaves its first half.  RootTransaction         *)
(* implements this with a guard file, a transaction record and one rename  *)
(* per path.                                                               *)
(***************************************************************************)
EXTENDS Naturals

CONSTANTS
  Files,        \* the paths below plugins/ that commands publish
  Contents,     \* the byte strings those files can hold
  Absent,       \* the file does not exist
  Changes,      \* the change sets commands publish
  Removals,     \* those that remove the file of an instance and then its marker
  Markers,      \* the paths of the markers of disabled instances
  Resolvable,   \* the roots the Host Catalog resolves to an App
  InitRoot      \* the root before the first command

VARIABLES
  root,         \* the bytes of each path
  half,         \* the root is what half a removal has left
  edits         \* how many manual edits were made

Values == Contents \union {Absent}
Roots == [Files -> Values]

\* The root r with the paths of the change set c replaced.
Overlay(c, r) == [f \in Files |-> IF f \in DOMAIN c THEN c[f] ELSE r[f]]

Init ==
  /\ root = InitRoot
  /\ half = FALSE
  /\ edits = 0

\* One command's change set takes effect, on all its paths at once.
Update(c) ==
  /\ root' = Overlay(c, root)
  /\ root' \in Resolvable
  /\ half' = FALSE
  /\ UNCHANGED edits

\* The file of an instance is gone and its marker is not; Update(c) ends this.
BeginRemoval(c) ==
  /\ Overlay(c, root) \in Resolvable
  /\ root' = Overlay([f \in DOMAIN c \ Markers |-> c[f]], root)
  /\ half' = TRUE
  /\ UNCHANGED edits

\* A person saves one file.
Edit(f) ==
  /\ \E v \in Values : root' = [root EXCEPT ![f] = v]
  /\ edits' = edits + 1
  /\ UNCHANGED half

Next ==
  \/ \E c \in Changes : Update(c)
  \/ \E c \in Removals : BeginRemoval(c)
  \/ \E f \in Files : Edit(f)

Spec == Init /\ [][Next]_<<root, half, edits>>
=============================================================================
