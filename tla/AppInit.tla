------------------------------ MODULE AppInit ------------------------------
(***************************************************************************)
(* `lenso app init`: several processes make the App workspace of one       *)
(* directory.  Each stages .lenso/ and plugins/, moves them into place     *)
(* with two renames, resolves the App that stands there, and takes back    *)
(* what it moved when a step fails.  A rename onto a directory succeeds    *)
(* only if that directory is empty.  A process may be killed at each step. *)
(***************************************************************************)
EXTENDS Naturals

CONSTANTS
  Processes,
  Person,    \* whoever else makes plugins/ or cleans up
  MaxRuns,
  MaxKills,
  None

VARIABLES
  control,   \* whose .lenso/ it is, or "empty" while it is being removed
  plugins,   \* whose plugins/ it is, or "empty"
  valid,     \* whether the Host of a process resolves with no Plugin added
  pc,
  result,
  runs,
  kills

vars == <<control, plugins, valid, pc, result, runs, kills>>

TypeOK ==
  /\ control \in Processes \union {None, "empty"}
  /\ plugins \in Processes \union {None, "empty", Person}
  /\ valid \in [Processes -> BOOLEAN]
  /\ pc \in [Processes -> {"idle", "staged", "control", "published", "undo plugins",
                           "undo control", "undo directory"}]
  /\ result \in [Processes -> {None, "created", "failed", "killed"}]
  /\ runs \in 0..MaxRuns /\ kills \in 0..MaxKills

Init ==
  /\ control = None /\ plugins \in {None, "empty"}
  /\ valid \in [Processes -> BOOLEAN]
  /\ pc = [p \in Processes |-> "idle"] /\ result = [p \in Processes |-> None]
  /\ runs = 0 /\ kills = 0

Goes(p, to) == pc' = [pc EXCEPT ![p] = to] /\ UNCHANGED result
Ends(p, outcome) == pc' = [pc EXCEPT ![p] = "idle"] /\ result' = [result EXCEPT ![p] = outcome]

\* Neither directory may exist. Then both are staged beside each other.
NothingYet == control = None /\ plugins = None

Start(p) ==
  /\ pc[p] = "idle" /\ runs < MaxRuns
  /\ runs' = runs + 1
  /\ IF NothingYet THEN Goes(p, "staged") ELSE Ends(p, "failed")
  /\ UNCHANGED <<control, plugins, valid, kills>>

PublishControl(p) ==
  /\ pc[p] = "staged"
  /\ IF control \in {None, "empty"}
     THEN control' = p /\ Goes(p, "control")
     ELSE Ends(p, "failed") /\ UNCHANGED control
  /\ UNCHANGED <<plugins, valid, runs, kills>>

PublishPlugins(p) ==
  /\ pc[p] = "control"
  /\ IF plugins \in {None, "empty"}
     THEN plugins' = p /\ Goes(p, "published")
     ELSE Goes(p, "undo control") /\ UNCHANGED plugins
  /\ UNCHANGED <<control, valid, runs, kills>>

\* load_resolved_app reads what is in place now.
Load(p) ==
  /\ pc[p] = "published"
  /\ IF valid[p] THEN Ends(p, "created") ELSE Goes(p, "undo plugins")
  /\ UNCHANGED <<control, plugins, valid, runs, kills>>

UndoPlugins(p) ==
  /\ pc[p] = "undo plugins"
  /\ plugins' = None
  /\ Goes(p, "undo control")
  /\ UNCHANGED <<control, valid, runs, kills>>

\* remove_dir_all takes the files first. An empty .lenso/ may be replaced by
\* that of another process, and the removal of the directory then fails.
UndoControl(p) ==
  /\ pc[p] = "undo control"
  /\ control' = "empty"
  /\ Goes(p, "undo directory")
  /\ UNCHANGED <<plugins, valid, runs, kills>>

UndoDirectory(p) ==
  /\ pc[p] = "undo directory"
  /\ control' = IF control = "empty" THEN None ELSE control
  /\ Ends(p, "failed")
  /\ UNCHANGED <<plugins, valid, runs, kills>>

Kill(p) ==
  /\ pc[p] # "idle" /\ kills < MaxKills
  /\ kills' = kills + 1
  /\ Ends(p, "killed")
  /\ UNCHANGED <<control, plugins, valid, runs>>

\* Somebody fills plugins/ before it is published.
Fill ==
  /\ plugins \in {None, "empty"}
  /\ plugins' = Person
  /\ UNCHANGED <<control, valid, pc, result, runs, kills>>

Next ==
  \/ \E p \in Processes:
       \/ Start(p) \/ PublishControl(p) \/ PublishPlugins(p) \/ Load(p)
       \/ UndoPlugins(p) \/ UndoControl(p) \/ UndoDirectory(p) \/ Kill(p)
  \/ Fill

Spec == Init /\ [][Next]_vars

-----------------------------------------------------------------------------
\* Who reports an App has made the whole of it, and it resolves: the two
\* directories are of one init, whoever else was making them. And unless an
\* init was killed between its steps, no half of an App stays behind.
InitIsWhole ==
  /\ \A p \in Processes:
       result[p] = "created" /\ pc[p] = "idle" => control = p /\ plugins = p /\ valid[p]
  /\ (\A p \in Processes: pc[p] = "idle") /\ kills = 0 =>
       \/ control = None /\ plugins \in {None, "empty", Person}
       \/ control \in Processes /\ plugins = control
=============================================================================
