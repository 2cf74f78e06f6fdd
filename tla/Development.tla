---------------------------- MODULE Development ----------------------------
(***************************************************************************)
(* One of the two development commands runs, as the author chooses:       *)
(* `lenso app dev` (DevLoop) or `lenso plugin dev --watch` (PluginDev).    *)
(* They share neither files nor processes, so that the states of the one   *)
(* that is not chosen stay as they were.                                   *)
(***************************************************************************)
EXTENDS DevLoop

CONSTANTS
  PluginFiles,      \* what plugin dev watches
  MaxPluginEdits,
  MaxPluginFaults

VARIABLES command, pKind, pVersion, pEdits, pRaised, pQueue, pChannel, pMode,
  pBaseline, pPending, pScan, pTodo, pPc, pTried, pRevision, pAlive, pResult, pFaults

Plugin == INSTANCE PluginDev WITH
  Files <- PluginFiles, MaxEdits <- MaxPluginEdits, MaxFaults <- MaxPluginFaults,
  kind <- pKind, version <- pVersion, edits <- pEdits, raised <- pRaised,
  queue <- pQueue, channel <- pChannel, mode <- pMode, baseline <- pBaseline,
  pending <- pPending, scan <- pScan, todo <- pTodo, pc <- pPc, tried <- pTried,
  revision <- pRevision, alive <- pAlive, result <- pResult, faults <- pFaults

pluginVars == <<pKind, pVersion, pEdits, pRaised, pQueue, pChannel, pMode, pBaseline,
  pPending, pScan, pTodo, pPc, pTried, pRevision, pAlive, pResult, pFaults>>
allVars == <<command, vars, pluginVars>>

PluginNotify == \E f \in PluginFiles : Plugin!Deliver(f)

\* What an action of either command leaves alone.
OfApp == command = "app dev" /\ UNCHANGED <<command, pluginVars>>
OfPlugin == command = "plugin dev" /\ UNCHANGED <<command, vars>>

DevelopmentInit ==
  /\ command \in {"app dev", "plugin dev"}
  /\ Init /\ Plugin!Init
  /\ command = "app dev" => pKind = "serve" /\ pMode = "polling"

DevelopmentSpec ==
  /\ DevelopmentInit
  /\ [][(OfApp /\ Next) \/ (OfPlugin /\ Plugin!Next)]_allVars
  /\ WF_allVars((OfApp /\ LoopStep) \/ (OfPlugin /\ Plugin!SessionStep))
  /\ WF_allVars((OfApp /\ BuildStep) \/ (OfPlugin /\ Plugin!WatcherStep))
  /\ WF_allVars((OfApp /\ Notify) \/ (OfPlugin /\ PluginNotify))

\* Every variable of either command has its type.
DevelopmentTypeOK == TypeOK /\ Plugin!TypeOK

\* See DevLoop and PluginDev: every watched edit is followed by a build, or the
\* command ends.
EditsAreBuilt == WatchedEditsAreBuilt /\ Plugin!PluginEditsAreBuilt
\* See PluginDev: one Host at most, of the last build, and not beside a build.
ServesTheLastBuild == Plugin!ServesTheLastBuild
=============================================================================
