----------------------------- MODULE Artifacts -----------------------------
(***************************************************************************)
(* What the commands publish, one kind at a time: generations              *)
(* (Publication), the outputs of the build commands (AppOutputs), a new    *)
(* App workspace (AppInit), the files generated from contracts             *)
(* (ContractSync), a change of several files of a Plugin Root beside a     *)
(* person who edits them (RootTransaction), and the lock of local tools    *)
(* (BootstrapLock).  The states of the kinds that are not chosen stay as   *)
(* they were.                                                              *)
(***************************************************************************)
EXTENDS Publication, Sequences

CONSTANTS
  Processes, MaxFailures,
  \* See AppOutputs.
  Makes, Sources, Kinds, AppsThatResolve, Releases, Mixed, MaxSourceEdits, MaxMeddlings,
  MaxOutputCommands,
  \* See AppInit.
  Person, MaxInits, MaxKills,
  \* See RootTransaction.
  RootFiles, RootContents, DependenciesFile, Txns, Writers, InspectFirst, RootReaders,
  RootChanges, DirectChanges, RootsThatResolve, FirstRoot, LockFileExists, MaxPersonEdits,
  MaxStops,
  \* See ContractSync.
  Contracts, OwnedContracts, Uses, Asks, Family, TornFile, MaxContractEdits,
  \* See BootstrapLock.
  ToolUsers, Workflows, Tools, ToolFiles, Text, Below, MaxDepth, MaxToolEdits,
  MaxToolCommands

VARIABLES part,
  oKind, oSrc, oEdits, oReverted, oMoments, oBinary, oOut, oPc, oJob, oMeddlings, oCommands,
  iControl, iPlugins, iValid, iPc, iResult, iRuns, iKills,
  tDisk, tGuard, tStaging, tLitter, tLockFile, tHolder, tShared, tPc, tTxn, tPlan, tTodo, tTmp,
  tRpc, tView, tEdits, tFaults, tHalf,
  gSource, gDisk, gBaseline, gLock, gAsked, gPc, gJob, gMoments, gAccepted, gDoubted, gFound,
  gReport, gEdits, gFaults,
  kVersion, kSaved, kPc, kJob, kAccepted, kEdits, kCommands

outputVars == <<oKind, oSrc, oEdits, oReverted, oMoments, oBinary, oOut, oPc, oJob,
  oMeddlings, oCommands>>
initVars == <<iControl, iPlugins, iValid, iPc, iResult, iRuns, iKills>>
changeVars == <<tDisk, tGuard, tStaging, tLitter, tLockFile, tHolder, tShared, tPc, tTxn,
  tPlan, tTodo, tTmp, tRpc, tView, tEdits, tFaults, tHalf>>
contractVars == <<gSource, gDisk, gBaseline, gLock, gAsked, gPc, gJob, gMoments, gAccepted,
  gDoubted, gFound, gReport, gEdits, gFaults>>
toolVars == <<kVersion, kSaved, kPc, kJob, kAccepted, kEdits, kCommands>>
artifactVars == <<part, vars, outputVars, initVars, changeVars, contractVars, toolVars>>

-----------------------------------------------------------------------------
Apps == INSTANCE AppOutputs WITH
  Resolvable <- AppsThatResolve, MaxEdits <- MaxSourceEdits, MaxCommands <- MaxOutputCommands,
  kind <- oKind, src <- oSrc, edits <- oEdits, reverted <- oReverted, moments <- oMoments,
  binary <- oBinary, out <- oOut, pc <- oPc, job <- oJob, meddlings <- oMeddlings,
  commands <- oCommands

Workspace == INSTANCE AppInit WITH
  MaxRuns <- MaxInits,
  control <- iControl, plugins <- iPlugins, valid <- iValid, pc <- iPc, result <- iResult,
  runs <- iRuns, kills <- iKills

\* The person edits while no command runs.
Edited == INSTANCE RootTransaction WITH
  Files <- RootFiles, Contents <- RootContents, Dependencies <- DependenciesFile,
  Readers <- RootReaders, Transactions <- RootChanges, Direct <- DirectChanges, Markers <- {},
  Resolvable <- RootsThatResolve, InitRoot <- FirstRoot, RacingEdits <- FALSE,
  MaxEdits <- MaxPersonEdits, MaxFaults <- MaxStops,
  disk <- tDisk, guard <- tGuard, staging <- tStaging, litter <- tLitter, lockFile <- tLockFile,
  holder <- tHolder, shared <- tShared, pc <- tPc, txn <- tTxn, plan <- tPlan, todo <- tTodo,
  tmp <- tTmp, rpc <- tRpc, view <- tView, edits <- tEdits, faults <- tFaults,
  half <- tHalf

Sync == INSTANCE ContractSync WITH
  Builders <- Processes, MaxEdits <- MaxContractEdits, MaxFaults <- MaxFailures,
  Torn <- TornFile, Owned <- OwnedContracts,
  source <- gSource, disk <- gDisk, baseline <- gBaseline, lock <- gLock, asked <- gAsked,
  pc <- gPc, job <- gJob, moments <- gMoments, accepted <- gAccepted, doubted <- gDoubted,
  found <- gFound, report <- gReport, edits <- gEdits, faults <- gFaults

Bootstrap == INSTANCE BootstrapLock WITH
  Processes <- ToolUsers, Files <- ToolFiles, MaxEdits <- MaxToolEdits,
  MaxCommands <- MaxToolCommands,
  version <- kVersion, saved <- kSaved, pc <- kPc, job <- kJob, accepted <- kAccepted,
  edits <- kEdits, commands <- kCommands

ASSUME OutputsAssumption ==
  /\ Sources # {} /\ {None, Mixed} \intersect Apps!Contents = {} /\ Mixed # None
  \* The first contents of the sources make an App.
  /\ [s \in Sources |-> 1] \in AppsThatResolve
  /\ MaxSourceEdits \in Nat /\ MaxMeddlings \in Nat /\ MaxOutputCommands \in Nat

ASSUME WorkspaceAssumption ==
  /\ Processes \intersect {None, "empty", Person} = {} /\ None \notin {"empty", "created"}
  /\ MaxInits \in Nat /\ MaxKills \in Nat

\* A contract that is generated from another one names it; two contracts with a source
\* for one descriptor are refused ("multiple owners").
ASSUME ContractsAssumption ==
  /\ MaxContractEdits \in Nat /\ MaxFailures \in Nat
  /\ None \notin Processes /\ TornFile # None /\ {None, TornFile} \intersect Sync!Versions = {}
  /\ OwnedContracts \subseteq Sync!Described /\ Uses \in [Contracts -> Sync!Described]
  /\ Asks \subseteq SUBSET Contracts

\* See RootTransaction: names that stand for nothing are none of the others, and commands
\* start from a root that the Host accepts.
ASSUME EditedAssumption == Edited!RootAssumptions

\* What a manifest that is not refused names, in every version of it.
ASSUME ToolsAssumption ==
  /\ MaxToolEdits \in Nat /\ MaxDepth \in Nat /\ MaxToolCommands \in Nat
  /\ \A r \in DOMAIN Below : Below[r] \subseteq Tools
  /\ \A w \in Workflows, v \in Bootstrap!Versions : Text[w][v] # None =>
       Text[w][v].presets \in Seq(Workflows) /\ Text[w][v].roots \in Seq(DOMAIN Below)
  /\ \A t \in Tools, v \in Bootstrap!Versions : Text[t][v] # None =>
       Text[t][v].program \in ToolFiles /\ Text[t][v].artifacts \subseteq ToolFiles

-----------------------------------------------------------------------------
ArtifactsInit ==
  /\ part \in {"generations", "outputs", "workspace", "edited", "contracts", "tools"}
  /\ Init /\ Apps!Init /\ Workspace!Init /\ Edited!Init /\ Sync!Init /\ Bootstrap!Init

\* Commands are bounded; when all are spent, nothing happens any more.
Rests == part # "generations" /\ UNCHANGED artifactVars

ArtifactsNext ==
  \/ /\ part = "generations" /\ Next
     /\ UNCHANGED <<part, outputVars, initVars, changeVars, contractVars, toolVars>>
  \/ /\ part = "outputs" /\ Apps!Next
     /\ UNCHANGED <<part, vars, initVars, changeVars, contractVars, toolVars>>
  \/ /\ part = "workspace" /\ Workspace!Next
     /\ UNCHANGED <<part, vars, outputVars, changeVars, contractVars, toolVars>>
  \/ /\ part = "edited" /\ Edited!Next
     /\ UNCHANGED <<part, vars, outputVars, initVars, contractVars, toolVars>>
  \/ /\ part = "contracts" /\ Sync!Next
     /\ UNCHANGED <<part, vars, outputVars, initVars, changeVars, toolVars>>
  \/ /\ part = "tools" /\ Bootstrap!Next
     /\ UNCHANGED <<part, vars, outputVars, initVars, changeVars, contractVars>>
  \/ Rests

ArtifactsSpec == ArtifactsInit /\ [][ArtifactsNext]_artifactVars

-----------------------------------------------------------------------------
\* The properties of the kinds that are not chosen hold of their one state.
\* Every variable of the chosen kind has its type.
ArtifactsTypeOK ==
  CASE part = "generations" -> TypeOK
    [] part = "outputs" -> Apps!TypeOK
    [] part = "workspace" -> Workspace!TypeOK
    [] part = "edited" -> Edited!TypeOK
    [] part = "contracts" -> Sync!TypeOK
    [] part = "tools" -> Bootstrap!TypeOK

\* See AppOutputs and AppInit: each output is what it describes itself to be, of
\* contents that belong together, whatever was edited while it was made; an App
\* workspace is made whole, or not at all.
OutputsAreWhole ==
  /\ part = "outputs" => /\ Apps!HostIsWhatItDescribes /\ Apps!DistributionIsTheBuild
                         /\ Apps!LocalIsOfOneMoment
  /\ part = "workspace" => Workspace!InitIsWhole
\* See BootstrapLock: a lock that loads is of the files as they are, and outputs of
\* a tool are accepted only when it ran with what the lock proves.
ToolsAreAsLocked ==
  part = "tools" => Bootstrap!LoadedIsCurrent /\ Bootstrap!AcceptedIsLocked
\* See RootTransaction and AppOutputs: recovery leaves what a person wrote to a
\* path of a stopped transaction, and the first of several racing outputs stays.
NothingIsOverwritten == Edited!ManualEditSurvives /\ Apps!FirstOutputStays
\* See ContractSync: every step leaves generated files and baselines of one moment
\* of the sources, or as they were, and contracts change compatibly.
ContractsStayInStep ==
  [][part = "contracts" => Sync!GeneratedTogether']_contractVars /\ Sync!ChangesCompatibly
=============================================================================
