-------------------------- MODULE RootTransaction --------------------------
(***************************************************************************)
(* The Plugin Root transaction of lenso-engine-authoring: several files    *)
(* below plugins/ are replaced one rename at a time under an advisory      *)
(* exclusive lock, with a guard file and a transaction record from which   *)
(* the next command finishes or undoes what a stopped one left behind.     *)
(*                                                                         *)
(* A writer is a process that runs one command after another.  It may be   *)
(* killed, or fail, between any two of its file operations; the operating  *)
(* system then drops its lock.  A reader takes a snapshot under the shared *)
(* lock, or under none while the lock file does not exist yet.  Bytes are  *)
(* compared as the code compares their SHA-256 digests.                    *)
(***************************************************************************)
EXTENDS Naturals

CONSTANTS
  Files,          \* the paths below plugins/ that commands publish
  Contents,       \* the byte strings those files can hold
  Absent,         \* the file does not exist
  Dependencies,   \* the path of .dependencies.json
  Markers,        \* the paths of the markers of disabled instances
  Txns,           \* transaction identities
  Writers,        \* processes running commands that change the root
  InspectFirst,   \* the writers whose command begins with inspect_plugin_root
  Readers,        \* processes taking a snapshot
  Nobody,         \* no process holds the exclusive lock
  Transactions,   \* change sets published through publish_root_files
  Direct,         \* change sets written without a guard
  Resolvable,     \* the roots that host.resolve accepts
  InitRoot,       \* the root before the first command
  LockFileExists, \* an earlier command has created the lock file
  RacingEdits,    \* a person may edit while commands run
  MaxEdits,       \* bound on manual edits
  MaxFaults       \* bound on killed or failed commands

Values == Contents \union {Absent}
Roots == [Files -> Values]
ChangeSets == UNION {[S -> Values] : S \in SUBSET Files}

\* What the theorems and the instances for TLC assume of the constants.
AbsentAssumption == Absent \notin Contents
NobodyAssumption == Nobody \notin Writers
DependenciesAssumption == Dependencies \in Files
ProcessAssumption == InspectFirst \subseteq Writers
ChangesAssumption ==
  /\ Transactions \subseteq ChangeSets
  /\ Direct \subseteq ChangeSets
\* Without a guard a command writes one path, or removes an instance's file and its
\* marker.
OnePath(c) == \E f \in Files : DOMAIN c = {f}
RemovesInstance(c) ==
  \E f \in Files \ Markers, m \in Files \intersect Markers : c = [g \in {f, m} |-> Absent]
DirectAssumption == \A c \in Direct : OnePath(c) \/ RemovesInstance(c)
RootAssumption ==
  /\ Resolvable \subseteq Roots
  /\ InitRoot \in Resolvable
BoundAssumption ==
  /\ MaxEdits \in Nat
  /\ MaxFaults \in Nat
  /\ RacingEdits \in BOOLEAN
  /\ LockFileExists \in BOOLEAN

VARIABLES
  disk,      \* the bytes of every path below plugins/
  guard,     \* what plugins/.transaction holds
  staging,   \* the transaction record and the staged bytes of each identity
  litter,    \* paths beside which a killed process left its temporary file
  lockFile,  \* the authoring lock file exists
  holder,    \* the writer holding the exclusive lock
  shared,    \* the readers holding the shared lock
  pc,        \* where each writer is
  txn,       \* the transaction each writer works on
  plan,      \* the bytes each writer is putting in place
  todo,      \* the paths of its plan that it has not written yet
  tmp,       \* the path beside which it has a temporary file
  rpc,       \* where each reader is
  view,      \* what each reader has read so far
  edits,     \* how many manual edits were made
  faults,    \* how many commands were killed or failed
  half       \* history: the last change of the root removed an instance's file only

diskVars == <<disk, guard, staging, litter>>
lockVars == <<lockFile, holder, shared>>
writerVars == <<pc, txn, plan, todo, tmp>>
readerVars == <<rpc, view>>
envVars == <<edits, faults, half>>
vars == <<disk, guard, staging, litter, lockFile, holder, shared,
          pc, txn, plan, todo, tmp, rpc, view, edits, faults, half>>

\* The guard file does not exist.
NoGuard == "no guard"
\* The guard file exists and holds no identity yet.
Torn == "torn guard"
\* The writer works on no transaction.
NoTxn == "no transaction"
\* The writer has no temporary file.
NoFile == "no file"
\* There is no staging directory with a complete record.
NoRecord == [status |-> "none"]
\* The writer has nothing to put in place.
NoPlan == [f \in {} |-> Absent]

NameAssumption ==
  /\ {NoGuard, Torn, NoTxn} \cap Txns = {}
  /\ NoFile \notin Files

RootAssumptions ==
  /\ AbsentAssumption /\ NobodyAssumption /\ DependenciesAssumption /\ ProcessAssumption
  /\ ChangesAssumption /\ DirectAssumption /\ RootAssumption /\ BoundAssumption /\ NameAssumption

\* The root r with the paths of the change set c replaced.
Overlay(c, r) == [f \in Files |-> IF f \in DOMAIN c THEN c[f] ELSE r[f]]

\* What the bytes at the paths of c are now.
Current(c) == [f \in DOMAIN c |-> disk[f]]

Init ==
  /\ disk = InitRoot
  /\ guard = NoGuard
  /\ staging = [t \in Txns |-> NoRecord]
  /\ litter = {}
  /\ lockFile = LockFileExists
  /\ holder = Nobody
  /\ shared = {}
  /\ pc = [w \in Writers |-> "idle"]
  /\ txn = [w \in Writers |-> NoTxn]
  /\ plan = [w \in Writers |-> NoPlan]
  /\ todo = [w \in Writers |-> {}]
  /\ tmp = [w \in Writers |-> NoFile]
  /\ rpc = [r \in Readers |-> "idle"]
  /\ view = [r \in Readers |-> NoPlan]
  /\ edits = 0
  /\ faults = 0
  /\ half = FALSE

----------------------------------------------------------------------------
\* Steps every writer is made of.

Goto(w, there) == pc' = [pc EXCEPT ![w] = there]

\* The command of w is over: its lock and its local state are gone.
Leave(w) ==
  /\ Goto(w, "idle")
  /\ txn' = [txn EXCEPT ![w] = NoTxn]
  /\ plan' = [plan EXCEPT ![w] = NoPlan]
  /\ todo' = [todo EXCEPT ![w] = {}]
  /\ tmp' = [tmp EXCEPT ![w] = NoFile]
  /\ holder' = IF holder = w THEN Nobody ELSE holder
  /\ UNCHANGED <<lockFile, shared>>

\* From here on w puts the change set c in place for the transaction t.
Put(w, there, t, c) ==
  /\ Goto(w, there)
  /\ txn' = [txn EXCEPT ![w] = t]
  /\ plan' = [plan EXCEPT ![w] = c]
  /\ todo' = [todo EXCEPT ![w] = DOMAIN c]
  /\ UNCHANGED tmp

\* A snapshot of the whole root succeeds: no guard, and no file that the
\* Plugin Root does not know.
Readable == guard = NoGuard /\ litter = {}

\* `plugins configure` and `plugins bind --file` begin with a snapshot taken
\* under the shared lock.  When that snapshot fails so does the command, with
\* nothing changed.
Inspect(w) ==
  /\ w \in InspectFirst
  /\ pc[w] = "idle"
  /\ holder = Nobody
  /\ lockFile \/ disk[Dependencies] = Absent
  /\ Readable
  /\ Goto(w, "inspected")
  /\ UNCHANGED <<diskVars, lockVars, txn, plan, todo, tmp, readerVars, envVars>>

\* lock_plugin_root creates the lock file and waits for the exclusive lock.
Lock(w) ==
  /\ IF w \in InspectFirst THEN pc[w] = "inspected" ELSE pc[w] = "idle"
  /\ holder = Nobody
  /\ shared = {}
  /\ lockFile' = TRUE
  /\ holder' = w
  /\ Goto(w, "locked")
  /\ UNCHANGED <<diskVars, shared, txn, plan, todo, tmp, readerVars, envVars>>

----------------------------------------------------------------------------
\* recover_plugin_root_transaction, the second half of lock_plugin_root.

NothingToRecover(w) ==
  /\ pc[w] = "locked"
  /\ guard = NoGuard
  /\ Goto(w, "ready")
  /\ UNCHANGED <<diskVars, lockVars, txn, plan, todo, tmp, readerVars, envVars>>

\* The bytes the record s brings back: the old ones before its commit, the new
\* ones after it.
Target(s) == IF s.status = "prepared" THEN s.old ELSE s.new

\* Every path holds the bytes from before the transaction or those after it.
Recoverable(s) == \A f \in DOMAIN s.new : disk[f] \in {s.old[f], s.new[f]}

\* Mutant: recovery does not look at the bytes it is about to overwrite.
CanRecoverBlindly ==
  /\ guard \in Txns
  /\ staging[guard] # NoRecord

\* Mutant: recovery knows how to undo but not how to finish.
CanOnlyUndo ==
  /\ guard \in Txns
  /\ staging[guard] # NoRecord
  /\ staging[guard].status = "prepared"
  /\ Recoverable(staging[guard])

\* A guard with an identity, a record of it, and nobody edited its paths.
CanRecover ==
  /\ guard \in Txns
  /\ staging[guard] # NoRecord
  /\ Recoverable(staging[guard])

\* Mutant: recovery drops the guard without restoring any file.
ForgetTransaction(w) ==
  /\ pc[w] = "locked"
  /\ CanRecover
  /\ Put(w, "recovering", guard, NoPlan)
  /\ UNCHANGED <<diskVars, lockVars, readerVars, envVars>>

StartRecovery(w) ==
  /\ pc[w] = "locked"
  /\ CanRecover
  /\ Put(w, "recovering", guard, Target(staging[guard]))
  /\ UNCHANGED <<diskVars, lockVars, readerVars, envVars>>

\* The command fails and leaves guard and record for a person to look at.
RefuseRecovery(w) ==
  /\ pc[w] = "locked"
  /\ guard # NoGuard
  /\ ~CanRecover
  /\ Leave(w)
  /\ UNCHANGED <<diskVars, readerVars, envVars>>

----------------------------------------------------------------------------
\* publish_root_files, and the commands that change files without it.

\* The snapshot the command takes under its lock succeeds and the Host Catalog
\* resolves the candidate.
Accepts(c) == Readable /\ Overlay(c, disk) \in Resolvable

\* The old and new bytes of every path are staged, then the record is written.
Stage(w, c, t) ==
  /\ pc[w] = "ready"
  /\ Accepts(c)
  /\ staging[t] = NoRecord
  /\ staging' = [staging EXCEPT
       ![t] = [status |-> "prepared", old |-> Current(c), new |-> c]]
  /\ Put(w, "staged", t, c)
  /\ UNCHANGED <<disk, guard, litter, lockVars, readerVars, envVars>>

\* create_guard opens a new, empty file ...
CreateGuard(w) ==
  /\ pc[w] = "staged"
  /\ guard' = Torn
  /\ Goto(w, "guarding")
  /\ UNCHANGED <<disk, staging, litter, lockVars, txn, plan, todo, tmp,
                 readerVars, envVars>>

\* ... and then writes the identity into it.
WriteGuard(w) ==
  /\ pc[w] = "guarding"
  /\ guard' = txn[w]
  /\ Goto(w, "applying")
  /\ UNCHANGED <<disk, staging, litter, lockVars, txn, plan, todo, tmp,
                 readerVars, envVars>>

Writing == {"applying", "recovering", "direct"}

\* atomic_write: a temporary file is written in the directory of f ...
BeginWrite(w, f) ==
  /\ pc[w] \in Writing
  /\ tmp[w] = NoFile
  /\ f \in todo[w]
  /\ plan[w][f] # Absent
  /\ tmp' = [tmp EXCEPT ![w] = f]
  /\ UNCHANGED <<diskVars, lockVars, pc, txn, plan, todo, readerVars, envVars>>

\* What w writes without a guard is there at once, and until the last path of its
\* plan is there the root is neither the one it found nor the one it resolved.
KeepAccount(w) ==
  half' = IF pc[w] # "direct" THEN half
          ELSE disk' # Overlay(plan[w], disk) /\ (half \/ disk' # disk)

\* ... and renamed over f.
FinishWrite(w) ==
  /\ pc[w] \in Writing
  /\ tmp[w] # NoFile
  /\ disk' = [disk EXCEPT ![tmp[w]] = plan[w][tmp[w]]]
  /\ todo' = [todo EXCEPT ![w] = @ \ {tmp[w]}]
  /\ tmp' = [tmp EXCEPT ![w] = NoFile]
  /\ KeepAccount(w)
  /\ UNCHANGED <<guard, staging, litter, lockVars, pc, txn, plan,
                 readerVars, edits, faults>>

\* remove_file_if_exists and remove_if_exists: without a guard the file of an
\* instance is removed before its marker.
Remove(w, f) ==
  /\ pc[w] \in Writing
  /\ tmp[w] = NoFile
  /\ f \in todo[w]
  /\ plan[w][f] = Absent
  /\ (pc[w] = "direct" /\ f \in Markers) => todo[w] \subseteq Markers
  /\ disk' = [disk EXCEPT ![f] = Absent]
  /\ todo' = [todo EXCEPT ![w] = @ \ {f}]
  /\ KeepAccount(w)
  /\ UNCHANGED <<guard, staging, litter, lockVars, pc, txn, plan, tmp,
                 readerVars, edits, faults>>

\* Mutant: the record is given a status that recovery does not know.
CommitUnknownStatus(w) ==
  /\ pc[w] = "applying"
  /\ todo[w] = {}
  /\ staging' = [staging EXCEPT ![txn[w]].status = "published"]
  /\ todo' = [todo EXCEPT ![w] = DOMAIN plan[w]]
  /\ half' = FALSE
  /\ Goto(w, "committed")
  /\ UNCHANGED <<disk, guard, litter, lockVars, txn, plan, tmp, readerVars, edits, faults>>

\* Every path was written: the record becomes committed by one rename, and the
\* paths are verified next.
CommitRecord(w) ==
  /\ pc[w] = "applying"
  /\ todo[w] = {}
  /\ staging' = [staging EXCEPT ![txn[w]].status = "committed"]
  /\ todo' = [todo EXCEPT ![w] = DOMAIN plan[w]]
  /\ half' = FALSE
  /\ Goto(w, "committed")
  /\ UNCHANGED <<disk, guard, litter, lockVars, txn, plan, tmp, readerVars, edits, faults>>

\* Recovery has written every path and verifies them next.
Restored(w) ==
  /\ pc[w] = "recovering"
  /\ todo[w] = {}
  /\ todo' = [todo EXCEPT ![w] = DOMAIN plan[w]]
  /\ Goto(w, "restored")
  /\ UNCHANGED <<diskVars, lockVars, txn, plan, tmp, readerVars, envVars>>

\* The writer verifies the paths of its plan.
Verifying(w) == pc[w] \in {"committed", "restored"}

\* Mutant: the staging directory is removed before the guard.
CleanBeforeGuard(w, f) ==
  /\ Verifying(w)
  /\ f \in todo[w]
  /\ disk[f] = plan[w][f]
  /\ todo' = [todo EXCEPT ![w] = @ \ {f}]
  /\ staging' = [staging EXCEPT ![txn[w]] = IF todo[w] = {f} THEN NoRecord ELSE @]
  /\ UNCHANGED <<disk, guard, litter, lockVars, pc, txn, plan, tmp, readerVars, envVars>>

\* Mutant: the bytes on disk are not compared.
VerifyNothing(w, f) ==
  /\ Verifying(w)
  /\ f \in todo[w]
  /\ todo' = [todo EXCEPT ![w] = @ \ {f}]
  /\ UNCHANGED <<diskVars, lockVars, pc, txn, plan, tmp, readerVars, envVars>>

\* verify_record finds what it expects at f.
VerifyPath(w, f) ==
  /\ Verifying(w)
  /\ f \in todo[w]
  /\ disk[f] = plan[w][f]
  /\ todo' = [todo EXCEPT ![w] = @ \ {f}]
  /\ UNCHANGED <<diskVars, lockVars, pc, txn, plan, tmp, readerVars, envVars>>

\* Somebody edited a path meanwhile: the command fails, the guard stays.
VerifyFails(w) ==
  /\ Verifying(w)
  /\ \E f \in todo[w] : disk[f] # plan[w][f]
  /\ Leave(w)
  /\ UNCHANGED <<diskVars, readerVars, envVars>>

\* The transaction is over when its guard is gone.
RemoveGuard(w) ==
  /\ Verifying(w)
  /\ todo[w] = {}
  /\ guard' = NoGuard
  /\ Goto(w, IF pc[w] = "committed" THEN "published" ELSE "recovered")
  /\ UNCHANGED <<disk, staging, litter, lockVars, txn, plan, todo, tmp,
                 readerVars, envVars>>

\* The staging directory is removed; the publishing command is over.
CleanPublished(w) ==
  /\ pc[w] = "published"
  /\ staging' = [staging EXCEPT ![txn[w]] = NoRecord]
  /\ Leave(w)
  /\ UNCHANGED <<disk, guard, litter, readerVars, envVars>>

\* The staging directory is removed; the recovering command goes on.
CleanRecovered(w) ==
  /\ pc[w] = "recovered"
  /\ staging' = [staging EXCEPT ![txn[w]] = NoRecord]
  /\ Put(w, "ready", NoTxn, NoPlan)
  /\ UNCHANGED <<disk, guard, litter, lockVars, readerVars, envVars>>

\* Commands that change files one by one, with no guard: a disabled marker,
\* dependency selections where no legacy file exists, and the file and the marker
\* of an instance difference.  A command stopped between the last two leaves half
\* of its removal, and nothing that says so.
StartDirect(w, c) ==
  /\ pc[w] = "ready"
  /\ Accepts(c)
  /\ Put(w, "direct", NoTxn, c)
  /\ UNCHANGED <<diskVars, lockVars, readerVars, envVars>>

FinishDirect(w) ==
  /\ pc[w] = "direct"
  /\ todo[w] = {}
  /\ Leave(w)
  /\ UNCHANGED <<diskVars, readerVars, envVars>>

\* The command changes nothing: it only proposes, its revision is stale, the
\* snapshot fails or the candidate does not resolve.
Decline(w) ==
  /\ pc[w] = "ready"
  /\ Leave(w)
  /\ UNCHANGED <<diskVars, readerVars, envVars>>

\* A file operation fails and the command returns its error.  The temporary
\* file is deleted with its handle; guard and record stay as they are.
IoError(w) ==
  /\ pc[w] # "idle"
  /\ faults < MaxFaults
  /\ faults' = faults + 1
  /\ Leave(w)
  /\ UNCHANGED <<diskVars, readerVars, edits, half>>

\* The process is killed and leaves its temporary file where it is.
Kill(w) ==
  /\ pc[w] # "idle"
  /\ faults < MaxFaults
  /\ faults' = faults + 1
  /\ litter' = IF tmp[w] = NoFile THEN litter ELSE litter \union {tmp[w]}
  /\ Leave(w)
  /\ UNCHANGED <<disk, guard, staging, readerVars, edits, half>>

----------------------------------------------------------------------------
\* Readers: load_resolved_app, inspect_plugin_root and resolve_runtime_app.

\* The end of a snapshot, with or without a result; the lock goes with it. Each
\* reader takes one snapshot.
Close(r) ==
  /\ rpc' = [rpc EXCEPT ![r] = "done"]
  /\ view' = [view EXCEPT ![r] = NoPlan]
  /\ shared' = shared \ {r}
  /\ UNCHANGED <<lockFile, holder>>

OpenShared(r) ==
  /\ rpc[r] = "idle"
  /\ lockFile
  /\ holder = Nobody
  /\ shared' = shared \union {r}
  /\ rpc' = [rpc EXCEPT ![r] = "open"]
  /\ UNCHANGED <<diskVars, lockFile, holder, writerVars, view, envVars>>

\* Without a lock file nothing is locked, unless the root is adopted: then
\* the missing lock file is an error.
OpenUnlocked(r) ==
  /\ rpc[r] = "idle"
  /\ ~lockFile
  /\ disk[Dependencies] = Absent
  /\ rpc' = [rpc EXCEPT ![r] = "open"]
  /\ UNCHANGED <<diskVars, lockVars, writerVars, view, envVars>>

\* Mutant: a snapshot ignores the guard.
ListPastGuard(r) ==
  /\ rpc[r] = "open"
  /\ rpc' = [rpc EXCEPT ![r] = "reading"]
  /\ UNCHANGED <<diskVars, lockVars, writerVars, view, envVars>>

\* The entries of plugins/ are listed once; a guard among them is an error.
ListRoot(r) ==
  /\ rpc[r] = "open"
  /\ guard = NoGuard
  /\ rpc' = [rpc EXCEPT ![r] = "reading"]
  /\ UNCHANGED <<diskVars, lockVars, writerVars, view, envVars>>

\* A temporary file beside f is a file that the Plugin Root does not know.
Foreign(f) == f \in litter \/ \E w \in Writers : tmp[w] = f

ReadFile(r, f) ==
  /\ rpc[r] = "reading"
  /\ f \in Files \ DOMAIN view[r]
  /\ ~Foreign(f)
  /\ view' = [view EXCEPT ![r] =
       [g \in DOMAIN @ \union {f} |-> IF g = f THEN disk[f] ELSE @[g]]]
  /\ UNCHANGED <<diskVars, lockVars, writerVars, rpc, envVars>>

\* The reader has seen every file and resolves what it saw.
Complete(r) == rpc[r] = "reading" /\ DOMAIN view[r] = Files

EndRead(r) ==
  /\ Complete(r)
  /\ Close(r)
  /\ UNCHANGED <<diskVars, writerVars, envVars>>

\* The snapshot fails, or the reading process ends.
AbandonRead(r) ==
  /\ rpc[r] \in {"open", "reading"}
  /\ Close(r)
  /\ UNCHANGED <<diskVars, writerVars, envVars>>

----------------------------------------------------------------------------
\* No command runs.
Quiet ==
  /\ \A w \in Writers : pc[w] = "idle"
  /\ \A r \in Readers : rpc[r] \in {"idle", "done"}

\* A person, who takes no lock, saves or removes a file.
ManualEdit(f) ==
  /\ edits < MaxEdits
  /\ RacingEdits \/ Quiet
  /\ \E v \in Values \ {disk[f]} : disk' = [disk EXCEPT ![f] = v]
  /\ edits' = edits + 1
  /\ UNCHANGED <<guard, staging, litter, lockVars, writerVars, readerVars, faults, half>>

\* What a running command does on its own.
Step(w) ==
  \/ NothingToRecover(w)
  \/ StartRecovery(w)
  \/ RefuseRecovery(w)
  \/ CreateGuard(w)
  \/ WriteGuard(w)
  \/ \E f \in Files : BeginWrite(w, f) \/ Remove(w, f) \/ VerifyPath(w, f)
  \/ FinishWrite(w)
  \/ CommitRecord(w)
  \/ Restored(w)
  \/ VerifyFails(w)
  \/ RemoveGuard(w)
  \/ CleanPublished(w)
  \/ CleanRecovered(w)
  \/ FinishDirect(w)

\* What a command is asked to do once it holds the lock.
Request(w) ==
  \/ \E c \in Transactions, t \in Txns : Stage(w, c, t)
  \/ \E c \in Direct : StartDirect(w, c)
  \/ Decline(w)

Read(r) ==
  \/ OpenShared(r)
  \/ OpenUnlocked(r)
  \/ ListRoot(r)
  \/ \E f \in Files : ReadFile(r, f)
  \/ EndRead(r)
  \/ AbandonRead(r)

Next ==
  \/ \E w \in Writers : Inspect(w) \/ Lock(w) \/ Step(w) \/ Request(w)
  \/ \E w \in Writers : IoError(w) \/ Kill(w)
  \/ \E r \in Readers : Read(r)
  \/ \E f \in Files : ManualEdit(f)

Spec == Init /\ [][Next]_vars

\* A running command goes on, a person runs one command after another, and a
\* snapshot that was begun ends. Nothing makes a snapshot begin or an edit happen.
\* The advisory lock is not fair between readers and writers: commands get it
\* because there are finitely many snapshots.
Fairness ==
  /\ \A w \in Writers : WF_vars(Step(w)) /\ WF_vars(Inspect(w) \/ Lock(w))
  /\ \A r \in Readers : WF_vars(EndRead(r) \/ AbandonRead(r))

FairSpec == Spec /\ Fairness

----------------------------------------------------------------------------
WriterStates == {"idle", "inspected", "locked", "recovering", "ready",
                 "staged", "guarding", "applying", "committed", "restored",
                 "published", "recovered", "direct"}
Records == [status : {"prepared", "committed"}, old : ChangeSets, new : ChangeSets]

\* Every variable has its type; lists the states the other properties name.
TypeOK ==
  /\ disk \in Roots
  /\ guard \in Txns \union {NoGuard, Torn}
  /\ staging \in [Txns -> Records \union {NoRecord}]
  /\ litter \subseteq Files
  /\ lockFile \in BOOLEAN
  /\ holder \in Writers \union {Nobody}
  /\ shared \subseteq Readers
  /\ pc \in [Writers -> WriterStates]
  /\ txn \in [Writers -> Txns \union {NoTxn}]
  /\ plan \in [Writers -> ChangeSets]
  /\ todo \in [Writers -> SUBSET Files]
  /\ tmp \in [Writers -> Files \union {NoFile}]
  /\ rpc \in [Readers -> {"idle", "open", "reading", "done"}]
  /\ view \in [Readers -> ChangeSets]
  /\ edits \in 0..MaxEdits
  /\ faults \in 0..MaxFaults
  /\ half \in BOOLEAN

\* The root everybody is promised.  While a transaction is unresolved its paths
\* count as all old before the commit and all new after it, except for bytes
\* that are neither, which somebody else wrote.
Root ==
  LET s == staging[guard]
      inDoubt(f) == /\ guard \in Txns
                    /\ s # NoRecord
                    /\ f \in DOMAIN s.new
                    /\ disk[f] \in {s.old[f], s.new[f]}
  IN [f \in Files |-> IF inDoubt(f) THEN Target(s)[f] ELSE disk[f]]

\* The writer has verified the path f of its plan.
Checked(w, f) ==
  /\ f \in DOMAIN plan[w]
  /\ \/ Verifying(w) /\ f \notin todo[w]
     \/ pc[w] \in {"published", "recovered"}

\* The path f, once verified, holds other bytes than intended.
Overwritten(w, f) == Checked(w, f) /\ disk[f] # plan[w][f]

----------------------------------------------------------------------------
\* The transaction implements an atomic root: a change set takes effect at the
\* single step that renames the committed record into place, and nothing else,
\* a kill, an error, a rollback or a second recovery, changes what the root is
\* (publish_root_files, recover_plugin_root_transaction).  The one change that
\* takes two steps is the removal of an instance difference with its marker.
Abstract == INSTANCE AtomicRoot WITH
  root <- Root, Changes <- Transactions \union Direct,
  Removals <- {c \in Direct : RemovesInstance(c)}

ImplementsAtomicRoot == Abstract!Spec

\* However a command ends, as long as nobody edits files by hand, the guard
\* names a complete record and every path of it holds old or new bytes: the
\* next command's recovery is never refused (record before guard before files,
\* guard removed before the staging directory).
AlwaysRecoverable ==
  (guard \in Txns /\ edits = 0) =>
    staging[guard] # NoRecord /\ Recoverable(staging[guard])

\* With no transaction in doubt the files on disk are a root that the Host
\* Catalog resolved before anything was changed (lib.rs:3-4), whatever was
\* killed before, unless the last command to change anything was stopped between
\* the two removals of remove_instance_difference (lib.rs:1433-1434).
RestsResolvable ==
  (guard = NoGuard /\ edits = 0 /\ ~half) => disk \in Resolvable

\* A snapshot is one root, never a mixture of two: a reader that has read every
\* file holds a root that some command resolved (lib.rs:290-294), or exactly the
\* root that half a removal has left.
SnapshotResolvable ==
  \A r \in Readers : (Complete(r) /\ edits = 0) =>
    view[r] \in Resolvable \/ (half /\ view[r] = Root)

\* Bytes at the path f of an unresolved transaction that are neither its old nor
\* its new bytes: a person put them there.
ManuallyEdited(f) ==
  /\ guard \in Txns
  /\ staging[guard] # NoRecord
  /\ f \in DOMAIN staging[guard].new
  /\ disk[f] \notin {staging[guard].old[f], staging[guard].new[f]}

KeepManualEdits ==
  \A f \in Files : (ManuallyEdited(f) /\ edits' = edits) => disk'[f] = disk[f]

\* No command, publishing or recovering, overwrites what a person wrote to a path
\* of an unresolved transaction (ensure_recoverable).
ManualEditSurvives == [][KeepManualEdits]_vars

\* Even with a person editing at any moment, a command ends a transaction only
\* with every path verified: where a path then lacks the intended bytes, the edit
\* came after that path was verified (verify_record before remove_guard).
SettledUnlessEditedLater ==
  [][\A w \in Writers, f \in Files :
       Overwritten(w, f)' => Overwritten(w, f) \/ edits' # edits]_vars

\* An unresolved transaction with a complete guard is resolved by the next command
\* that takes the lock without a snapshot before it, unless somebody edited files
\* by hand.  The error message of snapshot_plugin_root promises it of any
\* "configuration command" (lib.rs:506-511): the commands in InspectFirst fail with
\* that very message and recover nothing.
GuardResolved == (guard \in Txns) ~> (guard = NoGuard \/ edits > 0)

\* The same promise for whatever is left in the guard's place.
AnyGuardResolved == (guard # NoGuard) ~> (guard = NoGuard \/ edits > 0)

\* A command that has recovered the root finds it readable.
RecoveredIsReadable == \A w \in Writers : pc[w] = "ready" => Readable
=============================================================================
