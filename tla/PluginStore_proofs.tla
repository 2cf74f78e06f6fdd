------------------------- MODULE PluginStore_proofs -------------------------
(***************************************************************************)
(* Theorems about PluginStore, for any Plugins, Bundles and processes, any *)
(* rule by which an App resolves, and failures at any step.                *)
(***************************************************************************)
EXTENDS PluginStore, TLAPS

\* What stands for no Bundle, process or report, or for a broken file, is none of those.
NamesApart ==
  /\ None \notin Bundles \union Archives \union Processes \union {"done", "failed"}
  /\ Torn \notin Archives \union {None}
  /\ Damaged \notin Bundles \union {None}
  /\ MaxCommands \in Nat /\ MaxFaults \in Nat

States == {"idle", "staged", "current", "copying current", "new", "copying new", "parent",
           "publish", "retire"}

\* The Bundle is in the retained archive of its version.
IsRetained(b) ==
  /\ store[b.plugin, b.version] \notin {None, Torn}
  /\ store[b.plugin, b.version].bundle = b

\* A command has verified its Bundle and has not published it.
Prepared(p) ==
  pc[p] \in {"current", "copying current", "new", "copying new", "parent", "publish"}

\* A command knows what it is about, and which steps that takes.
JobInv(p) ==
  /\ pc[p] = "staged" => staged[p] \in Bundles \union {Damaged}
  /\ pc[p] # "idle" => job[p].op # "remove"
  /\ job[p].made => pc[p] = "publish" /\ job[p].op \in {"add", "install"}
  /\ pc[p] # "idle" /\ job[p].op \in {"install", "update"} => job[p].archive \in Archives
  /\ pc[p] \in {"current", "copying current"} => job[p].op \in {"update", "rollback"}
  /\ pc[p] \in {"new", "copying new"} => job[p].op \in {"install", "update"}
  /\ pc[p] = "parent" => job[p].op \in {"add", "install"}

\* What was verified under the lock is still so: the Bundle is the first of its Plugin
\* or replaces one, and the App with it resolves.
PreparedInv(p) ==
  Prepared(p) =>
    /\ staged[p] \in Bundles
    /\ (job[p].op \in {"add", "install"}) <=> (visible[staged[p].plugin] = None)
    /\ BundlesResolve([visible EXCEPT ![staged[p].plugin] = staged[p]])

\* A copy fills a place that was empty when it began, and a Bundle is replaced only
\* when it is in the store.
RetainInv(p) ==
  /\ pc[p] \in {"copying current", "copying new"} => store[Place(p)] = Torn
  /\ pc[p] \in {"new", "copying new", "publish"} /\ Replaces(p) =>
       IsRetained(visible[staged[p].plugin])

\* The directory of the Plugin is there to rename into, and one that was made for the
\* command holds no Bundle.
ParentInv(p) ==
  pc[p] = "publish" =>
    /\ staged[p].plugin \in directory
    /\ job[p].made => visible[staged[p].plugin] = None

LandedInv(p) ==
  /\ pc[p] = "staged" \/ Prepared(p) => landed[p] = FALSE
  /\ pc[p] = "retire" => landed[p] = TRUE

CommandInv(p) == JobInv(p) /\ PreparedInv(p) /\ RetainInv(p) /\ ParentInv(p) /\ LandedInv(p)

StoreInv ==
  /\ TypeOK
  /\ \A p \in Processes : CommandInv(p)
  /\ RootResolves /\ NothingIsLost /\ ReportsItsCommit

-----------------------------------------------------------------------------
(* Types.                                                                  *)

JobType == [op: Ops, plugin: Plugins \union {None}, version: Versions \union {None},
            archive: Archives \union {None}, made: BOOLEAN]

\* The state of the lock follows the states of the processes.
LockInv == \A p \in Processes : pc[p] \notin {"idle", "staged"} <=> lock = p

\* The types of the files, of the processes and of the store.
RootTypes ==
  /\ visible \in [Plugins -> Bundles \union {None}]
  /\ \A q \in Plugins : visible[q] # None => visible[q].plugin = q
  /\ {q \in Plugins : visible[q] # None} \subseteq directory /\ directory \subseteq Plugins
  /\ trash \subseteq Bundles /\ held \subseteq Bundles

ProcessTypes ==
  /\ pc \in [Processes -> States]
  /\ job \in [Processes -> JobType]
  /\ staged \in [Processes -> Bundles \union {None, Damaged}]
  /\ result \in [Processes -> {None, "done", "failed", "killed"}]
  /\ landed \in [Processes -> BOOLEAN]
  /\ lock \in Processes \union {None}
  /\ LockInv

StoreTypes ==
  /\ store \in [Plugins \X Versions -> Archives \union {None, Torn}]
  /\ commands \in 0..MaxCommands /\ faults \in 0..MaxFaults

LEMMA TypeParts == TypeOK <=> RootTypes /\ ProcessTypes /\ StoreTypes
BY DEF TypeOK, RootTypes, ProcessTypes, StoreTypes, LockInv, JobType, States

LEMMA BundleFields ==
  ASSUME NEW b \in Bundles
  PROVE  b.plugin \in Plugins /\ b.version \in Versions /\ b \in [plugin: Plugins, version: Versions, build: Builds]
BY DEF Bundles

LEMMA ArchiveFields ==
  ASSUME NEW a \in Archives
  PROVE  a.bundle \in Bundles
BY DEF Archives

LEMMA MadeArchives ==
  ASSUME NEW b \in Bundles
  PROVE  /\ Again(b) \in Archives /\ Again(b).bundle = b
         /\ Published(b) \in Archives /\ Published(b).bundle = b
BY DEF Again, Published, Archives

\* The Bundle that is visible for a Plugin is one of that Plugin.
LEMMA VisibleBundle ==
  ASSUME NamesApart, TypeOK, NEW q \in Plugins, visible[q] # None
  PROVE  visible[q] \in Bundles /\ visible[q].plugin = q /\ q \in directory
<1>1. visible[q] \in Bundles /\ visible[q].plugin = q
  BY TypeParts DEF RootTypes
<1>2. q \in {r \in Plugins : visible[r] # None}
  OBVIOUS
<1>3. {r \in Plugins : visible[r] # None} \subseteq directory
  BY TypeParts DEF RootTypes
<1> QED
  BY <1>1, <1>2, <1>3

\* What a command retains, and where: the visible Bundle, then the one it installs.
LEMMA RetainedType ==
  ASSUME NamesApart, TypeOK, NEW p \in Processes, CommandInv(p),
         pc[p] \in {"current", "copying current", "new", "copying new"}
  PROVE  /\ Retained(p) \in Archives
         /\ Place(p) = <<Retained(p).bundle.plugin, Retained(p).bundle.version>>
         /\ Place(p) \in Plugins \X Versions
         /\ pc[p] \in {"current", "copying current"} =>
              Retained(p).bundle = visible[staged[p].plugin]
<1>1. Retained(p) \in Archives /\ (pc[p] \in {"current", "copying current"} =>
                                     Retained(p).bundle = visible[staged[p].plugin])
  <2>1. CASE pc[p] \in {"current", "copying current"}
    <3>1. staged[p] \in Bundles /\ visible[staged[p].plugin] # None
      BY <2>1 DEF CommandInv, JobInv, PreparedInv, Prepared
    <3>2. visible[staged[p].plugin] \in Bundles
      BY <3>1, BundleFields, VisibleBundle
    <3> QED
      BY <2>1, <3>2, MadeArchives DEF Retained
  <2>2. CASE pc[p] \in {"new", "copying new"}
    BY <2>2 DEF Retained, CommandInv, JobInv
  <2> QED
    BY <2>1, <2>2
<1>2. Place(p) \in Plugins \X Versions
  BY <1>1, ArchiveFields, BundleFields DEF Place
<1> QED
  BY <1>1, <1>2 DEF Place

\* A command that ends, or goes on to its next step, keeps the types of what it assigns.
LEMMA EndsType ==
  ASSUME TypeOK, NEW p \in Processes, NEW o \in {"done", "failed", "killed"}, Ends(p, o)
  PROVE  /\ pc' \in [Processes -> States]
         /\ job' \in [Processes -> JobType]
         /\ staged' \in [Processes -> Bundles \union {None, Damaged}]
         /\ result' \in [Processes -> {None, "done", "failed", "killed"}]
         /\ pc'[p] = "idle" /\ lock' = IF lock = p THEN None ELSE lock
         /\ \A q \in Processes : q # p => pc'[q] = pc[q]
<1>1. Idle \in JobType
  BY DEF Idle, JobType, Ops
<1>2. job \in [Processes -> JobType] /\ pc \in [Processes -> States]
  BY DEF TypeOK, JobType, States
<1>3. job' \in [Processes -> JobType] /\ pc' \in [Processes -> States]
  BY <1>1, <1>2 DEF Ends, States
<1> QED
  BY <1>2, <1>3 DEF Ends, TypeOK

LEMMA EndsLock ==
  ASSUME NamesApart, TypeOK, NEW p \in Processes, NEW o, Ends(p, o)
  PROVE  lock' \in Processes \union {None} /\ LockInv'
BY DEF Ends, TypeOK, LockInv, NamesApart

LEMMA GoesType ==
  ASSUME TypeOK, NEW p \in Processes, lock = p, NEW to \in States \ {"idle", "staged"},
         pc' = [pc EXCEPT ![p] = to], lock' = lock
  PROVE  pc' \in [Processes -> States] /\ LockInv' /\ lock' \in Processes \union {None}
BY DEF TypeOK, States, LockInv

LEMMA ProcessStep ==
  ASSUME NamesApart, StoreInv, NEW p \in Processes, Step(p)
  PROVE  ProcessTypes'
<1> USE DEF StoreInv
<1>1. ProcessTypes
  BY TypeParts
<1>2. lock = p <=> pc[p] \notin {"idle", "staged"}
  BY <1>1 DEF ProcessTypes, LockInv
<1>3. ASSUME NEW o \in {"done", "failed", "killed"}, Ends(p, o),
             landed' = landed \/ landed' = [landed EXCEPT ![p] = FALSE]
                              \/ landed' = [landed EXCEPT ![p] = TRUE]
      PROVE  ProcessTypes'
  BY <1>1, <1>3, EndsType, EndsLock DEF ProcessTypes
<1>4. CASE Add(p) \/ Fetch(p, "install") \/ Fetch(p, "update") \/ Rollback(p)
  <2>1. /\ pc[p] = "idle" /\ pc' = [pc EXCEPT ![p] = "staged"] /\ lock' = lock
        /\ result' = [result EXCEPT ![p] = None] /\ landed' = [landed EXCEPT ![p] = FALSE]
    BY <1>4 DEF Add, Fetch, Rollback, Begins, Stages
  <2>2. \E j \in JobType : job' = [job EXCEPT ![p] = j]
    <3>1. CASE Add(p)
      <4>1. [op |-> "add", plugin |-> None, version |-> None, archive |-> None, made |-> FALSE]
              \in JobType
        BY DEF JobType, Ops
      <4> QED
        BY <3>1, <4>1 DEF Add, Begins
    <3>2. ASSUME NEW op \in {"install", "update"}, Fetch(p, op)
          PROVE  \E j \in JobType : job' = [job EXCEPT ![p] = j]
      <4> PICK release \in Bundles :
                 job' = [job EXCEPT ![p] = [op |-> op, plugin |-> release.plugin,
                   version |-> release.version, archive |-> Published(release),
                   made |-> FALSE]]
        BY <3>2 DEF Fetch
      <4>1. [op |-> op, plugin |-> release.plugin, version |-> release.version,
             archive |-> Published(release), made |-> FALSE] \in JobType
        BY BundleFields, MadeArchives DEF JobType, Ops
      <4> QED
        BY <4>1
    <3>3. CASE Rollback(p)
      <4> PICK q \in Plugins, v \in Versions : Begins(p, "rollback", q, v)
        BY <3>3 DEF Rollback
      <4>1. [op |-> "rollback", plugin |-> q, version |-> v, archive |-> None, made |-> FALSE]
              \in JobType
        BY DEF JobType, Ops
      <4> QED
        BY <4>1 DEF Begins
    <3> QED
      BY <1>4, <3>1, <3>2, <3>3
  <2>3. \E b \in Bundles \union {Damaged} : staged' = [staged EXCEPT ![p] = b]
    <3>1. CASE Rollback(p)
      <4> PICK q \in Plugins, v \in Versions :
                 store[q, v] \notin {None, Torn} /\ Stages(p, store[q, v].bundle)
        BY <3>1 DEF Rollback
      <4>1. store[q, v] \in Archives
        BY DEF TypeOK
      <4> QED
        BY <4>1, ArchiveFields DEF Stages
    <3> QED
      BY <1>4, <3>1 DEF Add, Fetch, Stages
  <2>4. LockInv' /\ pc' \in [Processes -> States]
    BY <1>1, <2>1 DEF ProcessTypes, LockInv, States
  <2>5. job' \in [Processes -> JobType] /\ staged' \in [Processes -> Bundles \union {None, Damaged}]
    BY <1>1, <2>2, <2>3 DEF ProcessTypes
  <2> QED
    BY <1>1, <2>1, <2>4, <2>5 DEF ProcessTypes
<1>5. CASE RollbackUnavailable(p) \/ Refuse(p) \/ DifferentBytes(p)
  BY <1>3, <1>5 DEF RollbackUnavailable, Refuse, DifferentBytes
<1>6. CASE Error(p) \/ PublishFails(p) \/ Kill(p)
  BY <1>3, <1>6 DEF Error, PublishFails, Kill
<1>7. CASE Retire(p)
  BY <1>3, <1>7 DEF Retire, RetireOutcome
<1>8. CASE Remove(p)
  BY <1>1, <1>8 DEF Remove, ProcessTypes, LockInv
<1>9. CASE Prepare(p)
  BY <1>1, <1>9, NamesApart DEF Prepare, AfterPrepare, ProcessTypes, LockInv, States, NamesApart
<1>10. CASE AlreadyRetained(p) \/ StartCopy(p) \/ FinishCopy(p)
  <2>1. pc[p] \notin {"idle", "staged"} /\ UNCHANGED <<lock, job, staged, result, landed>>
          /\ \E to \in States \ {"idle", "staged"} : pc' = [pc EXCEPT ![p] = to]
    BY <1>10 DEF AlreadyRetained, StartCopy, FinishCopy, Goes, AfterRetain, States
  <2> QED
    BY <1>1, <1>2, <2>1, GoesType DEF ProcessTypes
<1>11. CASE MakeParent(p)
  <2>1. pc[p] = "parent" /\ UNCHANGED <<lock, staged, result, landed>>
          /\ pc' = [pc EXCEPT ![p] = "publish"] /\ "publish" \in States \ {"idle", "staged"}
    BY <1>11 DEF MakeParent, States
  <2>2. job' \in [Processes -> JobType]
    <3>1. job' = [job EXCEPT ![p] = [job[p] EXCEPT !.made = staged[p].plugin \notin directory]]
      BY <1>11 DEF MakeParent
    <3>2. [job[p] EXCEPT !.made = staged[p].plugin \notin directory] \in JobType
      <4>1. job[p] \in JobType /\ (staged[p].plugin \notin directory) \in BOOLEAN
        BY <1>1 DEF ProcessTypes
      <4> QED
        BY <4>1 DEF JobType
    <3> QED
      BY <1>1, <3>1, <3>2 DEF ProcessTypes
  <2> QED
    BY <1>1, <1>2, <2>1, <2>2, GoesType DEF ProcessTypes
<1>12. CASE Publish(p)
  <2>1. CASE Replaces(p)
    <3>1. pc[p] = "publish" /\ UNCHANGED <<lock, job, result>>
            /\ pc' = [pc EXCEPT ![p] = "retire"] /\ "retire" \in States \ {"idle", "staged"}
            /\ landed' = [landed EXCEPT ![p] = TRUE]
            /\ staged' = [staged EXCEPT ![p] = visible[staged[p].plugin]]
      BY <1>12, <2>1 DEF Publish, States
    <3>2. visible[staged[p].plugin] \in Bundles \union {None}
      BY <3>1, BundleFields DEF CommandInv, PreparedInv, Prepared, TypeOK
    <3>3. staged' \in [Processes -> Bundles \union {None, Damaged}]
      BY <1>1, <3>1, <3>2 DEF ProcessTypes
    <3> QED
      BY <1>1, <1>2, <3>1, <3>3, GoesType DEF ProcessTypes
  <2>2. CASE ~Replaces(p)
    BY <1>3, <1>12, <2>2 DEF Publish
  <2> QED
    BY <2>1, <2>2
<1> QED
  BY <1>4, <1>5, <1>6, <1>7, <1>8, <1>9, <1>10, <1>11, <1>12 DEF Step

LEMMA StoreStep ==
  ASSUME NamesApart, StoreInv, NEW p \in Processes, Step(p)
  PROVE  StoreTypes'
<1> USE DEF StoreInv
<1>1. StoreTypes /\ CommandInv(p)
  BY TypeParts
<1>2. CASE StartCopy(p)
  <2>1. Place(p) \in Plugins \X Versions /\ store' = [store EXCEPT ![Place(p)] = Torn]
          /\ UNCHANGED <<commands, faults>>
    BY <1>2, RetainedType DEF StartCopy
  <2> QED
    BY <1>1, <2>1 DEF StoreTypes
<1>3. CASE FinishCopy(p)
  <2>1. Place(p) \in Plugins \X Versions /\ Retained(p) \in Archives
          /\ store' = [store EXCEPT ![Place(p)] = Retained(p)] /\ UNCHANGED <<commands, faults>>
    BY <1>3, RetainedType DEF FinishCopy
  <2> QED
    BY <1>1, <2>1 DEF StoreTypes
<1>4. CASE ~StartCopy(p) /\ ~FinishCopy(p)
  <2>1. UNCHANGED store
    BY <1>4 DEF Step, Add, Fetch, Rollback, RollbackUnavailable, Remove, Prepare, Refuse,
       AlreadyRetained, DifferentBytes, MakeParent, Publish, Retire, Error, PublishFails, Kill,
       Stages
  <2>2. /\ commands' = commands \/ (commands < MaxCommands /\ commands' = commands + 1)
        /\ faults' = faults \/ (faults < MaxFaults /\ faults' = faults + 1)
    BY <1>4 DEF Step, Add, Fetch, Rollback, RollbackUnavailable, Remove, Prepare, Refuse,
       AlreadyRetained, DifferentBytes, MakeParent, Publish, Retire, Error, PublishFails, Kill,
       Stages, Begins
  <2>3. commands' \in 0..MaxCommands /\ faults' \in 0..MaxFaults
    BY <1>1, <2>2 DEF StoreTypes, NamesApart
  <2> QED
    BY <1>1, <2>1, <2>3 DEF StoreTypes
<1> QED
  BY <1>2, <1>3, <1>4

LEMMA RootTypesStep ==
  ASSUME NamesApart, StoreInv, NEW p \in Processes, Step(p)
  PROVE  RootTypes'
<1> USE DEF StoreInv
<1>1. RootTypes /\ CommandInv(p)
  BY TypeParts
<1>2. CASE MakeParent(p)
  <2>1. staged[p] \in Bundles
    BY <1>1, <1>2 DEF MakeParent, CommandInv, PreparedInv, Prepared
  <2> QED
    BY <1>1, <1>2, <2>1, BundleFields DEF MakeParent, RootTypes
<1>3. CASE Publish(p)
  <2>1. staged[p] \in Bundles /\ staged[p].plugin \in directory
    BY <1>1, <1>3 DEF Publish, CommandInv, PreparedInv, Prepared, ParentInv
  <2>2. /\ visible' = [visible EXCEPT ![staged[p].plugin] = staged[p]]
        /\ held' = held \union {staged[p]} /\ UNCHANGED <<directory, trash>>
    BY <1>3 DEF Publish
  <2>3. \A q \in Plugins : visible'[q] # visible[q] =>
                             visible'[q] = staged[p] /\ q = staged[p].plugin
    BY <1>1, <2>2 DEF RootTypes
  <2> QED
    BY <1>1, <2>1, <2>2, <2>3 DEF RootTypes
<1>4. CASE Remove(p)
  <2> PICK q \in Plugins :
        \/ /\ visible' = [visible EXCEPT ![q] = None] /\ directory' = directory \ {q}
           /\ trash' = trash \union ({visible[q]} \ {None}) /\ held' = held
        \/ UNCHANGED <<visible, directory, trash, held>>
    BY <1>4 DEF Remove
  <2>1. CASE UNCHANGED <<visible, directory, trash, held>>
    BY <1>1, <2>1 DEF RootTypes
  <2>2. CASE /\ visible' = [visible EXCEPT ![q] = None] /\ directory' = directory \ {q}
             /\ trash' = trash \union ({visible[q]} \ {None}) /\ held' = held
    <3>1. \A r \in Plugins : visible'[r] = visible[r] \/ visible'[r] = None
      BY <1>1, <2>2 DEF RootTypes
    <3>2. visible'[q] = None \/ visible'[q] = visible[q]
      BY <3>1
    <3>3. {r \in Plugins : visible'[r] # None} \subseteq directory'
      <4> SUFFICES ASSUME NEW r \in Plugins, visible'[r] # None PROVE r \in directory'
        OBVIOUS
      <4>1. visible'[r] = visible[r] /\ r \in directory
        BY <1>1, <3>1 DEF RootTypes
      <4>2. visible'[q] = None
        BY <1>1, <2>2 DEF RootTypes
      <4> QED
        BY <2>2, <4>1, <4>2
    <3>4. trash' \subseteq Bundles
      BY <1>1, <2>2 DEF RootTypes
    <3> QED
      BY <1>1, <2>2, <3>1, <3>3, <3>4 DEF RootTypes
  <2> QED
    BY <2>1, <2>2
<1>5. CASE PublishFails(p)
  <2>1. directory' = directory \/ (job[p].made /\ directory' = directory \ {staged[p].plugin})
    BY <1>5 DEF PublishFails
  <2>2. job[p].made => visible[staged[p].plugin] = None
    BY <1>1, <1>5 DEF PublishFails, CommandInv, ParentInv
  <2> QED
    BY <1>1, <1>5, <2>1, <2>2 DEF PublishFails, RootTypes
<1>6. CASE ~MakeParent(p) /\ ~Publish(p) /\ ~Remove(p) /\ ~PublishFails(p)
  BY <1>1, <1>6 DEF Step, Add, Fetch, Rollback, RollbackUnavailable, Prepare, Refuse,
     AlreadyRetained, DifferentBytes, StartCopy, FinishCopy, Retire, Error, Kill,
     Stages, rootVars, RootTypes
<1> QED
  BY <1>2, <1>3, <1>4, <1>5, <1>6

LEMMA TypeStep ==
  ASSUME NamesApart, StoreInv, NEW p \in Processes, Step(p)
  PROVE  TypeOK'
<1>1. (RootTypes /\ ProcessTypes /\ StoreTypes => TypeOK)'
  BY TypeParts, PTL
<1> QED
  BY <1>1, ProcessStep, StoreStep, RootTypesStep

-----------------------------------------------------------------------------
(* The commands.                                                           *)

\* A step leaves the other commands alone: the one that holds the lock finds plugins/ and
\* the store as it left them, since nothing is changed without the lock.
LEMMA OthersStep ==
  ASSUME NamesApart, StoreInv, NEW p \in Processes, Step(p), NEW q \in Processes, q # p
  PROVE  /\ CommandInv(q)'
         /\ pc'[q] = pc[q] /\ result'[q] = result[q] /\ landed'[q] = landed[q]
<1> USE DEF StoreInv
<1>1. ProcessTypes /\ CommandInv(q)
  BY TypeParts
<1>2. /\ pc'[q] = pc[q] /\ job'[q] = job[q] /\ staged'[q] = staged[q]
      /\ result'[q] = result[q] /\ landed'[q] = landed[q]
  <2>1. CASE Add(p) \/ Fetch(p, "install") \/ Fetch(p, "update") \/ Rollback(p)
    BY <1>1, <2>1 DEF ProcessTypes, Add, Fetch, Rollback, Begins, Stages
  <2>2. CASE RollbackUnavailable(p) \/ Refuse(p) \/ DifferentBytes(p) \/ Retire(p)
               \/ Error(p) \/ PublishFails(p) \/ Kill(p)
    BY <1>1, <2>2 DEF ProcessTypes, RollbackUnavailable, Refuse, DifferentBytes, Retire, Error,
       PublishFails, Kill, Ends
  <2>3. CASE Remove(p) \/ Prepare(p) \/ MakeParent(p)
    BY <1>1, <2>3 DEF ProcessTypes, Remove, Prepare, MakeParent
  <2>4. CASE AlreadyRetained(p) \/ StartCopy(p) \/ FinishCopy(p)
    BY <1>1, <2>4 DEF ProcessTypes, AlreadyRetained, StartCopy, FinishCopy, Goes
  <2>5. CASE Publish(p)
    BY <1>1, <2>5 DEF ProcessTypes, Publish, Ends
  <2> QED
    BY <2>1, <2>2, <2>3, <2>4, <2>5 DEF Step
<1>3. CASE lock = q
  <2>1. pc[p] \in {"idle", "staged"} /\ lock # None
    BY <1>1, <1>3 DEF ProcessTypes, LockInv, NamesApart
  <2>2. UNCHANGED <<visible, directory, store>>
    BY <2>1 DEF Step, Add, Fetch, Rollback, RollbackUnavailable, Remove, Prepare, Refuse,
       AlreadyRetained, DifferentBytes, StartCopy, FinishCopy, MakeParent, Publish, Retire, Error,
       PublishFails, Kill, Stages, rootVars
  <2>3. Retained(q)' = Retained(q) /\ Place(q)' = Place(q) /\ Replaces(q)' = Replaces(q)
    BY <1>2, <2>2 DEF Retained, Place, Replaces, Again
  <2>4. JobInv(q)' /\ ParentInv(q)' /\ LandedInv(q)'
    BY <1>1, <1>2, <2>2 DEF CommandInv, JobInv, ParentInv, LandedInv, Prepared
  <2>6. PreparedInv(q)'
    <3>1. ([visible EXCEPT ![staged[q].plugin] = staged[q]])'
            = [visible EXCEPT ![staged[q].plugin] = staged[q]]
      BY <1>2, <2>2
    <3> QED
      BY <1>1, <1>2, <2>2, <3>1 DEF CommandInv, PreparedInv, Prepared
  <2>5. RetainInv(q)'
    BY <1>1, <1>2, <2>2, <2>3 DEF CommandInv, RetainInv, IsRetained
  <2> QED
    BY <1>2, <2>4, <2>5, <2>6 DEF CommandInv
<1>4. CASE lock # q
  <2>1. pc[q] \in {"idle", "staged"}
    BY <1>1, <1>4 DEF ProcessTypes, LockInv
  <2> QED
    BY <1>1, <1>2, <2>1 DEF CommandInv, JobInv, PreparedInv, RetainInv, ParentInv, LandedInv,
       Prepared
<1> QED
  BY <1>3, <1>4

\* Whole archives stay in the store.
LEMMA RetainedStay ==
  ASSUME NamesApart, StoreInv, NEW p \in Processes, Step(p), NEW b \in Bundles, IsRetained(b)
  PROVE  IsRetained(b)'
<1> USE DEF StoreInv
<1>1. StoreTypes /\ CommandInv(p)
  BY TypeParts
<1>2. b.plugin \in Plugins /\ b.version \in Versions
  BY BundleFields
<1>3. CASE StartCopy(p)
  <2>1. Place(p) \in Plugins \X Versions /\ store' = [store EXCEPT ![Place(p)] = Torn]
          /\ store[Place(p)] = None
    BY <1>1, <1>3, RetainedType DEF StartCopy
  <2>2. Place(p) # <<b.plugin, b.version>>
    BY <2>1 DEF IsRetained
  <2> QED
    BY <1>1, <1>2, <2>1, <2>2 DEF StoreTypes, IsRetained
<1>4. CASE FinishCopy(p)
  <2>1. Place(p) \in Plugins \X Versions /\ store' = [store EXCEPT ![Place(p)] = Retained(p)]
          /\ store[Place(p)] = Torn
    BY <1>1, <1>4, RetainedType DEF FinishCopy, CommandInv, RetainInv
  <2>2. Place(p) # <<b.plugin, b.version>>
    BY <2>1 DEF IsRetained
  <2> QED
    BY <1>1, <1>2, <2>1, <2>2 DEF StoreTypes, IsRetained
<1>5. CASE ~StartCopy(p) /\ ~FinishCopy(p)
  <2>1. UNCHANGED store
    BY <1>5 DEF Step, Add, Fetch, Rollback, RollbackUnavailable, Remove, Prepare, Refuse,
       AlreadyRetained, DifferentBytes, MakeParent, Publish, Retire, Error, PublishFails, Kill,
       Stages
  <2> QED
    BY <2>1 DEF IsRetained
<1> QED
  BY <1>3, <1>4, <1>5

\* A command that has retained the visible Bundle may go on to replace it.
LEMMA AfterRetaining ==
  ASSUME NamesApart, StoreInv, NEW p \in Processes, Step(p),
         pc[p] \in {"current", "copying current", "new", "copying new"},
         pc' = [pc EXCEPT ![p] = AfterRetain(p)],
         UNCHANGED <<visible, directory, job, staged, landed>>,
         store'[Place(p)] = Retained(p)
  PROVE  CommandInv(p)'
<1> USE DEF StoreInv
<1>1. ProcessTypes /\ CommandInv(p)
  BY TypeParts
<1>2. /\ pc'[p] = AfterRetain(p) /\ job'[p] = job[p] /\ staged'[p] = staged[p]
      /\ landed'[p] = landed[p] /\ visible' = visible /\ directory' = directory
  BY <1>1 DEF ProcessTypes
<1>3. /\ Prepared(p) /\ staged[p] \in Bundles /\ staged[p].plugin \in Plugins
      /\ ~job[p].made /\ landed[p] = FALSE
      /\ (job[p].op \in {"add", "install"}) <=> (visible[staged[p].plugin] = None)
      /\ BundlesResolve([visible EXCEPT ![staged[p].plugin] = staged[p]])
      /\ job[p].op \in {"install", "update"} => job[p].archive \in Archives
  BY <1>1, BundleFields DEF CommandInv, JobInv, PreparedInv, LandedInv, Prepared
<1>4. PreparedInv(p)'
  <2>1. ([visible EXCEPT ![staged[p].plugin] = staged[p]])'
          = [visible EXCEPT ![staged[p].plugin] = staged[p]]
    OBVIOUS
  <2> QED
    BY <1>3, <2>1 DEF PreparedInv
<1>5. CASE pc[p] \in {"current", "copying current"}
  <2>1. job[p].op \in {"update", "rollback"}
    BY <1>1, <1>5 DEF CommandInv, JobInv
  <2>2. /\ visible[staged[p].plugin] \in Bundles
        /\ staged[p].plugin \in directory
    BY <1>3, <2>1, VisibleBundle
  <2>3. IsRetained(visible[staged[p].plugin])'
    <3>1. Retained(p) \in Archives /\ Retained(p).bundle = visible[staged[p].plugin]
            /\ Place(p) = <<Retained(p).bundle.plugin, Retained(p).bundle.version>>
      BY <1>1, <1>5, RetainedType
    <3>2. Retained(p) \notin {None, Torn}
      BY <3>1 DEF NamesApart
    <3> QED
      BY <1>2, <3>1, <3>2 DEF IsRetained
  <2>4. CASE job[p].op = "update"
    <3>1. pc'[p] = "new" /\ job'[p].op = "update"
      BY <1>2, <1>5, <2>4 DEF AfterRetain
    <3>2. ~job'[p].made /\ job'[p].archive \in Archives /\ landed'[p] = FALSE
      BY <1>2, <1>3, <2>4
    <3> QED
      BY <1>4, <2>3, <3>1, <3>2
      DEF CommandInv, JobInv, RetainInv, ParentInv, LandedInv, Prepared
  <2>5. CASE job[p].op = "rollback"
    <3>1. pc'[p] = "publish" /\ job'[p].op = "rollback"
      BY <1>2, <1>5, <2>5 DEF AfterRetain
    <3>2. ~job'[p].made /\ landed'[p] = FALSE
      BY <1>2, <1>3
    <3>3. staged'[p].plugin \in directory'
      BY <1>2, <2>2
    <3> QED
      BY <1>4, <2>3, <3>1, <3>2, <3>3
      DEF CommandInv, JobInv, RetainInv, ParentInv, LandedInv, Prepared
  <2> QED
    BY <2>1, <2>4, <2>5
<1>6. CASE pc[p] \in {"new", "copying new"}
  <2>1. job[p].op \in {"install", "update"} /\ job[p].archive \in Archives
    BY <1>1, <1>6 DEF CommandInv, JobInv
  <2>2. ~job'[p].made /\ job'[p].archive \in Archives /\ landed'[p] = FALSE
    BY <1>2, <1>3, <2>1
  <2>3. CASE job[p].op = "install"
    <3>1. pc'[p] = "parent" /\ job'[p].op = "install"
      BY <1>2, <1>6, <2>3 DEF AfterRetain
    <3> QED
      BY <1>4, <2>2, <3>1
      DEF CommandInv, JobInv, RetainInv, ParentInv, LandedInv, Prepared
  <2>4. CASE job[p].op = "update"
    <3>1. pc'[p] = "publish" /\ job'[p].op = "update"
      BY <1>2, <1>6, <2>4 DEF AfterRetain
    <3>2. visible[staged[p].plugin] \in Bundles /\ staged[p].plugin \in directory
      BY <1>3, <2>4, VisibleBundle
    <3>3. IsRetained(visible[staged[p].plugin])
      BY <1>1, <1>6, <2>4 DEF CommandInv, RetainInv, Replaces
    <3>4. IsRetained(visible[staged[p].plugin])'
      <4> DEFINE b == visible[staged[p].plugin]
      <4>1. b \in Bundles /\ IsRetained(b)
        BY <3>2, <3>3
      <4>2. /\ store'[b.plugin, b.version] \notin {None, Torn}
            /\ store'[b.plugin, b.version].bundle = b
        <5> HIDE DEF b
        <5> QED
          BY <4>1, RetainedStay DEF IsRetained
      <4>3. (visible[staged[p].plugin])' = b
        BY <1>2
      <4> QED
        BY <4>2, <4>3 DEF IsRetained
    <3>5. staged'[p].plugin \in directory'
      BY <1>2, <3>2
    <3> QED
      BY <1>4, <2>2, <3>1, <3>4, <3>5
      DEF CommandInv, JobInv, RetainInv, ParentInv, LandedInv, Prepared
  <2> QED
    BY <2>1, <2>3, <2>4
<1> QED
  BY <1>5, <1>6
\* Each step of a command keeps what it needs for its next one.
LEMMA CommandStep ==
  ASSUME NamesApart, StoreInv, NEW p \in Processes, Step(p)
  PROVE  CommandInv(p)'
<1> USE DEF StoreInv
<1>1. ProcessTypes /\ CommandInv(p)
  BY TypeParts
<1>2. ASSUME NEW o, Ends(p, o) PROVE CommandInv(p)'
  <2>1. pc'[p] = "idle" /\ job'[p] = Idle
    BY <1>1, <1>2 DEF ProcessTypes, Ends
  <2>2. ~job'[p].made
    BY <2>1 DEF Idle
  <2> QED
    BY <2>1, <2>2
    DEF CommandInv, JobInv, PreparedInv, RetainInv, ParentInv, LandedInv, Prepared
<1>3. ASSUME pc'[p] = "staged", landed'[p] = FALSE, staged'[p] \in Bundles \union {Damaged},
             ~job'[p].made, job'[p].op # "remove",
             job'[p].op \in {"install", "update"} => job'[p].archive \in Archives
      PROVE  CommandInv(p)'
  BY <1>3 DEF CommandInv, JobInv, PreparedInv, RetainInv, ParentInv, LandedInv, Prepared
<1>4. CASE Add(p)
  <2>1. /\ pc'[p] = "staged" /\ landed'[p] = FALSE /\ staged'[p] \in Bundles \union {Damaged}
        /\ job'[p] = [op |-> "add", plugin |-> None, version |-> None, archive |-> None,
                      made |-> FALSE]
    BY <1>1, <1>4 DEF Add, Begins, Stages, ProcessTypes
  <2>2. ~job'[p].made /\ job'[p].op = "add"
    BY <2>1
  <2> QED
    BY <1>3, <2>1, <2>2
<1>5. ASSUME NEW op \in {"install", "update"}, Fetch(p, op) PROVE CommandInv(p)'
  <2> PICK release, content \in Bundles :
        /\ job' = [job EXCEPT ![p] = [op |-> op, plugin |-> release.plugin,
                     version |-> release.version, archive |-> Published(release),
                     made |-> FALSE]]
        /\ landed' = [landed EXCEPT ![p] = FALSE]
        /\ Stages(p, content)
    BY <1>5 DEF Fetch
  <2>1. /\ pc'[p] = "staged" /\ landed'[p] = FALSE /\ staged'[p] \in Bundles \union {Damaged}
    BY <1>1 DEF Stages, ProcessTypes
  <2>2. job'[p] = [op |-> op, plugin |-> release.plugin, version |-> release.version,
                   archive |-> Published(release), made |-> FALSE]
    BY <1>1 DEF ProcessTypes
  <2>3. job'[p].op = op /\ ~job'[p].made /\ job'[p].archive \in Archives
    BY <2>2, MadeArchives
  <2> QED
    BY <1>3, <2>1, <2>3
<1>6. CASE Rollback(p)
  <2>0. PICK q \in Plugins, v \in Versions :
              /\ Begins(p, "rollback", q, v) /\ store[q, v] \notin {None, Torn}
              /\ Stages(p, store[q, v].bundle)
    BY <1>6 DEF Rollback
  <2>1. store[q, v] \in Archives
    BY <2>0, TypeParts DEF StoreTypes
  <2>2. pc'[p] = "staged" /\ landed'[p] = FALSE /\ staged'[p] \in Bundles \union {Damaged}
    BY <1>1, <2>0, <2>1, ArchiveFields DEF Begins, Stages, ProcessTypes
  <2>3. job'[p] = [op |-> "rollback", plugin |-> q, version |-> v, archive |-> None,
                   made |-> FALSE]
    BY <1>1, <2>0 DEF Begins, ProcessTypes
  <2>4. ~job'[p].made /\ job'[p].op = "rollback"
    BY <2>3
  <2> QED
    BY <1>3, <2>2, <2>4
<1>7. CASE RollbackUnavailable(p) \/ Refuse(p) \/ DifferentBytes(p) \/ Retire(p)
             \/ Error(p) \/ PublishFails(p) \/ Kill(p)
  BY <1>2, <1>7 DEF RollbackUnavailable, Refuse, DifferentBytes, Retire, Error,
     PublishFails, Kill
<1>8. CASE Remove(p)
  <2>1. pc[p] = "idle" /\ UNCHANGED <<pc, job, staged>>
    BY <1>8 DEF Remove
  <2>2. ~job[p].made
    BY <1>1, <2>1 DEF CommandInv, JobInv
  <2> QED
    BY <2>1, <2>2
    DEF CommandInv, JobInv, PreparedInv, RetainInv, ParentInv, LandedInv, Prepared
<1>9. CASE Prepare(p)
  <2>1. /\ pc[p] = "staged" /\ pc'[p] = AfterPrepare(job[p].op)
        /\ job' = job /\ staged' = staged /\ landed' = landed /\ visible' = visible
    BY <1>1, <1>9 DEF Prepare, ProcessTypes, rootVars
  <2>2. /\ staged[p] \in Bundles /\ Admissible(job[p].op, staged[p])
        /\ landed[p] = FALSE /\ ~job[p].made
        /\ job[p].op \in {"add", "install", "update", "rollback"}
        /\ job[p].op \in {"install", "update"} => job[p].archive \in Archives
    <3>1. job[p].op \in Ops
      BY <1>1 DEF ProcessTypes, JobType
    <3> QED
      BY <1>1, <1>9, <2>1, <3>1 DEF Prepare, CommandInv, JobInv, LandedInv, Ops
  <2>3. PreparedInv(p)'
    <3>1. ([visible EXCEPT ![staged[p].plugin] = staged[p]])'
            = [visible EXCEPT ![staged[p].plugin] = staged[p]]
      BY <2>1
    <3> QED
      BY <2>1, <2>2, <3>1 DEF PreparedInv, Admissible
  <2>4. CASE job[p].op = "add"
    <3>1. pc'[p] = "parent" /\ job'[p].op = "add" /\ ~job'[p].made /\ landed'[p] = FALSE
      BY <2>1, <2>2, <2>4 DEF AfterPrepare
    <3> QED
      BY <2>3, <3>1 DEF CommandInv, JobInv, RetainInv, ParentInv, LandedInv, Prepared
  <2>5. CASE job[p].op = "install"
    <3>1. pc'[p] = "new" /\ job'[p].op = "install" /\ ~job'[p].made /\ landed'[p] = FALSE
            /\ job'[p].archive \in Archives
      BY <2>1, <2>2, <2>5 DEF AfterPrepare
    <3> QED
      BY <2>3, <3>1
      DEF CommandInv, JobInv, RetainInv, ParentInv, LandedInv, Prepared, Replaces
  <2>6. CASE job[p].op \in {"update", "rollback"}
    <3>1. /\ pc'[p] = "current" /\ job'[p].op \in {"update", "rollback"} /\ ~job'[p].made
          /\ landed'[p] = FALSE
          /\ job'[p].op = "update" => job'[p].archive \in Archives
      BY <2>1, <2>2, <2>6 DEF AfterPrepare
    <3> QED
      BY <2>3, <3>1 DEF CommandInv, JobInv, RetainInv, ParentInv, LandedInv, Prepared
  <2> QED
    BY <2>2, <2>4, <2>5, <2>6
<1>10. CASE AlreadyRetained(p)
  <2>1. pc[p] \in {"current", "copying current", "new", "copying new"}
    BY <1>10 DEF AlreadyRetained
  <2> QED
    BY <1>10, <2>1, AfterRetaining DEF AlreadyRetained, Goes, rootVars
<1>11. CASE FinishCopy(p)
  <2>1. /\ pc[p] \in {"current", "copying current", "new", "copying new"}
        /\ Place(p) \in Plugins \X Versions
    BY <1>1, <1>11, RetainedType DEF FinishCopy
  <2>2. store'[Place(p)] = Retained(p)
    BY <1>11, <2>1, TypeParts DEF FinishCopy, StoreTypes
  <2> QED
    BY <1>11, <2>1, <2>2, AfterRetaining DEF FinishCopy, Goes, rootVars
<1>12. CASE StartCopy(p)
  <2>1. /\ pc[p] \in {"current", "copying current", "new", "copying new"}
        /\ Place(p) \in Plugins \X Versions
    BY <1>1, <1>12, RetainedType DEF StartCopy
  <2>2. store'[Place(p)] = Torn
    BY <1>12, <2>1, TypeParts DEF StartCopy, StoreTypes
  <2>3. /\ job'[p] = job[p] /\ staged'[p] = staged[p] /\ landed'[p] = landed[p]
        /\ visible' = visible /\ job' = job /\ staged' = staged
    BY <1>12 DEF StartCopy, Goes, rootVars
  <2>4. /\ pc[p] \in {"current", "new"}
        /\ pc[p] = "current" => pc'[p] = "copying current"
        /\ pc[p] = "new" => pc'[p] = "copying new"
    BY <1>1, <1>12 DEF StartCopy, Goes, ProcessTypes
  <2>5. /\ staged[p] \in Bundles /\ landed[p] = FALSE /\ ~job[p].made /\ PreparedInv(p)
        /\ job[p].op # "remove"
        /\ job[p].op \in {"install", "update"} => job[p].archive \in Archives
    BY <1>1, <2>4 DEF CommandInv, JobInv, PreparedInv, LandedInv, Prepared
  <2>6. PreparedInv(p)'
    <3>1. ([visible EXCEPT ![staged[p].plugin] = staged[p]])'
            = [visible EXCEPT ![staged[p].plugin] = staged[p]]
      BY <2>3
    <3> QED
      BY <2>3, <2>4, <2>5, <3>1 DEF PreparedInv, Prepared
  <2>7. Place(p)' = Place(p)
    BY <2>3, <2>4 DEF Place, Retained, Again
  <2>8. (store[Place(p)])' = Torn
    BY <2>2, <2>7
  <2>9. CASE pc[p] = "current"
    <3>1. pc'[p] = "copying current" /\ job'[p].op \in {"update", "rollback"}
      BY <1>1, <2>3, <2>4, <2>9 DEF CommandInv, JobInv
    <3> QED
      BY <2>3, <2>5, <2>6, <2>8, <3>1
      DEF CommandInv, JobInv, RetainInv, ParentInv, LandedInv, Prepared
  <2>10. CASE pc[p] = "new"
    <3>1. pc'[p] = "copying new" /\ job'[p].op \in {"install", "update"}
      BY <1>1, <2>3, <2>4, <2>10 DEF CommandInv, JobInv
    <3>2. ASSUME job[p].op = "update" PROVE IsRetained(visible[staged[p].plugin])'
      <4> DEFINE b == visible[staged[p].plugin]
      <4>1. staged[p].plugin \in Plugins /\ b # None
        BY <2>5, <3>2, <2>10, BundleFields DEF PreparedInv, Prepared
      <4>2. b \in Bundles
        BY <4>1, VisibleBundle
      <4>3. IsRetained(b)
        BY <1>1, <2>10, <3>2 DEF CommandInv, RetainInv, Replaces
      <4>4. /\ store'[b.plugin, b.version] \notin {None, Torn}
            /\ store'[b.plugin, b.version].bundle = b
        <5> HIDE DEF b
        <5> QED
          BY <4>2, <4>3, RetainedStay DEF IsRetained
      <4>5. (visible[staged[p].plugin])' = b
        BY <2>3
      <4> QED
        BY <4>4, <4>5 DEF IsRetained
    <3>3. RetainInv(p)'
      <4>1. Replaces(p)' => job[p].op = "update"
        BY <2>3, <3>1 DEF Replaces
      <4> QED
        BY <2>8, <3>2, <4>1 DEF RetainInv
    <3> QED
      BY <2>3, <2>5, <2>6, <3>1, <3>3
      DEF CommandInv, JobInv, ParentInv, LandedInv, Prepared
  <2> QED
    BY <2>4, <2>9, <2>10
<1>13. CASE MakeParent(p)
  <2>1. /\ pc[p] = "parent" /\ pc'[p] = "publish" /\ visible' = visible /\ staged' = staged
        /\ landed' = landed /\ directory' = directory \union {staged[p].plugin}
    BY <1>1, <1>13 DEF MakeParent, ProcessTypes
  <2>2. job'[p].op = job[p].op /\ job'[p].archive = job[p].archive
    <3>1. job'[p] = [job[p] EXCEPT !.made = staged[p].plugin \notin directory]
      BY <1>1, <1>13 DEF MakeParent, ProcessTypes
    <3>2. job[p] \in JobType
      BY <1>1 DEF ProcessTypes
    <3> QED
      BY <3>1, <3>2 DEF JobType
  <2>3. /\ job[p].op \in {"add", "install"} /\ PreparedInv(p) /\ landed[p] = FALSE
        /\ job[p].op = "install" => job[p].archive \in Archives
    BY <1>1, <2>1 DEF CommandInv, JobInv, LandedInv, Prepared
  <2>4. PreparedInv(p)' /\ visible'[staged'[p].plugin] = None
    <3>1. ([visible EXCEPT ![staged[p].plugin] = staged[p]])'
            = [visible EXCEPT ![staged[p].plugin] = staged[p]]
      BY <2>1
    <3> QED
      BY <2>1, <2>2, <2>3, <3>1 DEF PreparedInv, Prepared
  <2> QED
    BY <2>1, <2>2, <2>3, <2>4
    DEF CommandInv, JobInv, RetainInv, ParentInv, LandedInv, Prepared, Replaces
<1>14. CASE Publish(p)
  <2>1. CASE Replaces(p)
    <3>1. pc[p] = "publish" /\ pc'[p] = "retire" /\ job' = job /\ landed'[p] = TRUE
      BY <1>1, <1>14, <2>1 DEF Publish, ProcessTypes
    <3>2. /\ ~job[p].made /\ job[p].op # "remove"
          /\ job[p].op \in {"install", "update"} => job[p].archive \in Archives
      BY <1>1, <2>1, <3>1 DEF CommandInv, JobInv, Replaces
    <3> QED
      BY <3>1, <3>2
      DEF CommandInv, JobInv, PreparedInv, RetainInv, ParentInv, LandedInv, Prepared
  <2>2. CASE ~Replaces(p)
    BY <1>2, <1>14, <2>2 DEF Publish
  <2> QED
    BY <2>1, <2>2
<1> QED
  BY <1>4, <1>5, <1>6, <1>7, <1>8, <1>9, <1>10, <1>11, <1>12, <1>13, <1>14 DEF Step

-----------------------------------------------------------------------------
(* What plugins/ and the store promise.                                    *)

\* plugins/ changes by an exchange or by a removal, and both were resolved first, under
\* the lock that still held.
LEMMA ResolvesStep ==
  ASSUME NamesApart, StoreInv, NEW p \in Processes, Step(p)
  PROVE  RootResolves'
<1> USE DEF StoreInv
<1>1. CASE Publish(p)
  <2>1. BundlesResolve([visible EXCEPT ![staged[p].plugin] = staged[p]])
    BY <1>1 DEF Publish, CommandInv, PreparedInv, Prepared
  <2>2. visible' = [visible EXCEPT ![staged[p].plugin] = staged[p]]
    BY <1>1 DEF Publish
  <2> QED
    BY <2>1, <2>2 DEF RootResolves
<1>2. CASE Remove(p)
  <2>1. PICK q \in Plugins :
          \/ visible' = visible
          \/ /\ BundlesResolve([visible EXCEPT ![q] = None])
             /\ visible' = [visible EXCEPT ![q] = None]
    BY <1>2 DEF Remove
  <2> QED
    BY <2>1 DEF RootResolves
<1>3. CASE ~Publish(p) /\ ~Remove(p)
  <2>1. visible' = visible
    BY <1>3 DEF Step, Add, Fetch, Rollback, RollbackUnavailable, Prepare, Refuse,
       AlreadyRetained, DifferentBytes, StartCopy, FinishCopy, MakeParent, Retire, Error,
       PublishFails, Kill, Stages, rootVars
  <2> QED
    BY <2>1 DEF RootResolves
<1> QED
  BY <1>1, <1>2, <1>3

\* A Bundle leaves plugins/ for the trash, or when the store has it.
LEMMA KeptStep ==
  ASSUME NamesApart, StoreInv, NEW p \in Processes, Step(p)
  PROVE  NothingIsLost'
<1> USE DEF StoreInv
<1>1. RootTypes /\ CommandInv(p)
  BY TypeParts
<1>2. ASSUME NEW b \in held
      PROVE  b \in Bundles /\ b # None /\ b.plugin \in Plugins
             /\ (visible[b.plugin] = b \/ IsRetained(b) \/ b \in trash)
  BY <1>1, <1>2, BundleFields DEF RootTypes, NothingIsLost, IsRetained, NamesApart
<1>3. ASSUME NEW b \in held', b \in held /\ visible'[b.plugin] = visible[b.plugin],
             trash \subseteq trash'
      PROVE  visible'[b.plugin] = b \/ IsRetained(b)' \/ b \in trash'
  BY <1>2, <1>3, RetainedStay
<1>4. ASSUME \A b \in held' : visible'[b.plugin] = b \/ IsRetained(b)' \/ b \in trash'
      PROVE  NothingIsLost'
  BY <1>4 DEF NothingIsLost, IsRetained
<1>5. CASE Publish(p)
  <2>1. /\ visible' = [visible EXCEPT ![staged[p].plugin] = staged[p]]
        /\ held' = held \union {staged[p]} /\ trash' = trash
        /\ staged[p] \in Bundles /\ staged[p].plugin \in Plugins /\ pc[p] = "publish"
    BY <1>1, <1>5, BundleFields DEF Publish, CommandInv, PreparedInv, Prepared
  <2>2. visible'[staged[p].plugin] = staged[p]
          /\ \A q \in Plugins : q # staged[p].plugin => visible'[q] = visible[q]
    BY <1>1, <2>1 DEF RootTypes
  <2> SUFFICES ASSUME NEW b \in held', b # staged[p]
               PROVE  visible'[b.plugin] = b \/ IsRetained(b)' \/ b \in trash'
    BY <1>4, <2>2
  <2>3. b \in held
    BY <2>1
  <2>4. CASE visible[b.plugin] = b /\ b.plugin = staged[p].plugin
    <3>1. Replaces(p)
      <4>1. visible[staged[p].plugin] # None
        BY <1>2, <2>3, <2>4
      <4>2. job[p].op \in Ops
        BY TypeParts DEF ProcessTypes, JobType
      <4> QED
        BY <1>1, <2>1, <4>1, <4>2 DEF CommandInv, JobInv, PreparedInv, Prepared, Replaces, Ops
    <3>2. IsRetained(b)
      BY <1>1, <2>1, <2>4, <3>1 DEF CommandInv, RetainInv
    <3> QED
      BY <1>2, <2>3, <3>2, RetainedStay
  <2>5. CASE visible[b.plugin] = b /\ b.plugin # staged[p].plugin
    BY <1>2, <2>2, <2>3, <2>5
  <2>6. CASE IsRetained(b) \/ b \in trash
    BY <1>2, <2>1, <2>3, <2>6, RetainedStay
  <2> QED
    BY <1>2, <2>3, <2>4, <2>5, <2>6
<1>6. CASE Remove(p)
  <2> PICK q \in Plugins :
        \/ /\ visible' = [visible EXCEPT ![q] = None]
           /\ trash' = trash \union ({visible[q]} \ {None}) /\ held' = held
        \/ UNCHANGED <<visible, trash, held>>
    BY <1>6 DEF Remove
  <2> SUFFICES ASSUME NEW b \in held'
               PROVE  visible'[b.plugin] = b \/ IsRetained(b)' \/ b \in trash'
    BY <1>4
  <2>1. b \in held /\ trash \subseteq trash'
    OBVIOUS
  <2>2. CASE visible[b.plugin] = b /\ b.plugin = q
    <3>1. b # None
      BY <1>2, <2>1
    <3> QED
      BY <2>2, <3>1
  <2>3. CASE b.plugin # q
    <3>1. visible'[b.plugin] = visible[b.plugin]
      BY <1>1, <1>2, <2>1, <2>3 DEF RootTypes
    <3> QED
      BY <1>3, <2>1, <3>1
  <2>4. CASE IsRetained(b) \/ b \in trash
    BY <1>2, <2>1, <2>4, RetainedStay
  <2> QED
    BY <1>2, <2>1, <2>2, <2>3, <2>4
<1>7. CASE ~Publish(p) /\ ~Remove(p)
  <2>1. visible' = visible /\ trash' = trash /\ held' = held
    BY <1>7 DEF Step, Add, Fetch, Rollback, RollbackUnavailable, Prepare, Refuse,
       AlreadyRetained, DifferentBytes, StartCopy, FinishCopy, MakeParent, Retire, Error,
       PublishFails, Kill, Stages, rootVars
  <2> QED
    BY <1>3, <1>4, <2>1
<1> QED
  BY <1>5, <1>6, <1>7

\* A command that ends says whether it changed plugins/, which is so from the rename on.
LEMMA ReportsStep ==
  ASSUME NamesApart, StoreInv, NEW p \in Processes, Step(p)
  PROVE  ReportsItsCommit'
<1> USE DEF StoreInv
<1>1. ProcessTypes /\ CommandInv(p)
  BY TypeParts
<1>2. ASSUME NEW o, Ends(p, o) PROVE result'[p] = o
  BY <1>1, <1>2 DEF ProcessTypes, Ends
<1>3. ASSUME NEW q \in Processes, q # p, pc'[q] = "idle", result'[q] \in {"done", "failed"}
      PROVE  (result'[q] = "done") = landed'[q]
  <2>1. pc'[q] = pc[q] /\ result'[q] = result[q] /\ landed'[q] = landed[q]
    BY <1>3, OthersStep
  <2> QED
    BY <1>3, <2>1 DEF ReportsItsCommit
<1>4. ASSUME pc'[p] = "idle", result'[p] \in {"done", "failed"}
      PROVE  \/ result'[p] = "done" /\ landed'[p] = TRUE
             \/ result'[p] = "failed" /\ landed'[p] = FALSE
  <2>1. CASE Add(p) \/ Fetch(p, "install") \/ Fetch(p, "update") \/ Rollback(p)
    BY <1>1, <1>4, <2>1 DEF Add, Fetch, Rollback, Stages, ProcessTypes
  <2>2. CASE RollbackUnavailable(p)
    BY <1>1, <1>2, <2>2 DEF RollbackUnavailable, ProcessTypes
  <2>3. CASE Refuse(p) \/ DifferentBytes(p) \/ Error(p) \/ PublishFails(p)
    <3>1. pc[p] = "staged" \/ Prepared(p)
      <4>1. pc[p] \in States
        BY <1>1 DEF ProcessTypes
      <4> QED
        BY <2>3, <4>1 DEF Refuse, DifferentBytes, Error, PublishFails, Prepared, States
    <3>2. landed[p] = FALSE /\ landed' = landed
      BY <1>1, <2>3, <3>1 DEF CommandInv, LandedInv, Refuse, DifferentBytes, Error, PublishFails
    <3>3. result'[p] = "failed"
      BY <1>2, <2>3 DEF Refuse, DifferentBytes, Error, PublishFails
    <3> QED
      BY <3>2, <3>3
  <2>4. CASE Retire(p)
    BY <1>1, <1>2, <2>4 DEF Retire, RetireOutcome, CommandInv, LandedInv
  <2>5. CASE Kill(p)
    BY <1>2, <1>4, <2>5 DEF Kill
  <2>6. CASE Remove(p)
    BY <1>1, <2>6 DEF Remove, ProcessTypes
  <2>7. CASE Prepare(p)
    BY <1>1, <1>4, <2>7 DEF Prepare, AfterPrepare, ProcessTypes
  <2>8. CASE AlreadyRetained(p) \/ StartCopy(p) \/ FinishCopy(p)
    BY <1>1, <1>4, <2>8 DEF AlreadyRetained, StartCopy, FinishCopy, Goes, AfterRetain,
       ProcessTypes
  <2>9. CASE MakeParent(p)
    BY <1>1, <1>4, <2>9 DEF MakeParent, ProcessTypes
  <2>10. CASE Publish(p)
    BY <1>1, <1>2, <1>4, <2>10 DEF Publish, ProcessTypes
  <2> QED
    BY <2>1, <2>2, <2>3, <2>4, <2>5, <2>6, <2>7, <2>8, <2>9, <2>10 DEF Step
<1>5. ASSUME NEW q \in Processes, pc'[q] = "idle", result'[q] \in {"done", "failed"}
      PROVE  (result'[q] = "done") = landed'[q]
  BY <1>3, <1>4, <1>5
<1> QED
  BY <1>5 DEF ReportsItsCommit

-----------------------------------------------------------------------------
LEMMA InitStore ==
  ASSUME NamesApart, Init
  PROVE  StoreInv
<1>1. RootTypes
  <2>1. held = {visible[q] : q \in Plugins} \ {None} /\ trash = {}
          /\ visible \in [Plugins -> Bundles \union {None}]
    BY DEF Init
  <2>2. held \subseteq Bundles
    BY <2>1
  <2> QED
    BY <2>1, <2>2 DEF Init, RootTypes
<1>2. ProcessTypes
  <2>1. Idle \in JobType
    BY DEF Idle, JobType, Ops
  <2> QED
    BY <2>1 DEF Init, ProcessTypes, LockInv, States, NamesApart
<1>3. StoreTypes
  <2>1. 0 \in 0..MaxCommands /\ 0 \in 0..MaxFaults
    BY DEF NamesApart
  <2> QED
    BY <2>1 DEF Init, StoreTypes
<1>4. ASSUME NEW p \in Processes PROVE CommandInv(p)
  <2>1. pc[p] = "idle" /\ job[p] = Idle
    BY DEF Init
  <2>2. ~job[p].made
    BY <2>1 DEF Idle
  <2> QED
    BY <2>1, <2>2
    DEF CommandInv, JobInv, PreparedInv, RetainInv, ParentInv, LandedInv, Prepared
<1>5. NothingIsLost
  <2>1. ASSUME NEW b \in held PROVE visible[b.plugin] = b
    <3> PICK q \in Plugins : b = visible[q] /\ b # None
      BY <2>1 DEF Init
    <3>1. b.plugin = q
      BY <1>1 DEF RootTypes
    <3> QED
      BY <3>1
  <2> QED
    BY <2>1 DEF NothingIsLost
<1>6. RootResolves /\ ReportsItsCommit
  <2>1. \A p \in Processes : result[p] = None /\ landed[p] = FALSE
    BY DEF Init
  <2>2. ASSUME NEW p \in Processes, result[p] \in {"done", "failed"}
        PROVE  (result[p] = "done") = landed[p]
    BY <2>1, <2>2 DEF NamesApart
  <2> QED
    BY <2>2 DEF Init, RootResolves, ReportsItsCommit
<1> QED
  BY <1>1, <1>2, <1>3, <1>4, <1>5, <1>6, TypeParts DEF StoreInv

LEMMA StoreSteps ==
  ASSUME NamesApart, StoreInv, [Next]_vars
  PROVE  StoreInv'
<1>1. ASSUME NEW p \in Processes, Step(p) PROVE StoreInv'
  <2>1. ASSUME NEW q \in Processes PROVE CommandInv(q)'
    BY <1>1, <2>1, CommandStep, OthersStep
  <2> QED
    BY <1>1, <2>1, TypeStep, ResolvesStep, KeptStep, ReportsStep DEF StoreInv
<1>2. CASE UNCHANGED vars
  BY <1>2 DEF vars, StoreInv, TypeOK, CommandInv, JobInv, PreparedInv, RetainInv, ParentInv,
     LandedInv, Prepared, Replaces, Place, Retained, Again, IsRetained, RootResolves,
     NothingIsLost, ReportsItsCommit
<1> QED
  BY <1>1, <1>2 DEF Next

\* The inductive invariant of the commands.
THEOREM StoreIsKept ==
  ASSUME NamesApart
  PROVE  Spec => []StoreInv
<1>1. Init => StoreInv
  BY InitStore
<1>2. StoreInv /\ [Next]_vars => StoreInv'
  BY StoreSteps
<1> QED
  BY <1>1, <1>2, PTL DEF Spec

\* The state always has its types.
THEOREM StoreTypesHold ==
  ASSUME NamesApart
  PROVE  Spec => []TypeOK
<1>1. StoreInv => TypeOK
  BY DEF StoreInv
<1> QED
  BY <1>1, StoreIsKept, PTL

\* The App in plugins/ resolves at each moment: whatever was verified under the lock is
\* what the rename makes visible, however commands interleave and fail.
THEOREM AppAlwaysResolves ==
  ASSUME NamesApart
  PROVE  Spec => []RootResolves
<1>1. StoreInv => RootResolves
  BY DEF StoreInv
<1> QED
  BY <1>1, StoreIsKept, PTL

\* Each Bundle that was ever visible can be brought back: it is visible, whole in the
\* store, or in the trash.
THEOREM BundlesAreKept ==
  ASSUME NamesApart
  PROVE  Spec => []NothingIsLost
<1>1. StoreInv => NothingIsLost
  BY DEF StoreInv
<1> QED
  BY <1>1, StoreIsKept, PTL

\* A command reports success if and only if it changed plugins/.
THEOREM ReportsAreTrue ==
  ASSUME NamesApart
  PROVE  Spec => []ReportsItsCommit
<1>1. StoreInv => ReportsItsCommit
  BY DEF StoreInv
<1> QED
  BY <1>1, StoreIsKept, PTL
=============================================================================
