----------------------- MODULE RootTransaction_proofs -----------------------
(***************************************************************************)
(* Theorems about RootTransaction, for every set of files, contents,       *)
(* processes, change sets and transaction identities.                      *)
(***************************************************************************)
EXTENDS RootTransaction, TLAPS

----------------------------------------------------------------------------
\* Change sets.

\* A change set is a function from a set of files to values.
LEMMA ChangeSetElim ==
  ASSUME NEW c \in ChangeSets
  PROVE  /\ DOMAIN c \subseteq Files
         /\ c = [f \in DOMAIN c |-> c[f]]
         /\ \A f \in DOMAIN c : c[f] \in Values
BY DEF ChangeSets

LEMMA ChangeSetIntro ==
  ASSUME NEW S \in SUBSET Files, NEW c \in [S -> Values]
  PROVE  c \in ChangeSets
BY DEF ChangeSets

LEMMA NoPlanType == NoPlan \in ChangeSets /\ DOMAIN NoPlan = {}
<1>1. NoPlan \in [{} -> Values]
  BY DEF NoPlan
<1>2. QED
  BY <1>1, ChangeSetIntro DEF NoPlan

\* The bytes at the paths of a change set form a change set again.
LEMMA CurrentType ==
  ASSUME TypeOK, NEW c \in ChangeSets
  PROVE  Current(c) \in ChangeSets /\ DOMAIN Current(c) = DOMAIN c
<1>1. DOMAIN c \in SUBSET Files
  BY ChangeSetElim
<1>2. Current(c) \in [DOMAIN c -> Values]
  BY <1>1 DEF Current, TypeOK, Roots, WriterStates
<1>3. QED
  BY <1>1, <1>2, ChangeSetIntro DEF Current

----------------------------------------------------------------------------
\* What the state of a writer says about the lock, the guard and the record.
\* It does not depend on what people do to the files.
WriterInv(w) ==
  /\ holder = w <=> pc[w] \notin {"idle", "inspected"}
  /\ todo[w] \subseteq DOMAIN plan[w]
  /\ tmp[w] # NoFile => pc[w] \in Writing /\ tmp[w] \in todo[w]
  /\ pc[w] \in {"ready", "staged", "direct", "published", "recovered"} =>
       guard = NoGuard
  /\ pc[w] = "guarding" => guard = Torn
  /\ pc[w] \in {"applying", "committed", "recovering", "restored"} =>
       guard = txn[w]
  /\ pc[w] \in {"staged", "guarding", "applying", "committed",
                "recovering", "restored", "published", "recovered"} =>
       txn[w] \in Txns /\ staging[txn[w]] # NoRecord
  /\ pc[w] \in {"staged", "guarding", "applying"} =>
       staging[txn[w]].status = "prepared" /\ plan[w] = staging[txn[w]].new
  /\ pc[w] = "committed" =>
       staging[txn[w]].status = "committed" /\ plan[w] = staging[txn[w]].new
  /\ pc[w] \in {"recovering", "restored"} => plan[w] = Target(staging[txn[w]])
  /\ pc[w] \in {"staged", "guarding"} => todo[w] = DOMAIN plan[w]

\* A record has old and new bytes for the same paths, and the guard names a
\* record that exists.
RecordInv ==
  /\ \A t \in Txns : staging[t] # NoRecord => DOMAIN staging[t].old = DOMAIN staging[t].new
  /\ guard \in Txns => staging[guard] # NoRecord

StructureInv ==
  /\ TypeOK
  /\ \A w \in Writers : WriterInv(w)
  /\ RecordInv

\* What the state of a writer says about the bytes on disk.
DiskInv(w) ==
  /\ pc[w] \in {"staged", "guarding", "applying"} =>
       \A f \in todo[w] : disk[f] = staging[txn[w]].old[f]
  /\ pc[w] \in {"applying", "recovering", "direct"} =>
       \A f \in DOMAIN plan[w] \ todo[w] : disk[f] = plan[w][f]
  /\ pc[w] \in {"committed", "restored"} =>
       \A f \in DOMAIN plan[w] : disk[f] = plan[w][f]
  /\ pc[w] \in {"recovering", "restored"} => Recoverable(staging[txn[w]])

CommandInv ==
  /\ StructureInv
  /\ \A w \in Writers : DiskInv(w)
  /\ AlwaysRecoverable

LEMMA InitStructure ==
  ASSUME RootAssumptions
  PROVE  Init => StructureInv
<1> SUFFICES ASSUME Init PROVE StructureInv
  OBVIOUS
<1>1. TypeOK
  <2>1. lockFile \in BOOLEAN /\ half \in BOOLEAN
    BY DEF Init, RootAssumptions, BoundAssumption
  <2>2. QED
    BY <2>1, NoPlanType
       DEF Init, TypeOK, WriterStates, RootAssumptions, RootAssumption, BoundAssumption,
           NameAssumption
<1>2. \A w \in Writers : WriterInv(w)
  BY NoPlanType DEF Init, WriterInv, Writing, RootAssumptions, NobodyAssumption
<1>3. RecordInv
  BY DEF Init, RecordInv, RootAssumptions, NameAssumption
<1>4. QED
  BY <1>1, <1>2, <1>3 DEF StructureInv

LEMMA StagedType ==
  ASSUME TypeOK, NEW t \in Txns, staging[t] # NoRecord
  PROVE  /\ staging[t].status \in {"prepared", "committed"}
         /\ staging[t].old \in ChangeSets
         /\ staging[t].new \in ChangeSets
         /\ Target(staging[t]) \in ChangeSets
BY DEF TypeOK, Records, Target

\* Leaving, and taking up a change set, keep the types of what they assign.
LEMMA LeaveType ==
  ASSUME TypeOK, NEW w \in Writers, Leave(w)
  PROVE  /\ pc' \in [Writers -> WriterStates]
         /\ txn' \in [Writers -> Txns \union {NoTxn}]
         /\ plan' \in [Writers -> ChangeSets]
         /\ todo' \in [Writers -> SUBSET Files]
         /\ tmp' \in [Writers -> Files \union {NoFile}]
         /\ holder' \in Writers \union {Nobody}
         /\ lockFile' \in BOOLEAN
         /\ shared' \subseteq Readers
BY NoPlanType DEF Leave, Goto, TypeOK, WriterStates

LEMMA PutType ==
  ASSUME TypeOK, NEW w \in Writers, NEW there \in WriterStates,
         NEW t \in Txns \union {NoTxn}, NEW c \in ChangeSets,
         Put(w, there, t, c)
  PROVE  /\ pc' \in [Writers -> WriterStates]
         /\ txn' \in [Writers -> Txns \union {NoTxn}]
         /\ plan' \in [Writers -> ChangeSets]
         /\ todo' \in [Writers -> SUBSET Files]
         /\ tmp' \in [Writers -> Files \union {NoFile}]
<1>1. DOMAIN c \in SUBSET Files
  BY ChangeSetElim
<1>2. QED
  BY <1>1 DEF Put, Goto, TypeOK

\* The bytes a writer puts in place are values.
LEMMA PlanType ==
  ASSUME TypeOK, NEW w \in Writers, NEW f \in Files, f \in DOMAIN plan[w]
  PROVE  plan[w][f] \in Values
<1>1. plan[w] \in ChangeSets
  BY DEF TypeOK
<1>2. QED
  BY <1>1, ChangeSetElim

----------------------------------------------------------------------------
\* Preservation of the types, one step per action.
LEMMA TypeStep ==
  ASSUME RootAssumptions, StructureInv, [Next]_vars
  PROVE  TypeOK'
<1> USE StructureInv DEF StructureInv
<1> USE DEF diskVars, lockVars, readerVars, writerVars, envVars
<1>1. ASSUME NEW w \in Writers, Inspect(w) PROVE TypeOK'
  BY <1>1 DEF Inspect, TypeOK, Goto, WriterStates
<1>2. ASSUME NEW w \in Writers, Lock(w) PROVE TypeOK'
  BY <1>2 DEF Lock, TypeOK, Goto, WriterStates
<1>3. ASSUME NEW w \in Writers, NothingToRecover(w) PROVE TypeOK'
  BY <1>3 DEF NothingToRecover, TypeOK, Goto, WriterStates
<1>4. ASSUME NEW w \in Writers, StartRecovery(w) PROVE TypeOK'
  <2>1. guard \in Txns /\ Target(staging[guard]) \in ChangeSets
    BY <1>4, StagedType DEF StartRecovery, CanRecover
  <2>2. "recovering" \in WriterStates
    BY DEF WriterStates
  <2>3. QED
    BY <1>4, <2>1, <2>2, PutType DEF StartRecovery, TypeOK
<1>5. ASSUME NEW w \in Writers, RefuseRecovery(w) PROVE TypeOK'
  BY <1>5, LeaveType DEF RefuseRecovery, TypeOK
<1>6. ASSUME NEW w \in Writers, NEW c \in Transactions, NEW t \in Txns,
             Stage(w, c, t)
      PROVE  TypeOK'
  <2>1. c \in ChangeSets /\ Current(c) \in ChangeSets
    BY CurrentType DEF RootAssumptions, ChangesAssumption
  <2>2. "staged" \in WriterStates
    BY DEF WriterStates
  <2>3. staging' \in [Txns -> Records \union {NoRecord}]
    BY <1>6, <2>1 DEF Stage, TypeOK, Records
  <2>4. QED
    BY <1>6, <2>1, <2>2, <2>3, PutType DEF Stage, TypeOK
<1>7. ASSUME NEW w \in Writers, CreateGuard(w) PROVE TypeOK'
  BY <1>7 DEF CreateGuard, TypeOK, Goto, WriterStates
<1>8. ASSUME NEW w \in Writers, WriteGuard(w) PROVE TypeOK'
  <2>1. txn[w] \in Txns
    BY <1>8 DEF WriteGuard, WriterInv
  <2>2. QED
    BY <1>8, <2>1 DEF WriteGuard, TypeOK, Goto, WriterStates
<1>9. ASSUME NEW w \in Writers, NEW f \in Files, BeginWrite(w, f) PROVE TypeOK'
  BY <1>9 DEF BeginWrite, TypeOK
<1>10. ASSUME NEW w \in Writers, FinishWrite(w) PROVE TypeOK'
  <2>1. tmp[w] \in Files /\ plan[w][tmp[w]] \in Values
    BY <1>10, PlanType DEF FinishWrite, WriterInv, TypeOK
  <2>2. disk' \in Roots
    BY <1>10, <2>1 DEF FinishWrite, TypeOK, Roots
  <2>3. half' \in BOOLEAN
    BY <1>10 DEF FinishWrite, KeepAccount, TypeOK
  <2>4. QED
    BY <1>10, <2>2, <2>3 DEF FinishWrite, TypeOK
<1>11. ASSUME NEW w \in Writers, NEW f \in Files, Remove(w, f) PROVE TypeOK'
  <2>1. disk' \in Roots
    BY <1>11 DEF Remove, TypeOK, Roots, Values
  <2>2. half' \in BOOLEAN
    BY <1>11 DEF Remove, KeepAccount, TypeOK
  <2>3. QED
    BY <1>11, <2>1, <2>2 DEF Remove, TypeOK
<1>12. ASSUME NEW w \in Writers, CommitRecord(w) PROVE TypeOK'
  <2>1. txn[w] \in Txns /\ staging[txn[w]] # NoRecord
    BY <1>12 DEF CommitRecord, WriterInv
  <2>2. staging' \in [Txns -> Records \union {NoRecord}]
    BY <1>12, <2>1 DEF CommitRecord, TypeOK, Records
  <2>3. DOMAIN plan[w] \in SUBSET Files
    BY ChangeSetElim DEF TypeOK
  <2>4. QED
    BY <1>12, <2>2, <2>3 DEF CommitRecord, TypeOK, Goto, WriterStates
<1>13. ASSUME NEW w \in Writers, Restored(w) PROVE TypeOK'
  <2>1. DOMAIN plan[w] \in SUBSET Files
    BY ChangeSetElim DEF TypeOK
  <2>2. QED
    BY <1>13, <2>1 DEF Restored, TypeOK, Goto, WriterStates
<1>14. ASSUME NEW w \in Writers, NEW f \in Files, VerifyPath(w, f) PROVE TypeOK'
  BY <1>14 DEF VerifyPath, TypeOK, Goto, WriterStates
<1>15. ASSUME NEW w \in Writers, VerifyFails(w) PROVE TypeOK'
  BY <1>15, LeaveType DEF VerifyFails, TypeOK
<1>16. ASSUME NEW w \in Writers, RemoveGuard(w) PROVE TypeOK'
  BY <1>16 DEF RemoveGuard, TypeOK, Goto, WriterStates
<1>17. ASSUME NEW w \in Writers, CleanPublished(w) PROVE TypeOK'
  <2>1. staging' \in [Txns -> Records \union {NoRecord}]
    BY <1>17 DEF CleanPublished, TypeOK
  <2>2. QED
    BY <1>17, <2>1, LeaveType DEF CleanPublished, TypeOK
<1>18. ASSUME NEW w \in Writers, CleanRecovered(w) PROVE TypeOK'
  <2>1. staging' \in [Txns -> Records \union {NoRecord}]
    BY <1>18 DEF CleanRecovered, TypeOK
  <2>2. "ready" \in WriterStates
    BY DEF WriterStates
  <2>3. QED
    BY <1>18, <2>1, <2>2, PutType, NoPlanType DEF CleanRecovered, TypeOK
<1>19. ASSUME NEW w \in Writers, NEW c \in Direct, StartDirect(w, c) PROVE TypeOK'
  <2>1. c \in ChangeSets /\ "direct" \in WriterStates
    BY DEF WriterStates, RootAssumptions, ChangesAssumption
  <2>2. QED
    BY <1>19, <2>1, PutType DEF StartDirect, TypeOK
<1>20. ASSUME NEW w \in Writers, FinishDirect(w) PROVE TypeOK'
  BY <1>20, LeaveType DEF FinishDirect, TypeOK
<1>21. ASSUME NEW w \in Writers, Decline(w) PROVE TypeOK'
  BY <1>21, LeaveType DEF Decline, TypeOK
<1>22. ASSUME NEW w \in Writers, IoError(w) PROVE TypeOK'
  <2>1. faults' \in 0..MaxFaults
    BY <1>22 DEF IoError, TypeOK, RootAssumptions, BoundAssumption
  <2>2. QED
    BY <1>22, <2>1, LeaveType DEF IoError, TypeOK
<1>23. ASSUME NEW w \in Writers, Kill(w) PROVE TypeOK'
  <2>1. faults' \in 0..MaxFaults
    BY <1>23 DEF Kill, TypeOK, RootAssumptions, BoundAssumption
  <2>2. QED
    BY <1>23, <2>1, LeaveType DEF Kill, TypeOK
<1>24. ASSUME NEW r \in Readers, OpenShared(r) PROVE TypeOK'
  BY <1>24 DEF OpenShared, TypeOK
<1>25. ASSUME NEW r \in Readers, OpenUnlocked(r) PROVE TypeOK'
  BY <1>25 DEF OpenUnlocked, TypeOK
<1>26. ASSUME NEW r \in Readers, ListRoot(r) PROVE TypeOK'
  BY <1>26 DEF ListRoot, TypeOK
<1>27. ASSUME NEW r \in Readers, NEW f \in Files, ReadFile(r, f) PROVE TypeOK'
  <2> DEFINE seen == [g \in DOMAIN view[r] \union {f} |->
                        IF g = f THEN disk[f] ELSE view[r][g]]
  <2>1. view[r] \in ChangeSets
    BY DEF TypeOK
  <2>2. /\ DOMAIN view[r] \union {f} \in SUBSET Files
        /\ \A g \in DOMAIN view[r] : view[r][g] \in Values
        /\ disk[f] \in Values
    BY <2>1, ChangeSetElim DEF TypeOK, Roots
  <2>3. seen \in [DOMAIN view[r] \union {f} -> Values]
    BY <2>2
  <2>4. seen \in ChangeSets
    BY <2>2, <2>3, ChangeSetIntro
  <2>5. view' = [view EXCEPT ![r] = seen]
    BY <1>27 DEF ReadFile
  <2>6. view' \in [Readers -> ChangeSets]
    BY <2>4, <2>5 DEF TypeOK
  <2>7. QED
    BY <1>27, <2>6 DEF ReadFile, TypeOK
<1>28. ASSUME NEW r \in Readers, EndRead(r) PROVE TypeOK'
  BY <1>28, NoPlanType DEF EndRead, TypeOK, Close
<1>29. ASSUME NEW r \in Readers, AbandonRead(r) PROVE TypeOK'
  BY <1>29, NoPlanType DEF AbandonRead, TypeOK, Close
<1>30. ASSUME NEW f \in Files, ManualEdit(f) PROVE TypeOK'
  <2>1. disk' \in Roots
    BY <1>30 DEF ManualEdit, TypeOK, Roots
  <2>2. edits' \in 0..MaxEdits
    BY <1>30 DEF ManualEdit, TypeOK, RootAssumptions, BoundAssumption
  <2>3. QED
    BY <1>30, <2>1, <2>2 DEF ManualEdit, TypeOK
<1>31. CASE UNCHANGED vars
  BY <1>31 DEF vars, TypeOK
<1>32. QED
  BY <1>1, <1>2, <1>3, <1>4, <1>5, <1>6, <1>7, <1>8, <1>9, <1>10, <1>11,
     <1>12, <1>13, <1>14, <1>15, <1>16, <1>17, <1>18, <1>19, <1>20, <1>21, <1>22,
     <1>23, <1>24, <1>25, <1>26, <1>27, <1>28, <1>29, <1>30, <1>31
  DEF Next, Step, Request, Read

----------------------------------------------------------------------------
\* At most one writer is past its inspection: the one holding the lock.
LEMMA Exclusive ==
  ASSUME StructureInv, NEW w \in Writers, holder = w, NEW v \in Writers, v # w
  PROVE  pc[v] \in {"idle", "inspected"}
BY DEF StructureInv, WriterInv

\* A writer without the lock, and which does nothing, keeps its invariant.
LEMMA Bystander ==
  ASSUME StructureInv, NEW v \in Writers, pc[v] \in {"idle", "inspected"},
         pc'[v] = pc[v], plan'[v] = plan[v], todo'[v] = todo[v],
         tmp'[v] = tmp[v], holder' # v
  PROVE  WriterInv(v)'
BY DEF StructureInv, WriterInv, Writing

\* Steps that change neither guard nor record nor any writer.
LEMMA StructureFrame ==
  ASSUME StructureInv, UNCHANGED <<guard, staging, holder, writerVars>>
  PROVE  (\A w \in Writers : WriterInv(w))' /\ RecordInv'
BY DEF StructureInv, WriterInv, RecordInv, writerVars, Target

\* A command that ends, whatever the reason, disturbs no other writer.
LEMMA LeaveStructure ==
  ASSUME RootAssumptions, StructureInv, NEW w \in Writers, Leave(w),
         UNCHANGED <<guard, staging>>
  PROVE  (\A v \in Writers : WriterInv(v))' /\ RecordInv'
<1>1. WriterInv(w)'
  BY NoPlanType
     DEF Leave, Goto, StructureInv, TypeOK, WriterInv, Writing, RootAssumptions,
         NobodyAssumption
<1>2. ASSUME NEW v \in Writers, v # w PROVE WriterInv(v)'
  BY <1>2
     DEF Leave, Goto, StructureInv, TypeOK, WriterInv, Writing, Target, RootAssumptions,
         NobodyAssumption
<1>3. RecordInv'
  BY DEF StructureInv, RecordInv
<1>4. QED
  BY <1>1, <1>2, <1>3

\* The record a command writes before its guard.
LEMMA StagedRecord ==
  ASSUME StructureInv, NEW w \in Writers, NEW c \in Transactions, NEW t \in Txns,
         Stage(w, c, t)
  PROVE  /\ staging'[t].status = "prepared"
         /\ staging'[t].old = Current(c)
         /\ staging'[t].new = c
         /\ staging'[t] # NoRecord
         /\ DOMAIN staging'[t].old = DOMAIN staging'[t].new
<1> DEFINE s == [status |-> "prepared", old |-> Current(c), new |-> c]
<1>1. staging'[t] = s
  BY DEF Stage, StructureInv, TypeOK
<1>2. s.status = "prepared" /\ s.old = Current(c) /\ s.new = c
  OBVIOUS
<1>3. NoRecord.status = "none"
  BY DEF NoRecord
<1>4. DOMAIN Current(c) = DOMAIN c
  BY DEF Current
<1>5. QED
  BY <1>1, <1>2, <1>3, <1>4

\* Committing a record changes nothing but its status.
LEMMA CommittedRecord ==
  ASSUME StructureInv, NEW w \in Writers, CommitRecord(w)
  PROVE  /\ staging'[txn[w]].status = "committed"
         /\ staging'[txn[w]].old = staging[txn[w]].old
         /\ staging'[txn[w]].new = staging[txn[w]].new
         /\ staging'[txn[w]] # NoRecord
         /\ DOMAIN staging'[txn[w]].old = DOMAIN staging'[txn[w]].new
<1> DEFINE s == staging[txn[w]]
<1>1. txn[w] \in Txns /\ s # NoRecord
  BY DEF CommitRecord, StructureInv, WriterInv
<1>2. s \in Records
  BY <1>1 DEF StructureInv, TypeOK
<1>3. staging'[txn[w]] = [s EXCEPT !.status = "committed"]
  BY <1>1 DEF CommitRecord, StructureInv, TypeOK
<1>4. /\ staging'[txn[w]].status = "committed"
      /\ staging'[txn[w]].old = s.old
      /\ staging'[txn[w]].new = s.new
  BY <1>2, <1>3 DEF Records
<1>5. NoRecord.status = "none"
  BY DEF NoRecord
<1>6. DOMAIN s.old = DOMAIN s.new
  BY <1>1 DEF StructureInv, RecordInv
<1>7. QED
  BY <1>4, <1>5, <1>6

\* Preservation of what the writers know about lock, guard and record.
LEMMA WriterStep ==
  ASSUME RootAssumptions, StructureInv, TypeOK', [Next]_vars
  PROVE  (\A w \in Writers : WriterInv(w))' /\ RecordInv'
<1> DEFINE Kept == (\A v \in Writers : WriterInv(v))' /\ RecordInv'
<1> SUFFICES Kept
  OBVIOUS
<1> USE DEF diskVars, lockVars, readerVars, envVars
<1>1. ASSUME NEW w \in Writers, Inspect(w) PROVE Kept
  <2>1. WriterInv(w)'
    BY <1>1
       DEF Inspect, Goto, StructureInv, TypeOK, WriterInv, Writing, RootAssumptions,
           NobodyAssumption
  <2>2. ASSUME NEW v \in Writers, v # w PROVE WriterInv(v)'
    BY <1>1, <2>2, Bystander
       DEF Inspect, Goto, StructureInv, WriterInv, TypeOK, RootAssumptions, NobodyAssumption
  <2>3. RecordInv'
    BY <1>1 DEF Inspect, StructureInv, RecordInv
  <2>4. QED
    BY <2>1, <2>2, <2>3
<1>2. ASSUME NEW w \in Writers, Lock(w) PROVE Kept
  <2>1. WriterInv(w)'
    BY <1>2
       DEF Lock, Goto, StructureInv, TypeOK, WriterInv, Writing, RootAssumptions,
           NobodyAssumption
  <2>2. ASSUME NEW v \in Writers, v # w PROVE WriterInv(v)'
    BY <1>2, <2>2, Bystander
       DEF Lock, Goto, StructureInv, WriterInv, TypeOK, RootAssumptions, NobodyAssumption
  <2>3. RecordInv'
    BY <1>2 DEF Lock, StructureInv, RecordInv
  <2>4. QED
    BY <2>1, <2>2, <2>3
<1>3. ASSUME NEW w \in Writers, NothingToRecover(w) PROVE Kept
  <2>1. holder = w
    BY <1>3 DEF NothingToRecover, StructureInv, WriterInv, TypeOK, Writing, Verifying
  <2>2. WriterInv(w)'
    BY <1>3, <2>1, NoPlanType
       DEF NothingToRecover, Goto, Put, Leave, StructureInv, TypeOK, WriterInv, Writing,
           RootAssumptions, NobodyAssumption, NameAssumption
  <2>3. ASSUME NEW v \in Writers, v # w PROVE WriterInv(v)'
    BY <1>3, <2>1, <2>3, Exclusive, Bystander
       DEF NothingToRecover, Goto, Put, Leave, StructureInv, TypeOK, RootAssumptions,
           NobodyAssumption
  <2>4. RecordInv'
    BY <1>3
       DEF NothingToRecover, StructureInv, RecordInv, WriterInv, RootAssumptions,
           NameAssumption
  <2>5. QED
    BY <2>2, <2>3, <2>4
<1>4. ASSUME NEW w \in Writers, StartRecovery(w) PROVE Kept
  <2>1. holder = w
    BY <1>4 DEF StartRecovery, StructureInv, WriterInv, TypeOK, Writing, Verifying
  <2>2. WriterInv(w)'
    <3>1. /\ pc'[w] = "recovering"
          /\ txn'[w] = guard
          /\ plan'[w] = Target(staging[guard])
          /\ todo'[w] = DOMAIN plan'[w]
          /\ tmp'[w] = tmp[w]
          /\ UNCHANGED <<guard, staging, holder>>
      BY <1>4 DEF StartRecovery, Put, Goto, StructureInv, TypeOK
    <3>2. guard \in Txns /\ staging[guard] # NoRecord /\ tmp[w] = NoFile
      BY <1>4 DEF StartRecovery, CanRecover, StructureInv, WriterInv, Writing
    <3>3. QED
      BY <2>1, <3>1, <3>2 DEF WriterInv, Writing, Target
  <2>3. ASSUME NEW v \in Writers, v # w PROVE WriterInv(v)'
    BY <1>4, <2>1, <2>3, Exclusive, Bystander
       DEF StartRecovery, Goto, Put, Leave, StructureInv, TypeOK, RootAssumptions,
           NobodyAssumption
  <2>4. RecordInv'
    BY <1>4
       DEF StartRecovery, StructureInv, RecordInv, WriterInv, RootAssumptions, NameAssumption
  <2>5. QED
    BY <2>2, <2>3, <2>4
<1>5. ASSUME NEW w \in Writers, RefuseRecovery(w) PROVE Kept
  BY <1>5, LeaveStructure DEF RefuseRecovery
<1>6. ASSUME NEW w \in Writers, NEW c \in Transactions, NEW t \in Txns,
             Stage(w, c, t)
      PROVE  Kept
  <2>1. holder = w
    BY <1>6 DEF Stage, StructureInv, WriterInv, TypeOK, Writing, Verifying
  <2>2. WriterInv(w)'
    <3>1. /\ pc'[w] = "staged"
          /\ txn'[w] = t
          /\ plan'[w] = c
          /\ todo'[w] = DOMAIN plan'[w]
          /\ tmp'[w] = tmp[w]
          /\ UNCHANGED <<guard, holder>>
      BY <1>6 DEF Stage, Put, Goto, StructureInv, TypeOK
    <3>2. /\ staging'[t].status = "prepared"
          /\ staging'[t].new = c
          /\ staging'[t] # NoRecord
      BY <1>6, StagedRecord
    <3>3. guard = NoGuard /\ tmp[w] = NoFile
      BY <1>6 DEF Stage, StructureInv, WriterInv, Writing
    <3>4. QED
      BY <2>1, <3>1, <3>2, <3>3 DEF WriterInv, Writing
  <2>3. ASSUME NEW v \in Writers, v # w PROVE WriterInv(v)'
    BY <1>6, <2>1, <2>3, Exclusive, Bystander
       DEF Stage, Goto, Put, Leave, StructureInv, TypeOK, RootAssumptions, NobodyAssumption
  <2>4. RecordInv'
    <3>1. ASSUME NEW u \in Txns, staging'[u] # NoRecord
          PROVE  DOMAIN staging'[u].old = DOMAIN staging'[u].new
      <4>1. CASE u = t
        BY <1>6, <4>1, StagedRecord
      <4>2. CASE u # t
        BY <1>6, <3>1, <4>2 DEF Stage, StructureInv, RecordInv, TypeOK
      <4>3. QED
        BY <4>1, <4>2
    <3>2. guard' \notin Txns
      BY <1>6 DEF Stage, StructureInv, WriterInv, RootAssumptions, NameAssumption
    <3>3. QED
      BY <3>1, <3>2 DEF RecordInv
  <2>5. QED
    BY <2>2, <2>3, <2>4
<1>7. ASSUME NEW w \in Writers, CreateGuard(w) PROVE Kept
  <2>1. holder = w
    BY <1>7 DEF CreateGuard, StructureInv, WriterInv, TypeOK, Writing, Verifying
  <2>2. WriterInv(w)'
    BY <1>7, <2>1, NoPlanType
       DEF CreateGuard, Goto, Put, Leave, StructureInv, TypeOK, WriterInv, Writing,
           RootAssumptions, NobodyAssumption, NameAssumption
  <2>3. ASSUME NEW v \in Writers, v # w PROVE WriterInv(v)'
    BY <1>7, <2>1, <2>3, Exclusive, Bystander
       DEF CreateGuard, Goto, Put, Leave, StructureInv, TypeOK, RootAssumptions,
           NobodyAssumption
  <2>4. RecordInv'
    BY <1>7
       DEF CreateGuard, StructureInv, RecordInv, WriterInv, RootAssumptions, NameAssumption
  <2>5. QED
    BY <2>2, <2>3, <2>4
<1>8. ASSUME NEW w \in Writers, WriteGuard(w) PROVE Kept
  <2>1. holder = w
    BY <1>8 DEF WriteGuard, StructureInv, WriterInv, TypeOK, Writing, Verifying
  <2>2. WriterInv(w)'
    BY <1>8, <2>1, NoPlanType
       DEF WriteGuard, Goto, Put, Leave, StructureInv, TypeOK, WriterInv, Writing,
           RootAssumptions, NobodyAssumption, NameAssumption
  <2>3. ASSUME NEW v \in Writers, v # w PROVE WriterInv(v)'
    BY <1>8, <2>1, <2>3, Exclusive, Bystander
       DEF WriteGuard, Goto, Put, Leave, StructureInv, TypeOK, RootAssumptions,
           NobodyAssumption
  <2>4. RecordInv'
    BY <1>8 DEF WriteGuard, StructureInv, RecordInv, WriterInv, RootAssumptions, NameAssumption
  <2>5. QED
    BY <2>2, <2>3, <2>4
<1>9. ASSUME NEW w \in Writers, NEW f \in Files, BeginWrite(w, f) PROVE Kept
  <2>1. holder = w
    BY <1>9 DEF BeginWrite, StructureInv, WriterInv, TypeOK, Writing, Verifying
  <2>2. WriterInv(w)'
    BY <1>9, <2>1, NoPlanType
       DEF BeginWrite, Goto, Put, Leave, StructureInv, TypeOK, WriterInv, Writing,
           RootAssumptions, NobodyAssumption, NameAssumption
  <2>3. ASSUME NEW v \in Writers, v # w PROVE WriterInv(v)'
    BY <1>9, <2>1, <2>3, Exclusive, Bystander
       DEF BeginWrite, Goto, Put, Leave, StructureInv, TypeOK, RootAssumptions,
           NobodyAssumption
  <2>4. RecordInv'
    BY <1>9 DEF BeginWrite, StructureInv, RecordInv, WriterInv, RootAssumptions, NameAssumption
  <2>5. QED
    BY <2>2, <2>3, <2>4
<1>10. ASSUME NEW w \in Writers, FinishWrite(w) PROVE Kept
  <2>1. holder = w
    BY <1>10 DEF FinishWrite, StructureInv, WriterInv, TypeOK, Writing, Verifying
  <2>2. WriterInv(w)'
    BY <1>10, <2>1, NoPlanType
       DEF FinishWrite, Goto, Put, Leave, StructureInv, TypeOK, WriterInv, Writing,
           RootAssumptions, NobodyAssumption, NameAssumption
  <2>3. ASSUME NEW v \in Writers, v # w PROVE WriterInv(v)'
    BY <1>10, <2>1, <2>3, Exclusive, Bystander
       DEF FinishWrite, Goto, Put, Leave, StructureInv, TypeOK, RootAssumptions,
           NobodyAssumption
  <2>4. RecordInv'
    BY <1>10
       DEF FinishWrite, StructureInv, RecordInv, WriterInv, RootAssumptions, NameAssumption
  <2>5. QED
    BY <2>2, <2>3, <2>4
<1>11. ASSUME NEW w \in Writers, NEW f \in Files, Remove(w, f) PROVE Kept
  <2>1. holder = w
    BY <1>11 DEF Remove, StructureInv, WriterInv, TypeOK, Writing, Verifying
  <2>2. WriterInv(w)'
    BY <1>11, <2>1, NoPlanType
       DEF Remove, Goto, Put, Leave, StructureInv, TypeOK, WriterInv, Writing, RootAssumptions,
           NobodyAssumption, NameAssumption
  <2>3. ASSUME NEW v \in Writers, v # w PROVE WriterInv(v)'
    BY <1>11, <2>1, <2>3, Exclusive, Bystander
       DEF Remove, Goto, Put, Leave, StructureInv, TypeOK, RootAssumptions, NobodyAssumption
  <2>4. RecordInv'
    BY <1>11 DEF Remove, StructureInv, RecordInv, WriterInv, RootAssumptions, NameAssumption
  <2>5. QED
    BY <2>2, <2>3, <2>4
<1>12. ASSUME NEW w \in Writers, CommitRecord(w) PROVE Kept
  <2>1. holder = w
    BY <1>12 DEF CommitRecord, StructureInv, WriterInv, TypeOK, Writing, Verifying
  <2>2. WriterInv(w)'
    <3>1. /\ txn[w] \in Txns
          /\ guard = txn[w]
          /\ plan[w] = staging[txn[w]].new
          /\ tmp[w] = NoFile
      BY <1>12 DEF CommitRecord, StructureInv, WriterInv
    <3>2. /\ pc'[w] = "committed"
          /\ todo'[w] = DOMAIN plan[w]
          /\ UNCHANGED <<guard, holder, txn, plan, tmp>>
      BY <1>12 DEF CommitRecord, Goto, StructureInv, TypeOK
    <3>3. /\ staging'[txn[w]].status = "committed"
          /\ staging'[txn[w]].new = staging[txn[w]].new
          /\ staging'[txn[w]] # NoRecord
      BY <1>12, CommittedRecord
    <3>4. QED
      BY <2>1, <3>1, <3>2, <3>3 DEF WriterInv, Writing
  <2>3. ASSUME NEW v \in Writers, v # w PROVE WriterInv(v)'
    BY <1>12, <2>1, <2>3, Exclusive, Bystander
       DEF CommitRecord, Goto, Put, Leave, StructureInv, TypeOK, RootAssumptions,
           NobodyAssumption
  <2>4. RecordInv'
    <3>1. ASSUME NEW u \in Txns, staging'[u] # NoRecord
          PROVE  DOMAIN staging'[u].old = DOMAIN staging'[u].new
      <4>1. CASE u = txn[w]
        BY <1>12, <4>1, CommittedRecord
      <4>2. CASE u # txn[w]
        BY <1>12, <3>1, <4>2 DEF CommitRecord, StructureInv, RecordInv, TypeOK
      <4>3. QED
        BY <4>1, <4>2
    <3>2. guard' = txn[w] /\ staging'[txn[w]] # NoRecord
      BY <1>12, CommittedRecord DEF CommitRecord, StructureInv, WriterInv
    <3>3. QED
      BY <3>1, <3>2 DEF RecordInv
  <2>5. QED
    BY <2>2, <2>3, <2>4
<1>13. ASSUME NEW w \in Writers, Restored(w) PROVE Kept
  <2>1. holder = w
    BY <1>13 DEF Restored, StructureInv, WriterInv
  <2>2. WriterInv(w)'
    BY <1>13, <2>1
       DEF Restored, Goto, StructureInv, TypeOK, WriterInv, Writing, Target, RootAssumptions,
           NobodyAssumption
  <2>3. ASSUME NEW v \in Writers, v # w PROVE WriterInv(v)'
    BY <1>13, <2>1, <2>3, Exclusive, Bystander
       DEF Restored, Goto, StructureInv, TypeOK, RootAssumptions, NobodyAssumption
  <2>4. RecordInv'
    BY <1>13 DEF Restored, StructureInv, RecordInv
  <2>5. QED
    BY <2>2, <2>3, <2>4
<1>14. ASSUME NEW w \in Writers, NEW f \in Files, VerifyPath(w, f) PROVE Kept
  <2>1. holder = w
    BY <1>14 DEF VerifyPath, StructureInv, WriterInv, TypeOK, Writing, Verifying
  <2>2. WriterInv(w)'
    BY <1>14, <2>1
       DEF VerifyPath, Verifying, Goto, StructureInv, TypeOK, WriterInv, Writing,
           RootAssumptions, NobodyAssumption
  <2>3. ASSUME NEW v \in Writers, v # w PROVE WriterInv(v)'
    BY <1>14, <2>1, <2>3, Exclusive, Bystander
       DEF VerifyPath, Goto, Put, Leave, StructureInv, TypeOK, RootAssumptions,
           NobodyAssumption
  <2>4. RecordInv'
    BY <1>14
       DEF VerifyPath, StructureInv, RecordInv, WriterInv, RootAssumptions, NameAssumption
  <2>5. QED
    BY <2>2, <2>3, <2>4
<1>15. ASSUME NEW w \in Writers, VerifyFails(w) PROVE Kept
  BY <1>15, LeaveStructure DEF VerifyFails
<1>16. ASSUME NEW w \in Writers, RemoveGuard(w) PROVE Kept
  <2>1. holder = w
    BY <1>16 DEF RemoveGuard, StructureInv, WriterInv, TypeOK, Writing, Verifying
  <2>2. WriterInv(w)'
    <3>1. /\ pc'[w] \in {"published", "recovered"}
          /\ guard' = NoGuard
          /\ UNCHANGED <<holder, staging, txn, plan, todo, tmp>>
      BY <1>16 DEF RemoveGuard, Goto, StructureInv, TypeOK
    <3>2. /\ txn[w] \in Txns /\ staging[txn[w]] # NoRecord
          /\ tmp[w] = NoFile /\ todo[w] \subseteq DOMAIN plan[w]
      BY <1>16 DEF RemoveGuard, Verifying, StructureInv, WriterInv, Writing
    <3>3. QED
      BY <2>1, <3>1, <3>2 DEF WriterInv, Writing
  <2>3. ASSUME NEW v \in Writers, v # w PROVE WriterInv(v)'
    BY <1>16, <2>1, <2>3, Exclusive, Bystander
       DEF RemoveGuard, Goto, Put, Leave, StructureInv, TypeOK, RootAssumptions,
           NobodyAssumption
  <2>4. RecordInv'
    BY <1>16
       DEF RemoveGuard, StructureInv, RecordInv, WriterInv, RootAssumptions, NameAssumption
  <2>5. QED
    BY <2>2, <2>3, <2>4
<1>17. ASSUME NEW w \in Writers, CleanPublished(w) PROVE Kept
  <2>1. holder = w
    BY <1>17 DEF CleanPublished, StructureInv, WriterInv, TypeOK, Writing, Verifying
  <2>2. WriterInv(w)'
    BY <1>17, <2>1, NoPlanType
       DEF CleanPublished, Goto, Put, Leave, StructureInv, TypeOK, WriterInv, Writing,
           RootAssumptions, NobodyAssumption, NameAssumption
  <2>3. ASSUME NEW v \in Writers, v # w PROVE WriterInv(v)'
    BY <1>17, <2>1, <2>3, Exclusive, Bystander
       DEF CleanPublished, Goto, Put, Leave, StructureInv, TypeOK, RootAssumptions,
           NobodyAssumption
  <2>4. RecordInv'
    BY <1>17
       DEF CleanPublished, StructureInv, RecordInv, WriterInv, RootAssumptions, NameAssumption
  <2>5. QED
    BY <2>2, <2>3, <2>4
<1>18. ASSUME NEW w \in Writers, CleanRecovered(w) PROVE Kept
  <2>1. holder = w
    BY <1>18 DEF CleanRecovered, StructureInv, WriterInv, TypeOK, Writing, Verifying
  <2>2. WriterInv(w)'
    BY <1>18, <2>1, NoPlanType
       DEF CleanRecovered, Goto, Put, Leave, StructureInv, TypeOK, WriterInv, Writing,
           RootAssumptions, NobodyAssumption, NameAssumption
  <2>3. ASSUME NEW v \in Writers, v # w PROVE WriterInv(v)'
    BY <1>18, <2>1, <2>3, Exclusive, Bystander
       DEF CleanRecovered, Goto, Put, Leave, StructureInv, TypeOK, RootAssumptions,
           NobodyAssumption
  <2>4. RecordInv'
    BY <1>18
       DEF CleanRecovered, StructureInv, RecordInv, WriterInv, RootAssumptions, NameAssumption
  <2>5. QED
    BY <2>2, <2>3, <2>4
<1>19. ASSUME NEW w \in Writers, NEW c \in Direct, StartDirect(w, c) PROVE Kept
  <2>1. holder = w
    BY <1>19 DEF StartDirect, StructureInv, WriterInv, TypeOK, Writing, Verifying
  <2>2. WriterInv(w)'
    BY <1>19, <2>1, NoPlanType
       DEF StartDirect, Goto, Put, Leave, StructureInv, TypeOK, WriterInv, Writing,
           RootAssumptions, NobodyAssumption, NameAssumption
  <2>3. ASSUME NEW v \in Writers, v # w PROVE WriterInv(v)'
    BY <1>19, <2>1, <2>3, Exclusive, Bystander
       DEF StartDirect, Goto, Put, Leave, StructureInv, TypeOK, RootAssumptions,
           NobodyAssumption
  <2>4. RecordInv'
    BY <1>19
       DEF StartDirect, StructureInv, RecordInv, WriterInv, RootAssumptions, NameAssumption
  <2>5. QED
    BY <2>2, <2>3, <2>4
<1>20. ASSUME NEW w \in Writers, FinishDirect(w) PROVE Kept
  BY <1>20, LeaveStructure DEF FinishDirect
<1>21. ASSUME NEW w \in Writers, Decline(w) PROVE Kept
  BY <1>21, LeaveStructure DEF Decline
<1>22. ASSUME NEW w \in Writers, IoError(w) PROVE Kept
  BY <1>22, LeaveStructure DEF IoError
<1>23. ASSUME NEW w \in Writers, Kill(w) PROVE Kept
  BY <1>23, LeaveStructure DEF Kill
<1>24. ASSUME NEW r \in Readers, OpenShared(r) PROVE Kept
  BY <1>24, StructureFrame DEF OpenShared, writerVars
<1>25. ASSUME NEW r \in Readers, OpenUnlocked(r) PROVE Kept
  BY <1>25, StructureFrame DEF OpenUnlocked, writerVars
<1>26. ASSUME NEW r \in Readers, ListRoot(r) PROVE Kept
  BY <1>26, StructureFrame DEF ListRoot, writerVars
<1>27. ASSUME NEW r \in Readers, NEW f \in Files, ReadFile(r, f) PROVE Kept
  BY <1>27, StructureFrame DEF ReadFile, writerVars
<1>28. ASSUME NEW r \in Readers, EndRead(r) PROVE Kept
  BY <1>28, StructureFrame DEF EndRead, writerVars, Close
<1>29. ASSUME NEW r \in Readers, AbandonRead(r) PROVE Kept
  BY <1>29, StructureFrame DEF AbandonRead, writerVars, Close
<1>30. ASSUME NEW f \in Files, ManualEdit(f) PROVE Kept
  BY <1>30, StructureFrame DEF ManualEdit, writerVars
<1>31. CASE UNCHANGED vars
  BY <1>31, StructureFrame DEF vars, writerVars
<1>32. QED
  BY <1>1, <1>2, <1>3, <1>4, <1>5, <1>6, <1>7, <1>8, <1>9, <1>10, <1>11,
     <1>12, <1>13, <1>14, <1>15, <1>16, <1>17, <1>18, <1>19, <1>20, <1>21, <1>22,
     <1>23, <1>24, <1>25, <1>26, <1>27, <1>28, <1>29, <1>30, <1>31
  DEF Next, Step, Request, Read

\* Types, and the writers' knowledge of lock, guard and record, are invariant,
\* with people editing files at any moment.
THEOREM StructureCorrect ==
  ASSUME RootAssumptions
  PROVE  Spec => []StructureInv
<1>1. Init => StructureInv
  BY InitStructure
<1>2. StructureInv /\ [Next]_vars => StructureInv'
  BY TypeStep, WriterStep DEF StructureInv
<1>3. QED
  BY <1>1, <1>2, PTL DEF Spec

\* Every reachable state is well typed, for all constants: no writer runs into
\* an unknown state, and change sets and records only name known paths.
THEOREM TypeCorrect ==
  ASSUME RootAssumptions
  PROVE  Spec => []TypeOK
<1>1. StructureInv => TypeOK
  BY DEF StructureInv
<1>2. QED
  BY <1>1, StructureCorrect, PTL

----------------------------------------------------------------------------
\* What writers know about the bytes on disk, when people edit files only while
\* no command runs.

\* Writing one path of the plan.
WritePath(w, f) ==
  /\ pc[w] \in Writing
  /\ f \in todo[w]
  /\ disk' = [disk EXCEPT ![f] = plan[w][f]]
  /\ todo' = [todo EXCEPT ![w] = @ \ {f}]
  /\ tmp'[w] \in {tmp[w], NoFile}
  /\ KeepAccount(w)
  /\ UNCHANGED <<guard, staging, holder, pc, txn, plan, edits>>

LEMMA WriteIsWritePath ==
  ASSUME StructureInv, NEW w \in Writers
  PROVE  /\ FinishWrite(w) => tmp[w] \in Files /\ WritePath(w, tmp[w])
         /\ \A f \in Files : Remove(w, f) => WritePath(w, f)
<1>1. ASSUME FinishWrite(w) PROVE tmp[w] \in Files /\ WritePath(w, tmp[w])
  BY <1>1 DEF FinishWrite, WritePath, StructureInv, WriterInv, TypeOK, lockVars, envVars
<1>2. ASSUME NEW f \in Files, Remove(w, f) PROVE WritePath(w, f)
  BY <1>2 DEF Remove, WritePath, lockVars, envVars
<1>3. QED
  BY <1>1, <1>2

\* While a transaction is applied or recovered, the path being written holds old
\* or new bytes, and so does every other path.
LEMMA WriterRecoverable ==
  ASSUME StructureInv, NEW w \in Writers, DiskInv(w),
         pc[w] \in {"applying", "committed", "recovering", "restored"}
  PROVE  /\ txn[w] \in Txns /\ guard = txn[w]
         /\ staging[txn[w]] # NoRecord
         /\ Recoverable(staging[txn[w]])
         /\ DOMAIN plan[w] = DOMAIN staging[txn[w]].new
         /\ \A f \in DOMAIN plan[w] :
              plan[w][f] \in {staging[txn[w]].old[f], staging[txn[w]].new[f]}
<1> DEFINE s == staging[txn[w]]
<1>1. txn[w] \in Txns /\ guard = txn[w] /\ s # NoRecord
  BY DEF StructureInv, WriterInv
<1>2. DOMAIN s.old = DOMAIN s.new
  BY <1>1 DEF StructureInv, RecordInv
<1>3. plan[w] = s.new \/ plan[w] = s.old
  BY DEF StructureInv, WriterInv, Target
<1>4. Recoverable(s)
  <2>1. CASE pc[w] \in {"recovering", "restored"}
    BY <2>1 DEF DiskInv
  <2>2. CASE pc[w] \in {"applying", "committed"}
    <3>1. plan[w] = s.new
      BY <2>2 DEF StructureInv, WriterInv
    <3>2. CASE pc[w] = "committed"
      BY <3>1, <3>2 DEF DiskInv, Recoverable
    <3>3. CASE pc[w] = "applying"
      <4>1. \A f \in DOMAIN s.new \ todo[w] : disk[f] = s.new[f]
        BY <3>1, <3>3 DEF DiskInv
      <4>2. \A f \in todo[w] : disk[f] = s.old[f]
        BY <3>3 DEF DiskInv, StructureInv, WriterInv
      <4>3. QED
        BY <4>1, <4>2 DEF Recoverable
    <3>4. QED
      BY <2>2, <3>2, <3>3
  <2>3. QED
    BY <2>1, <2>2
<1>5. QED
  BY <1>1, <1>2, <1>3, <1>4

LEMMA WritePathStep ==
  ASSUME RootAssumptions, CommandInv, NEW w \in Writers, NEW f \in Files, WritePath(w, f)
  PROVE  DiskInv(w)' /\ AlwaysRecoverable'
<1> USE DEF CommandInv
<1>1. holder = w /\ f \in DOMAIN plan[w]
  BY DEF WritePath, StructureInv, WriterInv, Writing
<1>2. /\ disk'[f] = plan[w][f]
      /\ \A g \in Files \ {f} : disk'[g] = disk[g]
      /\ todo'[w] = todo[w] \ {f}
  BY DEF WritePath, StructureInv, TypeOK, Roots
<1>3. DOMAIN plan[w] \subseteq Files /\ todo[w] \subseteq Files
  BY ChangeSetElim DEF StructureInv, TypeOK
<1>4. CASE pc[w] = "direct"
  <2>1. DiskInv(w)'
    BY <1>2, <1>3, <1>4 DEF WritePath, DiskInv
  <2>2. AlwaysRecoverable'
    BY <1>4
       DEF WritePath, StructureInv, WriterInv, AlwaysRecoverable, RootAssumptions,
           NameAssumption
  <2>3. QED
    BY <2>1, <2>2
<1>5. CASE pc[w] \in {"applying", "recovering"}
  <2> DEFINE s == staging[txn[w]]
  <2>1. /\ txn[w] \in Txns /\ guard = txn[w] /\ s # NoRecord
        /\ Recoverable(s)
        /\ DOMAIN plan[w] = DOMAIN s.new
        /\ \A g \in DOMAIN plan[w] : plan[w][g] \in {s.old[g], s.new[g]}
    BY <1>5, WriterRecoverable
  <2>2. Recoverable(s)'
    BY <1>2, <1>3, <2>1 DEF Recoverable, WritePath
  <2>3. DiskInv(w)'
    BY <1>2, <1>3, <1>5, <2>2 DEF DiskInv, WritePath, Recoverable
  <2>4. AlwaysRecoverable'
    BY <2>1, <2>2 DEF AlwaysRecoverable, WritePath, Recoverable
  <2>5. QED
    BY <2>3, <2>4
<1>6. QED
  BY <1>4, <1>5 DEF WritePath, Writing

\* Writers without the lock know nothing about the disk.
LEMMA DiskBystander ==
  ASSUME NEW v \in Writers, pc[v] \in {"idle", "inspected"}, pc'[v] = pc[v]
  PROVE  DiskInv(v)'
BY DEF DiskInv

\* Steps that change no file, no guard, no record and no writer.
LEMMA DiskFrame ==
  ASSUME CommandInv, UNCHANGED <<disk, guard, staging, pc, txn, plan, todo, edits>>
  PROVE  (\A w \in Writers : DiskInv(w))' /\ AlwaysRecoverable'
<1>1. ASSUME NEW w \in Writers PROVE DiskInv(w)'
  BY DEF CommandInv, DiskInv, Recoverable
<1>2. AlwaysRecoverable'
  BY DEF CommandInv, AlwaysRecoverable, Recoverable
<1>3. QED
  BY <1>1, <1>2

LEMMA LeaveDisk ==
  ASSUME CommandInv, NEW w \in Writers, Leave(w), UNCHANGED <<disk, guard, staging, edits>>
  PROVE  (\A v \in Writers : DiskInv(v))' /\ AlwaysRecoverable'
<1>1. ASSUME NEW v \in Writers PROVE DiskInv(v)'
  BY DEF CommandInv, StructureInv, TypeOK, DiskInv, Recoverable, Leave, Goto
<1>2. AlwaysRecoverable'
  BY DEF CommandInv, AlwaysRecoverable, Recoverable
<1>3. QED
  BY <1>1, <1>2

LEMMA DiskStep ==
  ASSUME RootAssumptions, RacingEdits = FALSE, CommandInv, StructureInv', [Next]_vars
  PROVE  (\A w \in Writers : DiskInv(w))' /\ AlwaysRecoverable'
<1> DEFINE Kept == (\A v \in Writers : DiskInv(v))' /\ AlwaysRecoverable'
<1> SUFFICES Kept
  OBVIOUS
<1> USE DEF diskVars, lockVars, readerVars, envVars, CommandInv
<1>1. ASSUME NEW w \in Writers, Inspect(w) PROVE Kept
  <2>1. DiskInv(w)'
    BY <1>1 DEF Inspect, Goto, StructureInv, TypeOK, DiskInv
  <2>2. ASSUME NEW v \in Writers, v # w PROVE DiskInv(v)'
    BY <1>1, <2>2 DEF Inspect, Goto, StructureInv, TypeOK, DiskInv, Recoverable
  <2>3. AlwaysRecoverable'
    BY <1>1 DEF Inspect, AlwaysRecoverable, Recoverable
  <2>4. QED
    BY <2>1, <2>2, <2>3
<1>2. ASSUME NEW w \in Writers, Lock(w) PROVE Kept
  <2>1. DiskInv(w)'
    BY <1>2 DEF Lock, Goto, StructureInv, TypeOK, DiskInv
  <2>2. ASSUME NEW v \in Writers, v # w PROVE DiskInv(v)'
    BY <1>2, <2>2 DEF Lock, Goto, StructureInv, TypeOK, DiskInv, Recoverable
  <2>3. AlwaysRecoverable'
    BY <1>2 DEF Lock, AlwaysRecoverable, Recoverable
  <2>4. QED
    BY <2>1, <2>2, <2>3
<1>3. ASSUME NEW w \in Writers, NothingToRecover(w) PROVE Kept
  <2>1. holder = w
    BY <1>3 DEF NothingToRecover, StructureInv, WriterInv, Verifying
  <2>2. DiskInv(w)'
    BY <1>3 DEF NothingToRecover, Goto, Put, Leave, StructureInv, TypeOK, WriterInv,
                  DiskInv, Recoverable, Verifying
  <2>3. ASSUME NEW v \in Writers, v # w PROVE DiskInv(v)'
    BY <1>3, <2>1, <2>3, Exclusive, DiskBystander
    DEF NothingToRecover, Goto, Put, Leave, StructureInv, TypeOK
  <2>4. AlwaysRecoverable'
    BY <1>3
       DEF NothingToRecover, StructureInv, WriterInv, AlwaysRecoverable, Recoverable,
           RootAssumptions, NameAssumption
  <2>5. QED
    BY <2>2, <2>3, <2>4
<1>4. ASSUME NEW w \in Writers, StartRecovery(w) PROVE Kept
  <2>1. holder = w
    BY <1>4 DEF StartRecovery, StructureInv, WriterInv, Verifying
  <2>2. DiskInv(w)'
    <3>1. /\ pc'[w] = "recovering" /\ txn'[w] = guard
          /\ todo'[w] = DOMAIN plan'[w]
          /\ UNCHANGED <<disk, staging>>
      BY <1>4 DEF StartRecovery, Put, Goto, StructureInv, TypeOK
    <3>2. Recoverable(staging[guard])
      BY <1>4 DEF StartRecovery, CanRecover
    <3>3. QED
      BY <3>1, <3>2 DEF DiskInv, Recoverable
  <2>3. ASSUME NEW v \in Writers, v # w PROVE DiskInv(v)'
    BY <1>4, <2>1, <2>3, Exclusive, DiskBystander
    DEF StartRecovery, Goto, Put, Leave, StructureInv, TypeOK
  <2>4. AlwaysRecoverable'
    BY <1>4
       DEF StartRecovery, StructureInv, WriterInv, AlwaysRecoverable, Recoverable,
           RootAssumptions, NameAssumption
  <2>5. QED
    BY <2>2, <2>3, <2>4
<1>5. ASSUME NEW w \in Writers, RefuseRecovery(w) PROVE Kept
  BY <1>5, LeaveDisk DEF RefuseRecovery
<1>6. ASSUME NEW w \in Writers, NEW c \in Transactions, NEW t \in Txns,
             Stage(w, c, t)
      PROVE  Kept
  <2>1. holder = w
    BY <1>6 DEF Stage, StructureInv, WriterInv, Verifying
  <2>2. DiskInv(w)'
    <3>1. /\ pc'[w] = "staged" /\ txn'[w] = t /\ todo'[w] = DOMAIN c
          /\ UNCHANGED disk
      BY <1>6 DEF Stage, Put, Goto, StructureInv, TypeOK
    <3>2. staging'[t].old = Current(c)
      BY <1>6, StagedRecord
    <3>3. QED
      BY <3>1, <3>2 DEF DiskInv, Current
  <2>3. ASSUME NEW v \in Writers, v # w PROVE DiskInv(v)'
    BY <1>6, <2>1, <2>3, Exclusive, DiskBystander
    DEF Stage, Goto, Put, Leave, StructureInv, TypeOK
  <2>4. AlwaysRecoverable'
    BY <1>6
       DEF Stage, StructureInv, WriterInv, AlwaysRecoverable, Recoverable, RootAssumptions,
           NameAssumption
  <2>5. QED
    BY <2>2, <2>3, <2>4
<1>7. ASSUME NEW w \in Writers, CreateGuard(w) PROVE Kept
  <2>1. holder = w
    BY <1>7 DEF CreateGuard, StructureInv, WriterInv, Verifying
  <2>2. DiskInv(w)'
    BY <1>7 DEF CreateGuard, Goto, Put, Leave, StructureInv, TypeOK, WriterInv,
                  DiskInv, Recoverable, Verifying
  <2>3. ASSUME NEW v \in Writers, v # w PROVE DiskInv(v)'
    BY <1>7, <2>1, <2>3, Exclusive, DiskBystander
    DEF CreateGuard, Goto, Put, Leave, StructureInv, TypeOK
  <2>4. AlwaysRecoverable'
    BY <1>7
       DEF CreateGuard, StructureInv, WriterInv, AlwaysRecoverable, Recoverable,
           RootAssumptions, NameAssumption
  <2>5. QED
    BY <2>2, <2>3, <2>4
<1>8. ASSUME NEW w \in Writers, WriteGuard(w) PROVE Kept
  <2>1. holder = w
    BY <1>8 DEF WriteGuard, StructureInv, WriterInv, Verifying
  <2>2. DiskInv(w)'
    BY <1>8 DEF WriteGuard, Goto, Put, Leave, StructureInv, TypeOK, WriterInv,
                  DiskInv, Recoverable, Verifying
  <2>3. ASSUME NEW v \in Writers, v # w PROVE DiskInv(v)'
    BY <1>8, <2>1, <2>3, Exclusive, DiskBystander
    DEF WriteGuard, Goto, Put, Leave, StructureInv, TypeOK
  <2>4. AlwaysRecoverable'
    <3>1. \A f \in DOMAIN staging[txn[w]].new : disk[f] = staging[txn[w]].old[f]
      BY <1>8 DEF WriteGuard, StructureInv, WriterInv, DiskInv
    <3>2. QED
      BY <1>8, <3>1 DEF WriteGuard, StructureInv, WriterInv, AlwaysRecoverable, Recoverable
  <2>5. QED
    BY <2>2, <2>3, <2>4
<1>9. ASSUME NEW w \in Writers, NEW f \in Files, BeginWrite(w, f) PROVE Kept
  BY <1>9, DiskFrame DEF BeginWrite, writerVars
<1>10. ASSUME NEW w \in Writers, FinishWrite(w) PROVE Kept
  <2>1. tmp[w] \in Files /\ WritePath(w, tmp[w])
    BY <1>10, WriteIsWritePath
  <2>2. holder = w /\ UNCHANGED pc
    BY <2>1 DEF WritePath, StructureInv, WriterInv, Writing
  <2>3. ASSUME NEW v \in Writers, v # w PROVE DiskInv(v)'
    BY <2>2, <2>3, Exclusive, DiskBystander
  <2>4. DiskInv(w)' /\ AlwaysRecoverable'
    BY <2>1, WritePathStep
  <2>5. QED
    BY <2>3, <2>4
<1>11. ASSUME NEW w \in Writers, NEW f \in Files, Remove(w, f) PROVE Kept
  <2>1. f \in Files /\ WritePath(w, f)
    BY <1>11, WriteIsWritePath
  <2>2. holder = w /\ UNCHANGED pc
    BY <2>1 DEF WritePath, StructureInv, WriterInv, Writing
  <2>3. ASSUME NEW v \in Writers, v # w PROVE DiskInv(v)'
    BY <2>2, <2>3, Exclusive, DiskBystander
  <2>4. DiskInv(w)' /\ AlwaysRecoverable'
    BY <2>1, WritePathStep
  <2>5. QED
    BY <2>3, <2>4
<1>12. ASSUME NEW w \in Writers, CommitRecord(w) PROVE Kept
  <2>1. holder = w
    BY <1>12 DEF CommitRecord, StructureInv, WriterInv, Verifying
  <2>2. DiskInv(w)'
    BY <1>12 DEF CommitRecord, Goto, Put, Leave, StructureInv, TypeOK, WriterInv,
                  DiskInv, Recoverable, Verifying
  <2>3. ASSUME NEW v \in Writers, v # w PROVE DiskInv(v)'
    BY <1>12, <2>1, <2>3, Exclusive, DiskBystander
    DEF CommitRecord, Goto, Put, Leave, StructureInv, TypeOK
  <2>4. AlwaysRecoverable'
    <3>1. guard = txn[w] /\ Recoverable(staging[txn[w]])
      BY <1>12, WriterRecoverable DEF CommitRecord
    <3>2. guard' = guard /\ disk' = disk
      BY <1>12 DEF CommitRecord
    <3>3. /\ staging'[guard'] # NoRecord
          /\ staging'[guard'].old = staging[guard].old
          /\ staging'[guard'].new = staging[guard].new
      BY <1>12, <3>1, <3>2, CommittedRecord
    <3>4. QED
      BY <3>1, <3>2, <3>3 DEF AlwaysRecoverable, Recoverable
  <2>5. QED
    BY <2>2, <2>3, <2>4
<1>13. ASSUME NEW w \in Writers, Restored(w) PROVE Kept
  <2>1. holder = w
    BY <1>13 DEF Restored, StructureInv, WriterInv
  <2>2. DiskInv(w)'
    BY <1>13 DEF Restored, Goto, StructureInv, TypeOK, DiskInv, Recoverable
  <2>3. ASSUME NEW v \in Writers, v # w PROVE DiskInv(v)'
    BY <1>13, <2>1, <2>3, Exclusive, DiskBystander
    DEF Restored, Goto, StructureInv, TypeOK
  <2>4. AlwaysRecoverable'
    BY <1>13 DEF Restored, AlwaysRecoverable, Recoverable
  <2>5. QED
    BY <2>2, <2>3, <2>4
<1>14. ASSUME NEW w \in Writers, NEW f \in Files, VerifyPath(w, f) PROVE Kept
  <2>1. holder = w
    BY <1>14 DEF VerifyPath, StructureInv, WriterInv, Verifying
  <2>2. DiskInv(w)'
    BY <1>14 DEF VerifyPath, Goto, Put, Leave, StructureInv, TypeOK, WriterInv,
                  DiskInv, Recoverable, Verifying
  <2>3. ASSUME NEW v \in Writers, v # w PROVE DiskInv(v)'
    BY <1>14, <2>1, <2>3, Exclusive, DiskBystander
    DEF VerifyPath, Goto, Put, Leave, StructureInv, TypeOK
  <2>4. AlwaysRecoverable'
    BY <1>14
       DEF VerifyPath, StructureInv, WriterInv, AlwaysRecoverable, Recoverable,
           RootAssumptions, NameAssumption
  <2>5. QED
    BY <2>2, <2>3, <2>4
<1>15. ASSUME NEW w \in Writers, VerifyFails(w) PROVE Kept
  BY <1>15, LeaveDisk DEF VerifyFails
<1>16. ASSUME NEW w \in Writers, RemoveGuard(w) PROVE Kept
  <2>1. holder = w
    BY <1>16 DEF RemoveGuard, StructureInv, WriterInv, Verifying
  <2>2. DiskInv(w)'
    BY <1>16 DEF RemoveGuard, Goto, Put, Leave, StructureInv, TypeOK, WriterInv,
                  DiskInv, Recoverable, Verifying
  <2>3. ASSUME NEW v \in Writers, v # w PROVE DiskInv(v)'
    BY <1>16, <2>1, <2>3, Exclusive, DiskBystander
    DEF RemoveGuard, Goto, Put, Leave, StructureInv, TypeOK
  <2>4. AlwaysRecoverable'
    BY <1>16
       DEF RemoveGuard, StructureInv, WriterInv, AlwaysRecoverable, Recoverable,
           RootAssumptions, NameAssumption
  <2>5. QED
    BY <2>2, <2>3, <2>4
<1>17. ASSUME NEW w \in Writers, CleanPublished(w) PROVE Kept
  <2>1. holder = w
    BY <1>17 DEF CleanPublished, StructureInv, WriterInv, Verifying
  <2>2. DiskInv(w)'
    BY <1>17 DEF CleanPublished, Goto, Put, Leave, StructureInv, TypeOK, WriterInv,
                  DiskInv, Recoverable, Verifying
  <2>3. ASSUME NEW v \in Writers, v # w PROVE DiskInv(v)'
    BY <1>17, <2>1, <2>3, Exclusive, DiskBystander
    DEF CleanPublished, Goto, Put, Leave, StructureInv, TypeOK
  <2>4. AlwaysRecoverable'
    BY <1>17
       DEF CleanPublished, StructureInv, WriterInv, AlwaysRecoverable, Recoverable,
           RootAssumptions, NameAssumption
  <2>5. QED
    BY <2>2, <2>3, <2>4
<1>18. ASSUME NEW w \in Writers, CleanRecovered(w) PROVE Kept
  <2>1. holder = w
    BY <1>18 DEF CleanRecovered, StructureInv, WriterInv, Verifying
  <2>2. DiskInv(w)'
    BY <1>18 DEF CleanRecovered, Goto, Put, Leave, StructureInv, TypeOK, WriterInv,
                  DiskInv, Recoverable, Verifying
  <2>3. ASSUME NEW v \in Writers, v # w PROVE DiskInv(v)'
    BY <1>18, <2>1, <2>3, Exclusive, DiskBystander
    DEF CleanRecovered, Goto, Put, Leave, StructureInv, TypeOK
  <2>4. AlwaysRecoverable'
    BY <1>18
       DEF CleanRecovered, StructureInv, WriterInv, AlwaysRecoverable, Recoverable,
           RootAssumptions, NameAssumption
  <2>5. QED
    BY <2>2, <2>3, <2>4
<1>19. ASSUME NEW w \in Writers, NEW c \in Direct, StartDirect(w, c) PROVE Kept
  <2>1. holder = w
    BY <1>19 DEF StartDirect, StructureInv, WriterInv, Verifying
  <2>2. DiskInv(w)'
    BY <1>19 DEF StartDirect, Goto, Put, Leave, StructureInv, TypeOK, WriterInv,
                  DiskInv, Recoverable, Verifying
  <2>3. ASSUME NEW v \in Writers, v # w PROVE DiskInv(v)'
    BY <1>19, <2>1, <2>3, Exclusive, DiskBystander
    DEF StartDirect, Goto, Put, Leave, StructureInv, TypeOK
  <2>4. AlwaysRecoverable'
    BY <1>19
       DEF StartDirect, StructureInv, WriterInv, AlwaysRecoverable, Recoverable,
           RootAssumptions, NameAssumption
  <2>5. QED
    BY <2>2, <2>3, <2>4
<1>20. ASSUME NEW w \in Writers, FinishDirect(w) PROVE Kept
  BY <1>20, LeaveDisk DEF FinishDirect
<1>21. ASSUME NEW w \in Writers, Decline(w) PROVE Kept
  BY <1>21, LeaveDisk DEF Decline
<1>22. ASSUME NEW w \in Writers, IoError(w) PROVE Kept
  BY <1>22, LeaveDisk DEF IoError
<1>23. ASSUME NEW w \in Writers, Kill(w) PROVE Kept
  BY <1>23, LeaveDisk DEF Kill
<1>24. ASSUME NEW r \in Readers, OpenShared(r) PROVE Kept
  BY <1>24, DiskFrame DEF OpenShared, writerVars
<1>25. ASSUME NEW r \in Readers, OpenUnlocked(r) PROVE Kept
  BY <1>25, DiskFrame DEF OpenUnlocked, writerVars
<1>26. ASSUME NEW r \in Readers, ListRoot(r) PROVE Kept
  BY <1>26, DiskFrame DEF ListRoot, writerVars
<1>27. ASSUME NEW r \in Readers, NEW f \in Files, ReadFile(r, f) PROVE Kept
  BY <1>27, DiskFrame DEF ReadFile, writerVars
<1>28. ASSUME NEW r \in Readers, EndRead(r) PROVE Kept
  BY <1>28, DiskFrame DEF EndRead, writerVars, Close
<1>29. ASSUME NEW r \in Readers, AbandonRead(r) PROVE Kept
  BY <1>29, DiskFrame DEF AbandonRead, writerVars, Close
<1>30. ASSUME NEW f \in Files, ManualEdit(f) PROVE Kept
  <2>1. \A v \in Writers : pc'[v] = "idle"
    BY <1>30 DEF ManualEdit, Quiet, writerVars
  <2>2. \A v \in Writers : DiskInv(v)'
    BY <2>1 DEF DiskInv
  <2>3. edits' # 0
    BY <1>30 DEF ManualEdit, StructureInv, TypeOK
  <2>4. QED
    BY <2>2, <2>3 DEF AlwaysRecoverable
<1>31. CASE UNCHANGED vars
  BY <1>31, DiskFrame DEF vars
<1>32. QED
  BY <1>1, <1>2, <1>3, <1>4, <1>5, <1>6, <1>7, <1>8, <1>9, <1>10, <1>11,
     <1>12, <1>13, <1>14, <1>15, <1>16, <1>17, <1>18, <1>19, <1>20, <1>21, <1>22,
     <1>23, <1>24, <1>25, <1>26, <1>27, <1>28, <1>29, <1>30, <1>31
  DEF Next, Step, Request, Read

LEMMA CommandStep ==
  ASSUME RootAssumptions, RacingEdits = FALSE, CommandInv, [Next]_vars
  PROVE  CommandInv'
<1>1. StructureInv'
  BY TypeStep, WriterStep DEF CommandInv, StructureInv
<1>2. QED
  BY <1>1, DiskStep DEF CommandInv

LEMMA CommandCorrect ==
  ASSUME RootAssumptions, RacingEdits = FALSE
  PROVE  Spec => []CommandInv
<1>1. Init => CommandInv
  BY InitStructure
     DEF Init, CommandInv, DiskInv, AlwaysRecoverable, RootAssumptions, NameAssumption
<1>2. CommandInv /\ [Next]_vars => CommandInv'
  BY CommandStep
<1>3. QED
  BY <1>1, <1>2, PTL DEF Spec

\* However commands end, and whatever any number of recoveries did before, an
\* untouched root with a guard can be recovered: for every set of change sets,
\* paths and processes.
THEOREM RecoveryNeverRefused ==
  ASSUME RootAssumptions, RacingEdits = FALSE
  PROVE  Spec => []AlwaysRecoverable
<1>1. CommandInv => AlwaysRecoverable
  BY DEF CommandInv
<1>2. QED
  BY <1>1, CommandCorrect, PTL

\* Bytes that a person put at a path of an unresolved transaction survive every
\* command: recovery compares each path with the record before it writes.
THEOREM EditsSurvive ==
  ASSUME RootAssumptions, RacingEdits = FALSE
  PROVE  Spec => ManualEditSurvives
<1>1. ASSUME CommandInv, [Next]_vars, NEW f \in Files,
             ManuallyEdited(f), edits' = edits
      PROVE  disk'[f] = disk[f]
  <2> USE DEF CommandInv, ManuallyEdited
  <2>1. ASSUME NEW w \in Writers, NEW g \in Files, WritePath(w, g)
        PROVE  disk'[f] = disk[f]
    <3>1. CASE pc[w] = "direct"
      BY <1>1, <2>1, <3>1 DEF StructureInv, WriterInv, RootAssumptions, NameAssumption
    <3>2. CASE pc[w] \in {"applying", "recovering"}
      <4>1. guard = txn[w] /\ Recoverable(staging[txn[w]])
        BY <1>1, <3>2, WriterRecoverable
      <4>2. QED
        BY <1>1, <4>1 DEF Recoverable
    <3>3. QED
      BY <2>1, <3>1, <3>2 DEF WritePath, Writing
  <2>2. ASSUME NEW w \in Writers, FinishWrite(w) \/ \E g \in Files : Remove(w, g)
        PROVE  disk'[f] = disk[f]
    BY <1>1, <2>1, <2>2, WriteIsWritePath
  <2>3. ASSUME NEW g \in Files, ManualEdit(g) PROVE FALSE
    BY <1>1, <2>3 DEF ManualEdit, StructureInv, TypeOK
  <2>4. QED
    BY <1>1, <2>2, <2>3
    DEF Next, Step, Request, Read, Inspect, Lock, NothingToRecover, StartRecovery,
        RefuseRecovery, Stage, CreateGuard, WriteGuard, BeginWrite, CommitRecord,
        Restored, VerifyPath, VerifyFails, RemoveGuard, CleanPublished, CleanRecovered,
        StartDirect, FinishDirect, Decline, IoError, Kill, OpenShared,
        OpenUnlocked, ListRoot, ReadFile, EndRead, AbandonRead, diskVars, vars
<1>2. CommandInv /\ [Next]_vars => [KeepManualEdits]_vars
  BY <1>1 DEF KeepManualEdits
<1>3. QED
  BY <1>2, CommandCorrect, PTL DEF Spec, ManualEditSurvives

\* What a writer other than w does leaves the bytes that w has verified alone.
LEMMA OthersKeepChecked ==
  ASSUME StructureInv, NEW w \in Writers, NEW f \in Files, NEW v \in Writers, v # w,
         \/ Inspect(v) \/ Lock(v) \/ Step(v) \/ Request(v) \/ IoError(v) \/ Kill(v),
         Overwritten(w, f)'
  PROVE  Overwritten(w, f)
<1>1. pc'[w] = pc[w] /\ plan'[w] = plan[w] /\ todo'[w] = todo[w]
  BY DEF Step, Request, Inspect, Lock, NothingToRecover, StartRecovery, RefuseRecovery, Stage,
         CreateGuard, WriteGuard, BeginWrite, FinishWrite, Remove, WritePath, CommitRecord,
         Restored, VerifyPath, VerifyFails, RemoveGuard, CleanPublished, CleanRecovered,
         StartDirect, FinishDirect, Decline, IoError, Kill, Goto, Put, Leave, StructureInv,
         TypeOK, diskVars, envVars, readerVars, lockVars
<1>2. CASE disk' = disk
  BY <1>1, <1>2 DEF Overwritten, Checked, Verifying
<1>3. CASE disk' # disk
  <2>1. FinishWrite(v) \/ \E g \in Files : Remove(v, g)
    BY <1>3 DEF Step, Request, Inspect, Lock, NothingToRecover, StartRecovery, RefuseRecovery,
         Stage, CreateGuard, WriteGuard, BeginWrite, CommitRecord, Restored, VerifyPath,
         VerifyFails, RemoveGuard, CleanPublished, CleanRecovered, StartDirect, FinishDirect,
         Decline, IoError, Kill, diskVars
  <2>2. pc[v] \in Writing
    BY <2>1, WriteIsWritePath DEF WritePath
  <2>3. holder = v
    BY <2>2 DEF StructureInv, WriterInv, Writing
  <2>4. pc[w] \in {"idle", "inspected"}
    BY <2>3, Exclusive
  <2>5. QED
    BY <1>1, <2>4 DEF Overwritten, Checked, Verifying
<1>4. QED
  BY <1>2, <1>3

\* A writer comes to have verified a path only by comparing its bytes.
LEMMA CheckedByComparing ==
  ASSUME StructureInv, NEW w \in Writers, NEW f \in Files,
         \/ Inspect(w) \/ Lock(w) \/ Step(w) \/ Request(w) \/ IoError(w) \/ Kill(w),
         Overwritten(w, f)'
  PROVE  Overwritten(w, f)
<1> USE DEF StructureInv, TypeOK, Overwritten, Checked, Verifying
<1>1. CASE \E g \in Files : VerifyPath(w, g)
  BY <1>1 DEF VerifyPath, diskVars
<1>2. CASE RemoveGuard(w)
  BY <1>2 DEF RemoveGuard, Goto
<1>3. CASE FinishWrite(w) \/ \E g \in Files : Remove(w, g)
  <2>1. pc[w] \in Writing /\ pc'[w] = pc[w]
    BY <1>3, WriteIsWritePath DEF WritePath
  <2>2. QED
    BY <2>1 DEF Writing
<1>4. CASE CommitRecord(w) \/ Restored(w)
  BY <1>4 DEF CommitRecord, Restored, Goto, diskVars
<1>5. CASE \/ RefuseRecovery(w) \/ VerifyFails(w) \/ CleanPublished(w) \/ FinishDirect(w)
           \/ Decline(w) \/ IoError(w) \/ Kill(w)
  <2>1. Leave(w)
    BY <1>5 DEF RefuseRecovery, VerifyFails, CleanPublished, FinishDirect, Decline, IoError,
                Kill
  <2>2. pc'[w] = "idle"
    BY <2>1 DEF Leave, Goto
  <2>3. QED
    BY <2>2
<1>6. CASE \/ Inspect(w) \/ Lock(w) \/ NothingToRecover(w) \/ StartRecovery(w)
           \/ CreateGuard(w) \/ WriteGuard(w) \/ \E g \in Files : BeginWrite(w, g)
           \/ CleanRecovered(w)
           \/ \E c \in Transactions, t \in Txns : Stage(w, c, t)
           \/ \E c \in Direct : StartDirect(w, c)
  BY <1>6 DEF Inspect, Lock, NothingToRecover, StartRecovery, CreateGuard, WriteGuard,
              BeginWrite, CleanRecovered, Stage, StartDirect, Goto, Put, Writing
<1>7. QED
  BY <1>1, <1>2, <1>3, <1>4, <1>5, <1>6 DEF Step, Request

\* A command ends a transaction only with every path verified, also while a
\* person edits at any moment: bytes other than intended at a verified path were
\* put there after it was verified.
THEOREM SettledCorrect ==
  ASSUME RootAssumptions
  PROVE  Spec => SettledUnlessEditedLater
<1>1. ASSUME StructureInv, [Next]_vars, NEW w \in Writers, NEW f \in Files,
             Overwritten(w, f)', edits' = edits
      PROVE  Overwritten(w, f)
  <2>1. CASE \E v \in Writers : \/ Inspect(v) \/ Lock(v) \/ Step(v) \/ Request(v)
                                \/ IoError(v) \/ Kill(v)
    BY <1>1, <2>1, OthersKeepChecked, CheckedByComparing
  <2>2. CASE \E r \in Readers : Read(r)
    BY <1>1, <2>2 DEF Read, OpenShared, OpenUnlocked, ListRoot, ReadFile, EndRead, AbandonRead,
                      Close, diskVars, writerVars, Overwritten, Checked, Verifying
  <2>3. CASE \E g \in Files : ManualEdit(g)
    BY <1>1, <2>3 DEF ManualEdit, StructureInv, TypeOK
  <2>4. CASE UNCHANGED vars
    BY <1>1, <2>4 DEF vars, Overwritten, Checked, Verifying
  <2>5. QED
    BY <1>1, <2>1, <2>2, <2>3, <2>4 DEF Next
<1>2. StructureInv /\ [Next]_vars =>
        [\A w \in Writers, f \in Files :
           Overwritten(w, f)' => Overwritten(w, f) \/ edits' # edits]_vars
  BY <1>1
<1>3. QED
  BY <1>2, StructureCorrect, PTL DEF Spec, SettledUnlessEditedLater

----------------------------------------------------------------------------
(* The root everybody is promised.                                         *)

\* What a writer is about to put in place is a change set it was asked for, and the
\* root with it is one that the Host Catalog has resolved.
IntentInv(w) ==
  /\ pc[w] \in {"staged", "guarding", "applying"} => plan[w] \in Transactions
  /\ pc[w] = "direct" => plan[w] \in Direct
  /\ pc[w] \in {"staged", "guarding", "applying", "direct"} =>
       Overlay(plan[w], disk) \in Resolvable
  /\ pc[w] = "direct" /\ RemovesInstance(plan[w]) => tmp[w] = NoFile

PublishInv ==
  /\ CommandInv
  /\ \A w \in Writers : IntentInv(w)

LEMMA IntentIdle ==
  ASSUME NEW v \in Writers, pc'[v] \notin {"staged", "guarding", "applying", "direct"}
  PROVE  IntentInv(v)'
BY DEF IntentInv

\* Writing a path of a change set leaves the root with that change set the same.
LEMMA OverlayWritten ==
  ASSUME TypeOK, NEW c \in ChangeSets, NEW f \in DOMAIN c, NEW x,
         disk' = [disk EXCEPT ![f] = x]
  PROVE  Overlay(c, disk') = Overlay(c, disk)
<1>1. \A g \in Files : g \notin DOMAIN c => disk'[g] = disk[g]
  BY DEF TypeOK, Roots
<1>2. QED
  BY <1>1 DEF Overlay

LEMMA IntentStep ==
  ASSUME RacingEdits = FALSE, PublishInv, [Next]_vars
  PROVE  \A w \in Writers : IntentInv(w)'
<1> DEFINE Kept == \A v \in Writers : IntentInv(v)'
<1> SUFFICES Kept
  OBVIOUS
<1> USE DEF PublishInv, CommandInv, diskVars, lockVars, readerVars, envVars
<1>1. ASSUME UNCHANGED <<disk, pc, plan, tmp>> PROVE Kept
  BY <1>1 DEF IntentInv
<1>2. ASSUME NEW w \in Writers,
             \/ Inspect(w) \/ Lock(w) \/ Step(w) \/ Request(w) \/ IoError(w) \/ Kill(w)
      PROVE  Kept
  <2>1. ASSUME NEW v \in Writers, v # w PROVE IntentInv(v)'
    <3>1. pc'[v] = pc[v] /\ plan'[v] = plan[v] /\ tmp'[v] = tmp[v]
      BY <1>2, <2>1 DEF Step, Request, Inspect, Lock, NothingToRecover, StartRecovery,
         RefuseRecovery, Stage, CreateGuard, WriteGuard, BeginWrite, FinishWrite, Remove,
         CommitRecord, Restored, VerifyPath, VerifyFails, RemoveGuard, CleanPublished,
         CleanRecovered, StartDirect, FinishDirect, Decline, IoError, Kill, Goto, Put, Leave,
         StructureInv, TypeOK
    <3>2. CASE holder = w
      BY <2>1, <3>1, <3>2, Exclusive, IntentIdle
    <3>3. CASE holder # w
      <4>1. pc[w] \in {"idle", "inspected"}
        BY <3>3 DEF StructureInv, WriterInv, TypeOK, WriterStates
      <4>2. UNCHANGED disk
        BY <1>2, <4>1 DEF Step, Request, Inspect, Lock, NothingToRecover, StartRecovery,
           RefuseRecovery, Stage, CreateGuard, WriteGuard, BeginWrite, FinishWrite, Remove,
           CommitRecord, Restored, VerifyPath, VerifyFails, RemoveGuard, CleanPublished,
           CleanRecovered, StartDirect, FinishDirect, Decline, IoError, Kill, Writing,
           Verifying
      <4>3. QED
        BY <3>1, <4>2 DEF IntentInv
    <3>4. QED
      BY <3>2, <3>3
  <2>2. IntentInv(w)'
    <3>1. CASE \E c \in Transactions, t \in Txns : Stage(w, c, t)
      BY <3>1 DEF Stage, Put, Goto, Accepts, IntentInv, StructureInv, TypeOK
    <3>2. CASE \E c \in Direct : StartDirect(w, c)
      BY <3>2 DEF StartDirect, Put, Goto, Accepts, IntentInv, StructureInv, TypeOK, WriterInv,
         Writing
    <3>3. CASE CreateGuard(w) \/ WriteGuard(w) \/ \E f \in Files : BeginWrite(w, f)
      <4>1. CASE CreateGuard(w) \/ WriteGuard(w)
        BY <3>3, <4>1 DEF CreateGuard, WriteGuard, Goto, IntentInv, StructureInv, TypeOK
      <4>2. ASSUME NEW f \in Files, BeginWrite(w, f) PROVE IntentInv(w)'
        <5>1. f \in DOMAIN plan[w] /\ plan[w][f] # Absent /\ UNCHANGED <<pc, plan, disk>>
          BY <4>2 DEF BeginWrite, StructureInv, WriterInv
        <5>2. ~RemovesInstance(plan[w])
          BY <5>1 DEF RemovesInstance
        <5>3. QED
          BY <5>1, <5>2 DEF IntentInv
      <4>3. QED
        BY <3>3, <4>1, <4>2
    <3>4. CASE \E f \in Files : WritePath(w, f)
      <4> PICK f \in Files : WritePath(w, f)
        BY <3>4
      <4>1. plan[w] \in ChangeSets /\ f \in DOMAIN plan[w]
        BY DEF WritePath, StructureInv, TypeOK, WriterInv
      <4>2. Overlay(plan[w], disk') = Overlay(plan[w], disk)
        BY <4>1, OverlayWritten DEF WritePath, StructureInv
      <4>3. QED
        BY <4>2 DEF WritePath, IntentInv
    <3>5. CASE FinishWrite(w) \/ \E f \in Files : Remove(w, f)
      BY <3>4, <3>5, WriteIsWritePath
    <3>6. CASE \/ Inspect(w) \/ Lock(w) \/ NothingToRecover(w) \/ StartRecovery(w)
               \/ CommitRecord(w) \/ Restored(w) \/ RemoveGuard(w) \/ CleanRecovered(w)
      <4>1. pc'[w] \notin {"staged", "guarding", "applying", "direct"}
        BY <3>6 DEF Inspect, Lock, NothingToRecover, StartRecovery, CommitRecord, Restored,
           RemoveGuard, CleanRecovered, Goto, Put, StructureInv, TypeOK
      <4>2. QED
        BY <4>1, IntentIdle
    <3>7. CASE \E f \in Files : VerifyPath(w, f)
      <4>1. pc'[w] = pc[w] /\ pc[w] \in {"committed", "restored"}
        BY <3>7 DEF VerifyPath, Verifying
      <4>2. QED
        BY <4>1, IntentIdle
    <3>8. CASE \/ RefuseRecovery(w) \/ VerifyFails(w) \/ CleanPublished(w) \/ FinishDirect(w)
               \/ Decline(w) \/ IoError(w) \/ Kill(w)
      <4>1. pc'[w] = "idle"
        BY <3>8 DEF RefuseRecovery, VerifyFails, CleanPublished, FinishDirect, Decline,
           IoError, Kill, Leave, Goto, StructureInv, TypeOK
      <4>2. QED
        BY <4>1, IntentIdle
    <3>9. QED
      BY <1>2, <3>1, <3>2, <3>3, <3>5, <3>6, <3>7, <3>8 DEF Step, Request
  <2>3. QED
    BY <2>1, <2>2
<1>3. ASSUME NEW r \in Readers, Read(r) PROVE Kept
  BY <1>1, <1>3 DEF Read, OpenShared, OpenUnlocked, ListRoot, ReadFile, EndRead, AbandonRead,
     Close, writerVars
<1>4. ASSUME NEW f \in Files, ManualEdit(f) PROVE Kept
  <2>1. \A v \in Writers : pc'[v] = "idle"
    BY <1>4 DEF ManualEdit, Quiet, writerVars
  <2>2. QED
    BY <2>1, IntentIdle
<1>5. CASE UNCHANGED vars
  BY <1>1, <1>5 DEF vars
<1>6. QED
  BY <1>2, <1>3, <1>4, <1>5 DEF Next

LEMMA PublishCorrect ==
  ASSUME RootAssumptions, RacingEdits = FALSE
  PROVE  Spec => []PublishInv
<1>1. Init => \A w \in Writers : IntentInv(w)
  BY DEF Init, IntentInv
<1>2. CommandInv /\ (\A w \in Writers : IntentInv(w)) /\ [Next]_vars
        => (\A w \in Writers : IntentInv(w))'
  BY IntentStep DEF PublishInv
<1>3. Spec => []CommandInv
  BY CommandCorrect
<1>4. QED
  BY <1>1, <1>2, <1>3, PTL DEF Spec, PublishInv

\* With nothing in doubt the root is what is on disk; while a transaction is in
\* doubt, its paths count as what recovery will make them.
LEMMA RootSettled == StructureInv /\ guard \notin Txns => Root = disk
<1> SUFFICES ASSUME StructureInv, guard \notin Txns PROVE Root = disk
  OBVIOUS
<1>1. disk \in [Files -> Values]
  BY DEF StructureInv, TypeOK, Roots
<1>2. QED
  BY <1>1 DEF Root

LEMMA RootInDoubt ==
  StructureInv /\ guard \in Txns /\ Recoverable(staging[guard])
    => Root = Overlay(Target(staging[guard]), disk)
<1> SUFFICES ASSUME StructureInv, guard \in Txns, Recoverable(staging[guard])
             PROVE  Root = Overlay(Target(staging[guard]), disk)
  OBVIOUS
<1>1. staging[guard] # NoRecord
  BY DEF StructureInv, RecordInv
<1>2. DOMAIN Target(staging[guard]) = DOMAIN staging[guard].new
  BY <1>1 DEF StructureInv, RecordInv, Target
<1>3. QED
  BY <1>1, <1>2 DEF Root, Overlay, Recoverable

LEMMA RootType == StructureInv => Root \in Roots
<1> SUFFICES ASSUME StructureInv, NEW f \in Files PROVE Root[f] \in Values
  BY DEF Root, Roots
<1>1. disk[f] \in Values
  BY DEF StructureInv, TypeOK, Roots
<1>2. CASE guard \in Txns /\ staging[guard] # NoRecord /\ f \in DOMAIN staging[guard].new
           /\ disk[f] \in {staging[guard].old[f], staging[guard].new[f]}
  <2>1. Target(staging[guard]) \in ChangeSets /\ f \in DOMAIN Target(staging[guard])
    BY <1>2, StagedType DEF StructureInv, RecordInv, Target
  <2>2. Target(staging[guard])[f] \in Values
    BY <2>1, ChangeSetElim
  <2>3. QED
    BY <1>2, <2>2 DEF Root
<1>3. QED
  BY <1>1, <1>2 DEF Root

LEMMA RootSame ==
  ASSUME UNCHANGED <<disk, guard, staging>>
  PROVE  UNCHANGED Root
BY DEF Root, Target

\* Writing a path of a transaction, to apply or to undo it, does not change the root:
\* recovery would make the same of what was there before.
LEMMA RootWritten ==
  ASSUME CommandInv, CommandInv', NEW w \in Writers, NEW f \in Files, WritePath(w, f),
         pc[w] # "direct"
  PROVE  UNCHANGED Root
<1> USE DEF CommandInv
<1>1. pc[w] \in {"applying", "recovering"} /\ pc'[w] = pc[w]
  BY DEF WritePath, Writing
<1>2. /\ guard = txn[w] /\ guard \in Txns /\ Recoverable(staging[guard])
      /\ DOMAIN plan[w] = DOMAIN staging[guard].new
      /\ \A g \in DOMAIN plan[w] : plan[w][g] \in {staging[guard].old[g], staging[guard].new[g]}
  BY <1>1, WriterRecoverable
<1>3. UNCHANGED <<guard, staging>> /\ disk' = [disk EXCEPT ![f] = plan[w][f]]
  BY DEF WritePath
<1>4. f \in DOMAIN plan[w]
  BY DEF WritePath, StructureInv, WriterInv
<1>5. disk'[f] = plan[w][f] /\ \A g \in Files : g # f => disk'[g] = disk[g]
  BY <1>3 DEF StructureInv, TypeOK, Roots
<1>6. DOMAIN staging[guard].new \subseteq Files /\ staging[guard] # NoRecord
  BY <1>2, StagedType, ChangeSetElim DEF StructureInv, RecordInv
<1>7. Recoverable(staging[guard])'
  BY <1>2, <1>3, <1>5, <1>6 DEF Recoverable
<1>8. Root' = Overlay(Target(staging[guard]), disk)'
  <2>1. (StructureInv /\ guard \in Txns /\ Recoverable(staging[guard])
           => Root = Overlay(Target(staging[guard]), disk))'
    BY RootInDoubt, PTL
  <2>2. QED
    BY <1>2, <1>3, <1>7, <2>1
<1>9. Root = Overlay(Target(staging[guard]), disk)
  BY <1>2, RootInDoubt
<1>10. f \in DOMAIN Target(staging[guard])
  BY <1>2, <1>4, <1>6 DEF StructureInv, RecordInv, Target
<1>11. Overlay(Target(staging[guard]), disk)' = Overlay(Target(staging[guard]), disk)
  BY <1>3, <1>5, <1>10 DEF Overlay, Target
<1>12. QED
  BY <1>8, <1>9, <1>11

\* The one step at which a transaction takes effect.
LEMMA RootCommitted ==
  ASSUME PublishInv, PublishInv', NEW w \in Writers, CommitRecord(w)
  PROVE  Abstract!Update(plan[w]) /\ plan[w] \in Transactions
<1> USE DEF PublishInv, CommandInv
<1>1. /\ pc[w] = "applying" /\ todo[w] = {} /\ half' = FALSE
      /\ UNCHANGED <<disk, guard, plan, edits>>
  BY DEF CommitRecord
<1>2. /\ guard = txn[w] /\ guard \in Txns /\ staging[guard] # NoRecord
      /\ Recoverable(staging[guard])
  BY <1>1, WriterRecoverable
<1>3. staging[guard].status = "prepared" /\ plan[w] = staging[guard].new
  BY <1>1, <1>2 DEF StructureInv, WriterInv
<1>4. plan[w] \in Transactions /\ Overlay(plan[w], disk) \in Resolvable
  BY <1>1 DEF IntentInv
<1>5. /\ staging'[guard].status = "committed" /\ staging'[guard].new = plan[w]
      /\ staging'[guard].old = staging[guard].old
  BY <1>2, <1>3, CommittedRecord
<1>6. Root = Overlay(staging[guard].old, disk)
  BY <1>2, <1>3, RootInDoubt DEF Target
<1>7. Root' = Overlay(plan[w], disk)
  <2>1. (StructureInv /\ guard \in Txns /\ Recoverable(staging[guard])
           => Root = Overlay(Target(staging[guard]), disk))'
    BY RootInDoubt, PTL
  <2>2. Recoverable(staging[guard])'
    BY <1>1, <1>2, <1>3, <1>5 DEF Recoverable
  <2>3. Target(staging[guard])' = plan[w]
    BY <1>1, <1>5 DEF Target
  <2>4. QED
    BY <1>1, <1>2, <2>1, <2>2, <2>3 DEF Overlay
<1>8. DOMAIN staging[guard].old = DOMAIN plan[w]
  BY <1>2, <1>3 DEF StructureInv, RecordInv
<1>9. Root' = Overlay(plan[w], Root)
  BY <1>6, <1>7, <1>8 DEF Overlay
<1>10. QED
  BY <1>1, <1>4, <1>7, <1>9 DEF Abstract!Update, Overlay, Abstract!Overlay

\* A command without a guard puts its one path in place by one rename or removal, or
\* removes a file and then a marker.
LEMMA RootDirect ==
  ASSUME RootAssumptions, PublishInv, PublishInv', NEW w \in Writers, NEW f \in Files,
         WritePath(w, f), pc[w] = "direct",
         RemovesInstance(plan[w]) /\ f \in Markers => todo[w] \subseteq Markers
  PROVE  \/ Abstract!Update(plan[w]) /\ plan[w] \in Direct
         \/ Abstract!BeginRemoval(plan[w]) /\ plan[w] \in Direct /\ RemovesInstance(plan[w])
         \/ UNCHANGED <<Root, half, edits>>
<1> USE DEF PublishInv, CommandInv
<1> DEFINE c == plan[w]
<1>1. c \in Direct /\ Overlay(c, disk) \in Resolvable
  BY DEF IntentInv
<1>2. guard = NoGuard /\ guard \notin Txns /\ UNCHANGED <<guard, edits>>
  BY DEF StructureInv, WriterInv, WritePath, RootAssumptions, NameAssumption
<1>3. f \in DOMAIN c /\ disk'[f] = c[f] /\ \A g \in Files \ {f} : disk'[g] = disk[g]
  BY DEF WritePath, StructureInv, WriterInv, TypeOK, Roots
<1>4. disk = [g \in Files |-> disk[g]] /\ disk' = [g \in Files |-> disk'[g]]
  BY DEF StructureInv, TypeOK, Roots
<1>5. half' = (disk' # Overlay(c, disk) /\ (half \/ disk' # disk))
  BY DEF WritePath, KeepAccount
<1>6. Root = disk /\ Root' = disk'
  <2>1. (StructureInv /\ guard \notin Txns => Root = disk)'
    BY RootSettled, PTL
  <2>2. QED
    BY <1>2, <2>1, RootSettled
<1>7. disk' = Overlay(c, disk) => Abstract!Update(c)
  BY <1>1, <1>2, <1>5, <1>6 DEF Abstract!Update, Overlay, Abstract!Overlay
<1>8. disk' = disk /\ disk' # Overlay(c, disk) => UNCHANGED <<Root, half, edits>>
  BY <1>2, <1>5, <1>6 DEF StructureInv, TypeOK
<1>9. CASE OnePath(c)
  <2>1. DOMAIN c = {f}
    BY <1>3, <1>9 DEF OnePath
  <2>2. disk' = Overlay(c, disk)
    BY <1>3, <1>4, <2>1 DEF Overlay
  <2>3. QED
    BY <1>1, <1>7, <2>2
<1>10. CASE RemovesInstance(c)
  <2>1. PICK g \in Files \ Markers, m \in Files \intersect Markers :
               c = [h \in {g, m} |-> Absent]
    BY <1>10 DEF RemovesInstance
  <2>2. CASE f = m
    <3>1. g \notin todo[w] /\ g \in DOMAIN c
      BY <1>10, <2>1, <2>2
    <3>2. disk[g] = c[g]
      BY <3>1 DEF DiskInv, Writing
    <3>3. disk' = Overlay(c, disk)
      BY <1>3, <1>4, <2>1, <2>2, <3>2 DEF Overlay
    <3>4. QED
      BY <1>1, <1>7, <3>3
  <2>3. CASE f = g
    <3>1. disk' = Overlay([h \in DOMAIN c \ Markers |-> c[h]], disk)
      BY <1>3, <1>4, <2>1, <2>3 DEF Overlay
    <3>2. CASE disk' # disk /\ disk' # Overlay(c, disk)
      BY <1>1, <1>2, <1>5, <1>6, <1>10, <3>1, <3>2
         DEF Abstract!BeginRemoval, Overlay, Abstract!Overlay
    <3>3. QED
      BY <1>1, <1>7, <1>8, <3>2
  <2>4. QED
    BY <1>3, <2>1, <2>2, <2>3
<1>11. QED
  BY <1>1, <1>9, <1>10 DEF RootAssumptions, DirectAssumption

\* Between the two, and when a guard comes or goes, the root stays what it is.
LEMMA RootGuarded ==
  ASSUME RootAssumptions, PublishInv, PublishInv', NEW w \in Writers,
         CreateGuard(w) \/ WriteGuard(w) \/ RemoveGuard(w)
  PROVE  UNCHANGED Root
<1> USE DEF PublishInv, CommandInv
<1>1. (StructureInv /\ guard \notin Txns => Root = disk)'
  BY RootSettled, PTL
<1>2. CASE CreateGuard(w)
  <2>1. guard \notin Txns /\ guard' \notin Txns /\ UNCHANGED disk
    BY <1>2 DEF CreateGuard, StructureInv, WriterInv, RootAssumptions, NameAssumption
  <2>2. QED
    BY <1>1, <2>1, RootSettled
<1>3. CASE WriteGuard(w)
  <2>1. /\ guard \notin Txns /\ guard' = txn[w] /\ guard' \in Txns /\ staging[txn[w]] # NoRecord
        /\ UNCHANGED <<disk, staging>>
        /\ staging[txn[w]].status = "prepared"
        /\ todo[w] = DOMAIN staging[txn[w]].new
    BY <1>3 DEF WriteGuard, StructureInv, WriterInv, RootAssumptions, NameAssumption
  <2>2. \A f \in DOMAIN staging[txn[w]].new : disk[f] = staging[txn[w]].old[f]
    BY <1>3, <2>1 DEF WriteGuard, DiskInv
  <2>3. Recoverable(staging[guard])'
    BY <2>1, <2>2 DEF Recoverable
  <2>4. (StructureInv /\ guard \in Txns /\ Recoverable(staging[guard])
           => Root = Overlay(Target(staging[guard]), disk))'
    BY RootInDoubt, PTL
  <2>5. Root' = Overlay(staging[txn[w]].old, disk)
    BY <2>1, <2>3, <2>4 DEF Target, Overlay
  <2>6. DOMAIN staging[txn[w]].old = DOMAIN staging[txn[w]].new
    BY <2>1 DEF StructureInv, RecordInv
  <2>7. Overlay(staging[txn[w]].old, disk) = disk
    BY <2>2, <2>6 DEF Overlay, StructureInv, TypeOK, Roots
  <2>8. QED
    BY <2>1, <2>5, <2>7, RootSettled
<1>4. CASE RemoveGuard(w)
  <2>1. pc[w] \in {"committed", "restored"} /\ UNCHANGED disk /\ guard' \notin Txns
    BY <1>4 DEF RemoveGuard, Verifying, RootAssumptions, NameAssumption
  <2>2. guard = txn[w] /\ guard \in Txns /\ Recoverable(staging[guard])
    BY <2>1, WriterRecoverable
  <2>3. plan[w] = Target(staging[guard])
    BY <2>1, <2>2 DEF StructureInv, WriterInv, Target
  <2>4. \A f \in DOMAIN plan[w] : disk[f] = plan[w][f]
    BY <2>1 DEF DiskInv
  <2>5. Overlay(plan[w], disk) = disk
    BY <2>4 DEF Overlay, StructureInv, TypeOK, Roots
  <2>6. QED
    BY <1>1, <2>1, <2>2, <2>3, <2>5, RootInDoubt
<1>5. QED
  BY <1>2, <1>3, <1>4

\* What a person changes shows at the path that was edited, or not at all.
LEMMA RootEdited ==
  ASSUME StructureInv, StructureInv', NEW f \in Files, ManualEdit(f)
  PROVE  Abstract!Edit(f)
<1>1. UNCHANGED <<guard, staging, half>> /\ edits' = edits + 1
  BY DEF ManualEdit
<1>2. \A g \in Files : g # f => disk'[g] = disk[g]
  BY DEF ManualEdit, StructureInv, TypeOK, Roots
<1>3. \A g \in Files : g # f => Root'[g] = Root[g]
  BY <1>1, <1>2 DEF Root, Target
<1>4. Root \in Roots /\ Root' \in Roots
  <2>1. (StructureInv => Root \in Roots)'
    BY RootType, PTL
  <2>2. QED
    BY <2>1, RootType DEF Roots, Values
<1>5. Root' = [Root EXCEPT ![f] = Root'[f]] /\ Root'[f] \in Values
  BY <1>3, <1>4 DEF Roots
<1>6. QED
  BY <1>1, <1>5 DEF Abstract!Edit, Abstract!Values, Values

\* Every step is one of the promised ones, or does not show.
LEMMA RootStep ==
  ASSUME RootAssumptions, RacingEdits = FALSE, PublishInv, PublishInv', [Next]_vars
  PROVE  [Abstract!Next]_<<Root, half, edits>>
<1> DEFINE Shown ==
      \/ \E c \in Transactions \union Direct : Abstract!Update(c)
      \/ \E c \in {d \in Direct : RemovesInstance(d)} : Abstract!BeginRemoval(c)
      \/ \E f \in Files : Abstract!Edit(f)
      \/ UNCHANGED <<Root, half, edits>>
<1> SUFFICES Shown
  BY DEF Abstract!Next
<1> USE DEF PublishInv, CommandInv
<1>1. ASSUME UNCHANGED <<disk, guard, staging, half, edits>> PROVE Shown
  BY <1>1, RootSame
<1>2. ASSUME NEW w \in Writers, NEW f \in Files, WritePath(w, f),
             pc[w] = "direct" /\ RemovesInstance(plan[w]) /\ f \in Markers
               => todo[w] \subseteq Markers
      PROVE  Shown
  <2>1. UNCHANGED edits
    BY <1>2 DEF WritePath
  <2>2. CASE pc[w] = "direct"
    BY <1>2, <2>2, RootDirect
  <2>3. CASE pc[w] # "direct"
    <3>1. UNCHANGED half
      BY <1>2, <2>3 DEF WritePath, KeepAccount
    <3>2. QED
      BY <1>2, <2>1, <2>3, <3>1, RootWritten
  <2>4. QED
    BY <2>2, <2>3
<1>3. ASSUME NEW w \in Writers,
             \/ Inspect(w) \/ Lock(w) \/ Step(w) \/ Request(w) \/ IoError(w) \/ Kill(w)
      PROVE  Shown
  <2>1. CASE FinishWrite(w) \/ \E f \in Files : Remove(w, f)
    <3>1. CASE FinishWrite(w)
      <4>1. ~(pc[w] = "direct" /\ RemovesInstance(plan[w]))
        BY <3>1 DEF FinishWrite, IntentInv
      <4>2. QED
        BY <1>2, <3>1, <4>1, WriteIsWritePath
    <3>2. ASSUME NEW f \in Files, Remove(w, f) PROVE Shown
      <4>1. pc[w] = "direct" /\ f \in Markers => todo[w] \subseteq Markers
        BY <3>2 DEF Remove
      <4>2. QED
        BY <1>2, <3>2, <4>1, WriteIsWritePath
    <3>3. QED
      BY <2>1, <3>1, <3>2
  <2>2. CASE CommitRecord(w)
    BY <2>2, RootCommitted
  <2>3. CASE CreateGuard(w) \/ WriteGuard(w) \/ RemoveGuard(w)
    <3>1. UNCHANGED <<edits, half>>
      BY <2>3 DEF CreateGuard, WriteGuard, RemoveGuard, envVars
    <3>2. QED
      BY <2>3, <3>1, RootGuarded
  <2>4. CASE \/ CleanPublished(w) \/ CleanRecovered(w)
             \/ \E c \in Transactions, t \in Txns : Stage(w, c, t)
    <3>1. UNCHANGED <<disk, guard, half, edits>> /\ pc[w] \in {"published", "recovered", "ready"}
      BY <2>4 DEF CleanPublished, CleanRecovered, Stage, envVars
    <3>2. guard \notin Txns
      BY <3>1 DEF StructureInv, WriterInv, RootAssumptions, NameAssumption
    <3>3. (StructureInv /\ guard \notin Txns => Root = disk)'
      BY RootSettled, PTL
    <3>4. QED
      BY <3>1, <3>2, <3>3, RootSettled
  <2>5. CASE \/ Inspect(w) \/ Lock(w) \/ NothingToRecover(w) \/ StartRecovery(w)
             \/ RefuseRecovery(w) \/ Restored(w) \/ VerifyFails(w) \/ FinishDirect(w)
             \/ Decline(w) \/ IoError(w) \/ Kill(w)
             \/ \E f \in Files : BeginWrite(w, f) \/ VerifyPath(w, f)
             \/ \E c \in Direct : StartDirect(w, c)
    <3>1. UNCHANGED <<disk, guard, staging, half, edits>>
      BY <2>5 DEF Inspect, Lock, NothingToRecover, StartRecovery, RefuseRecovery, Restored,
         VerifyFails, FinishDirect, Decline, IoError, Kill, BeginWrite, VerifyPath, StartDirect,
         diskVars, envVars
    <3>2. QED
      BY <1>1, <3>1
  <2>6. QED
    BY <1>3, <2>1, <2>2, <2>3, <2>4, <2>5 DEF Step, Request
<1>4. ASSUME NEW r \in Readers, Read(r) PROVE Shown
  BY <1>1, <1>4 DEF Read, OpenShared, OpenUnlocked, ListRoot, ReadFile, EndRead, AbandonRead,
     diskVars, envVars
<1>5. ASSUME NEW f \in Files, ManualEdit(f) PROVE Shown
  <2>1. StructureInv'
    OBVIOUS
  <2>2. QED
    BY <1>5, <2>1, RootEdited
<1>6. CASE UNCHANGED vars
  BY <1>1, <1>6 DEF vars
<1>7. QED
  BY <1>3, <1>4, <1>5, <1>6 DEF Next

\* A change set takes effect as a whole, at the step that renames the committed record
\* into place, and only if the Host Catalog resolved the outcome; a kill, an error, a
\* rollback or a second recovery changes nothing (publish_root_files,
\* recover_plugin_root_transaction). The removal of an instance and its marker takes two
\* steps and may end after the first (remove_instance_difference). People edit while no
\* command runs.
THEOREM RootIsAtomic ==
  ASSUME RootAssumptions, RacingEdits = FALSE
  PROVE  Spec => ImplementsAtomicRoot
<1>1. Init => Abstract!Init
  <2> SUFFICES ASSUME Init PROVE Root = InitRoot /\ half = FALSE /\ edits = 0
    BY DEF Abstract!Init
  <2>1. guard \notin Txns /\ disk = InitRoot /\ half = FALSE /\ edits = 0
    BY DEF Init, RootAssumptions, NameAssumption
  <2>2. QED
    BY <2>1, InitStructure, RootSettled
<1>2. PublishInv /\ PublishInv' /\ [Next]_vars => [Abstract!Next]_<<Root, half, edits>>
  BY RootStep
<1>3. Spec => []PublishInv
  BY PublishCorrect
<1>4. QED
  BY <1>1, <1>2, <1>3, PTL DEF Spec, ImplementsAtomicRoot, Abstract!Spec

\* While nobody edits by hand, the root is one that the Host Catalog has resolved, or
\* what half a removal has left of one.
RootInv == edits = 0 /\ ~half => Root \in Resolvable

LEMMA RootStaysResolvable ==
  ASSUME RootAssumptions, RacingEdits = FALSE
  PROVE  Spec => [](PublishInv /\ RootInv)
<1>1. Init => RootInv
  <2> SUFFICES ASSUME Init PROVE Root \in Resolvable
    BY DEF RootInv
  <2>1. guard \notin Txns /\ disk \in Resolvable
    BY DEF Init, RootAssumptions, RootAssumption, NameAssumption
  <2>2. QED
    BY <2>1, InitStructure, RootSettled
<1>2. PublishInv /\ PublishInv' /\ [Next]_vars /\ RootInv => RootInv'
  <2> SUFFICES ASSUME PublishInv, PublishInv', [Next]_vars, RootInv, edits' = 0, ~half'
               PROVE  Root' \in Resolvable
    BY DEF RootInv
  <2>1. [Abstract!Next]_<<Root, half, edits>>
    BY RootStep
  <2>2. edits \in Nat
    BY DEF PublishInv, CommandInv, StructureInv, TypeOK
  <2>3. CASE UNCHANGED <<Root, half, edits>>
    BY <2>3 DEF RootInv
  <2>4. ASSUME NEW c, Abstract!Update(c) PROVE Root' \in Resolvable
    BY <2>4 DEF Abstract!Update
  <2>5. ASSUME NEW c, Abstract!BeginRemoval(c) PROVE FALSE
    <3>1. half'
      BY <2>5, Zenon DEF Abstract!BeginRemoval
    <3>2. QED
      BY <3>1
  <2>6. ASSUME NEW f, Abstract!Edit(f) PROVE FALSE
    BY <2>2, <2>6 DEF Abstract!Edit
  <2>7. QED
    BY <2>1, <2>3, <2>4, <2>5, <2>6 DEF Abstract!Next
<1>3. Spec => []PublishInv
  BY PublishCorrect
<1>4. QED
  BY <1>1, <1>2, <1>3, PTL DEF Spec

\* Files at rest, with no transaction in doubt, are a root that was resolved before
\* anything was changed, whatever was killed before (lib.rs:3-4), unless that was the
\* removal of an instance difference between its two files.
THEOREM RestingRootResolves ==
  ASSUME RootAssumptions, RacingEdits = FALSE
  PROVE  Spec => []RestsResolvable
<1>1. PublishInv /\ RootInv => RestsResolvable
  BY RootSettled
     DEF RestsResolvable, RootInv, PublishInv, CommandInv, RootAssumptions, NameAssumption
<1>2. QED
  BY <1>1, RootStaysResolvable, PTL

----------------------------------------------------------------------------
(* Readers, where an earlier command has created the lock file.            *)

\* A reader holds the shared lock from before it lists the root, which has no guard
\* then, and what it has read is what is there.
ReaderInv(r) ==
  /\ rpc[r] \in {"open", "reading"} => r \in shared
  /\ rpc[r] # "reading" => view[r] = NoPlan
  /\ rpc[r] = "reading" => guard = NoGuard
  /\ edits = 0 => \A f \in DOMAIN view[r] : view[r][f] = disk[f]

SharedInv ==
  /\ lockFile
  /\ shared # {} => holder = Nobody
  /\ \A r \in Readers : ReaderInv(r)

\* While the lock is shared no writer is past its inspection, and nothing moves but
\* the files that a person edits.
LEMMA SharedStep ==
  ASSUME RootAssumptions, StructureInv, SharedInv, [Next]_vars
  PROVE  SharedInv'
<1> USE DEF SharedInv, diskVars, lockVars, writerVars, readerVars, envVars
<1>1. view \in [Readers -> ChangeSets] /\ edits \in Nat
        /\ rpc \in [Readers -> {"idle", "open", "reading", "done"}]
  BY DEF StructureInv, TypeOK
<1>2. ASSUME NEW w \in Writers,
             \/ Inspect(w) \/ Lock(w) \/ Step(w) \/ Request(w) \/ IoError(w) \/ Kill(w)
      PROVE  SharedInv'
  <2>1. UNCHANGED <<shared, rpc, view, edits>> /\ lockFile'
    BY <1>2 DEF Step, Request, Inspect, Lock, NothingToRecover, StartRecovery,
       RefuseRecovery, Stage, CreateGuard, WriteGuard, BeginWrite, FinishWrite, Remove,
       CommitRecord, Restored, VerifyPath, VerifyFails, RemoveGuard, CleanPublished,
       CleanRecovered, StartDirect, FinishDirect, Decline, IoError, Kill, Leave
  <2>2. CASE shared = {}
    <3>1. ASSUME NEW r \in Readers PROVE ReaderInv(r)'
      <4>1. rpc[r] \notin {"open", "reading"} /\ view[r] = NoPlan
        BY <2>2 DEF ReaderInv
      <4>2. QED
        BY <2>1, <4>1, NoPlanType DEF ReaderInv
    <3>2. QED
      BY <2>1, <2>2, <3>1
  <2>3. CASE shared # {}
    <3>1. holder = Nobody /\ pc[w] \in {"idle", "inspected"}
      BY <2>3
         DEF StructureInv, WriterInv, TypeOK, WriterStates, RootAssumptions, NobodyAssumption
    <3>2. Inspect(w) \/ IoError(w) \/ Kill(w)
      BY <1>2, <2>3, <3>1 DEF Step, Request, Lock, NothingToRecover, StartRecovery,
         RefuseRecovery, Stage, CreateGuard, WriteGuard, BeginWrite, FinishWrite, Remove,
         CommitRecord, Restored, VerifyPath, VerifyFails, RemoveGuard, CleanPublished,
         CleanRecovered, StartDirect, FinishDirect, Decline, Writing, Verifying
    <3>3. UNCHANGED <<disk, guard>> /\ holder' = Nobody
      BY <3>1, <3>2 DEF Inspect, IoError, Kill, Leave
    <3>4. QED
      BY <2>1, <3>3 DEF ReaderInv
  <2>4. QED
    BY <2>2, <2>3
<1>3. ASSUME NEW r \in Readers, Read(r) PROVE SharedInv'
  <2>1. UNCHANGED <<disk, guard, edits, holder, lockFile>>
    BY <1>3 DEF Read, OpenShared, OpenUnlocked, ListRoot, ReadFile, EndRead, AbandonRead, Close
  <2>2. \A q \in Readers : q # r =>
          rpc'[q] = rpc[q] /\ view'[q] = view[q] /\ (q \in shared => q \in shared')
    BY <1>1, <1>3 DEF Read, OpenShared, OpenUnlocked, ListRoot, ReadFile, EndRead, AbandonRead,
       Close
  <2>3. ASSUME NEW q \in Readers, q # r PROVE ReaderInv(q)'
    BY <2>1, <2>2, <2>3 DEF ReaderInv
  <2>4. ReaderInv(r)' /\ (shared' # {} => holder = Nobody)
    <3>1. CASE OpenShared(r)
      BY <1>1, <3>1 DEF OpenShared, ReaderInv
    <3>2. CASE OpenUnlocked(r)
      BY <3>2 DEF OpenUnlocked
    <3>3. CASE ListRoot(r)
      BY <1>1, <3>3, NoPlanType DEF ListRoot, ReaderInv
    <3>4. CASE \E f \in Files : ReadFile(r, f)
      <4> PICK f \in Files : ReadFile(r, f)
        BY <3>4
      <4>1. /\ rpc[r] = "reading" /\ UNCHANGED <<rpc, shared, disk, edits, guard>>
            /\ view'[r] = [g \in DOMAIN view[r] \union {f} |->
                             IF g = f THEN disk[f] ELSE view[r][g]]
        BY <1>1 DEF ReadFile
      <4>2. QED
        BY <4>1 DEF ReaderInv
    <3>5. CASE EndRead(r) \/ AbandonRead(r)
      BY <1>1, <3>5, NoPlanType DEF EndRead, AbandonRead, Close, ReaderInv
    <3>6. QED
      BY <1>3, <3>1, <3>2, <3>3, <3>4, <3>5 DEF Read
  <2>5. QED
    BY <2>1, <2>3, <2>4
<1>4. ASSUME NEW f \in Files, ManualEdit(f) PROVE SharedInv'
  <2>1. edits' # 0 /\ UNCHANGED <<guard, lockFile, holder, shared, rpc, view>>
    BY <1>1, <1>4 DEF ManualEdit
  <2>2. QED
    BY <2>1 DEF ReaderInv
<1>5. CASE UNCHANGED vars
  BY <1>5 DEF vars, ReaderInv
<1>6. QED
  BY <1>2, <1>3, <1>4, <1>5 DEF Next

LEMMA SharedCorrect ==
  ASSUME RootAssumptions, LockFileExists = TRUE
  PROVE  Spec => [](StructureInv /\ SharedInv)
<1>1. Init => SharedInv
  BY NoPlanType DEF Init, SharedInv, ReaderInv
<1>2. StructureInv /\ SharedInv /\ [Next]_vars => SharedInv'
  BY SharedStep
<1>3. Spec => []StructureInv
  BY StructureCorrect
<1>4. QED
  BY <1>1, <1>2, <1>3, PTL DEF Spec

\* A snapshot is one root and never a mixture of two: a reader that has seen every file
\* holds a root that some command resolved (lib.rs:290-294), or the one that half a
\* removal left on disk.  Without a lock file this
\* is false, which the run unlocked_reader shows.
THEOREM SnapshotsAreRoots ==
  ASSUME RootAssumptions, RacingEdits = FALSE, LockFileExists = TRUE
  PROVE  Spec => []SnapshotResolvable
<1>1. PublishInv /\ RootInv /\ StructureInv /\ SharedInv => SnapshotResolvable
  <2> SUFFICES ASSUME PublishInv, RootInv, StructureInv, SharedInv, NEW r \in Readers,
                      Complete(r), edits = 0
               PROVE  view[r] = Root /\ (half \/ view[r] \in Resolvable)
    BY DEF SnapshotResolvable
  <2>1. guard \notin Txns /\ DOMAIN view[r] = Files /\ \A f \in Files : view[r][f] = disk[f]
    BY DEF Complete, SharedInv, ReaderInv, RootAssumptions, NameAssumption
  <2>2. view[r] = [f \in DOMAIN view[r] |-> view[r][f]]
    BY ChangeSetElim DEF StructureInv, TypeOK
  <2>3. disk = [f \in Files |-> disk[f]]
    BY DEF StructureInv, TypeOK, Roots
  <2>4. view[r] = disk
    BY <2>1, <2>2, <2>3
  <2>5. QED
    BY <2>1, <2>4, RootSettled DEF RootInv
<1>2. QED
  BY <1>1, RootStaysResolvable, SharedCorrect, PTL
=============================================================================
