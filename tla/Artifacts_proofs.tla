-------------------------- MODULE Artifacts_proofs --------------------------
(***************************************************************************)
(* Proofs about Artifacts: what the commands publish, for every set of     *)
(* processes, requests, sources and their contents, and any number of      *)
(* edits, stops and changes by other people.                               *)
(***************************************************************************)
EXTENDS Artifacts, SequenceTheorems, TLAPS

-----------------------------------------------------------------------------
(* Publication.                                                             *)


\* The steps after which a publisher knows that its request is accepted.
Accepted == {"staging", "stored", "selected"}

\* Who is not idle holds the lock, and what a publisher has done so far is on disk but
\* for what was damaged since.
PublisherInv ==
  \A p \in Publishers :
    /\ pc[p] # "idle" => holder = p
    /\ pc[p] \in Accepted => request[p] \notin Conflicting
    /\ pc[p] \in {"stored", "selected"} =>
         generations[Target(p)] = Target(p) \/ Target(p) \in late
    /\ pc[p] = "selected" => current = Target(p)

\* While nothing is damaged, what a consumer can have read from current.json is
\* complete.
ConsumerInv ==
  tampering = 0 =>
    /\ late = {}
    /\ current # None => generations[current] = current
    /\ \A r \in Readers :
         /\ rpc[r] = "verifying" =>
              reading[r] \in Generations /\ generations[reading[r]] = reading[r]
         /\ rpc[r] # "rejected"

\* A directory is complete unless somebody damaged it, and then it lacks a file:
\* verification tells the two apart.
Complete ==
  \A g \in Generations :
    \/ generations[g] \in {Absent, g}
    \/ tampering > 0 /\ ~(g \subseteq generations[g])

StoreInv == TypeOK /\ Complete /\ PublisherInv /\ ConsumerInv

\* A request that is not refused asks for one of the generations.
LEMMA TargetType ==
  ASSUME TypeOK, NEW p \in Publishers, request[p] \notin Conflicting
  PROVE  Target(p) \in Generations
BY DEF TypeOK, Target, Generations

\* A generation is a set of files and neither of the marks.
LEMMA GenerationType ==
  ASSUME NEW g \in Generations
  PROVE  g \subseteq Files /\ g # None /\ g # Absent
<1>1. g \subseteq Files
  BY DEF Files
<1> QED
  BY <1>1, MarkAssumption

LEMMA InitInv == Init => StoreInv
<1> SUFFICES ASSUME Init PROVE StoreInv
  OBVIOUS
<1>1. TypeOK
  BY BoundAssumption DEF Init, TypeOK
<1>2. Complete /\ PublisherInv /\ ConsumerInv
  BY DEF Init, Complete, PublisherInv, ConsumerInv, Accepted
<1> QED
  BY <1>1, <1>2 DEF StoreInv

\* The invariant does not mention what a stopped process leaves behind, and a
\* return only takes things away.
LEMMA ReturnKeeps ==
  ASSUME StoreInv, NEW p \in Publishers, Return(p), pc[p] # "idle",
         UNCHANGED <<generations, current, request, readerVars>>,
         litter' \in Nat, faults' \in 0..MaxFaults, UNCHANGED <<tampering, late>>
  PROVE  StoreInv'
<1>1. TypeOK'
  BY DEF StoreInv, TypeOK, Return, Goto, readerVars, Target
<1>2. Complete'
  BY DEF StoreInv, Complete
<1>3. PublisherInv'
  BY DEF StoreInv, TypeOK, PublisherInv, Return, Goto, Target, Accepted
<1>4. ConsumerInv'
  BY DEF StoreInv, ConsumerInv, readerVars
<1> QED
  BY <1>1, <1>2, <1>3, <1>4 DEF StoreInv

LEMMA NextInv ==
  ASSUME StoreInv, [Next]_vars
  PROVE  StoreInv'
<1> USE DEF StoreInv
<1>1. ASSUME NEW p \in Publishers, NEW r \in Requests, Start(p, r)
      PROVE  StoreInv'
  <2>1. TypeOK'
    BY <1>1 DEF TypeOK, Start, Lock, Goto, readerVars, NothingLate, Target
  <2>2. PublisherInv'
    BY <1>1, NobodyAssumption DEF TypeOK, PublisherInv, Start, Lock, Goto, Target, Accepted
  <2> QED
    BY <1>1, <2>1, <2>2 DEF Complete, ConsumerInv, Start, readerVars, NothingLate
<1>2. ASSUME NEW p \in Publishers, RefuseRequest(p) \/ RefuseDamaged(p) \/ Succeed(p)
      PROVE  StoreInv'
  BY <1>2, ReturnKeeps
  DEF RefuseRequest, RefuseDamaged, Succeed, counts, TypeOK
<1>3. ASSUME NEW p \in Publishers, IoError(p) \/ Kill(p)
      PROVE  StoreInv'
  <2>1. litter' \in Nat
    BY <1>3 DEF IoError, Kill, TypeOK
  <2>2. faults' \in 0..MaxFaults
    BY <1>3, BoundAssumption DEF IoError, Kill, TypeOK
  <2> QED
    BY <1>3, <2>1, <2>2, ReturnKeeps DEF IoError, Kill, Busy
<1>4. ASSUME NEW p \in Publishers, Reuse(p)
      PROVE  StoreInv'
  <2>1. TypeOK'
    BY <1>4 DEF TypeOK, Reuse, Goto, readerVars, NothingLate, Target
  <2>2. generations[Target(p)] = Target(p)
    BY <1>4, TargetType DEF Reuse, Verified, Complete
  <2>3. PublisherInv'
    BY <1>4, <2>2, NobodyAssumption DEF TypeOK, PublisherInv, Reuse, Goto, Target, Accepted
  <2> QED
    BY <1>4, <2>1, <2>3 DEF Complete, ConsumerInv, Reuse, readerVars, NothingLate
<1>5. ASSUME NEW p \in Publishers, StartStaging(p)
      PROVE  StoreInv'
  <2>1. TypeOK'
    BY <1>5 DEF TypeOK, StartStaging, Goto, readerVars, counts, Target
  <2>2. PublisherInv'
    BY <1>5 DEF TypeOK, PublisherInv, StartStaging, Goto, Target, Accepted, counts
  <2> QED
    BY <1>5, <2>1, <2>2 DEF Complete, ConsumerInv, StartStaging, readerVars, counts
<1>6. ASSUME NEW p \in Publishers, NEW f \in Target(p), WriteFile(p, f)
      PROVE  StoreInv'
  <2>1. Target(p) \in Generations
    BY <1>6, TargetType DEF WriteFile, PublisherInv, Accepted
  <2>2. TypeOK'
    BY <1>6, <2>1, GenerationType
    DEF TypeOK, WriteFile, readerVars, counts, Target
  <2>3. PublisherInv'
    BY <1>6 DEF PublisherInv, WriteFile, Target, counts
  <2> QED
    BY <1>6, <2>2, <2>3 DEF Complete, ConsumerInv, WriteFile, readerVars, counts
<1>7. ASSUME NEW p \in Publishers, RenameGeneration(p)
      PROVE  StoreInv'
  <2>1. Target(p) \in Generations
    BY <1>7, TargetType DEF RenameGeneration, PublisherInv, Accepted
  <2>2. generations' = [generations EXCEPT ![Target(p)] = Target(p)]
    BY <1>7 DEF RenameGeneration
  <2>3. TypeOK'
    BY <1>7, <2>1, <2>2, GenerationType
    DEF TypeOK, RenameGeneration, Goto, readerVars, NothingLate, Target
  <2>4. Complete'
    BY <1>7, <2>1, <2>2 DEF TypeOK, Complete, RenameGeneration, NothingLate
  <2>5. PublisherInv'
    BY <1>7, <2>1, <2>2
    DEF TypeOK, PublisherInv, RenameGeneration, Goto, Target, Accepted
  <2>6. ConsumerInv'
    BY <1>7, <2>1, <2>2 DEF TypeOK, ConsumerInv, RenameGeneration, readerVars, NothingLate
  <2> QED
    BY <2>3, <2>4, <2>5, <2>6
<1>8. ASSUME NEW p \in Publishers, Persist(p)
      PROVE  StoreInv'
  <2>1. Target(p) \in Generations
    BY <1>8, TargetType DEF Persist, PublisherInv, Accepted
  <2>2. TypeOK'
    BY <1>8, <2>1 DEF TypeOK, Persist, Goto, readerVars, counts, Target
  <2>3. generations[Target(p)] = Target(p) \/ Target(p) \in late
    BY <1>8 DEF Persist, PublisherInv
  <2>4. PublisherInv'
    BY <1>8, <2>3 DEF TypeOK, PublisherInv, Persist, Goto, Target, Accepted, counts
  <2>5. ConsumerInv'
    BY <1>8, <2>3 DEF ConsumerInv, Persist, readerVars, counts
  <2> QED
    BY <1>8, <2>2, <2>4, <2>5 DEF Complete, Persist, counts
<1>9. ASSUME NEW g \in Generations, NEW f \in g, Tamper(g, f)
      PROVE  StoreInv'
  <2>1. tampering' > 0 /\ tampering' \in 0..MaxTampering
    BY <1>9, BoundAssumption DEF Tamper, TypeOK
  <2>2. PICK left \in {{}, {Wrong}} :
          generations' = [generations EXCEPT ![g] = (@ \ {f}) \union left]
    BY <1>9 DEF Tamper
  <2>3. (generations[g] \ {f}) \union left \in SUBSET (Files \union {Wrong})
    BY <1>9, <2>2, MarkAssumption DEF Tamper, TypeOK
  <2>4. TypeOK'
    BY <1>9, <2>1, <2>2, <2>3 DEF TypeOK, Tamper, publisherVars, readerVars, Target
  <2>5. f # Wrong
    BY GenerationType, WrongAssumption
  <2>6. Complete'
    BY <1>9, <2>1, <2>2, <2>5 DEF TypeOK, Complete, Tamper
  <2>7. PublisherInv'
    <3>1. ASSUME NEW p \in Publishers, generations[Target(p)] = Target(p) \/ Target(p) \in late
          PROVE  generations'[Target(p)] = Target(p) \/ Target(p) \in late'
      BY <1>9, <2>2, <3>1 DEF Tamper, TypeOK
    <3> QED
      BY <1>9, <3>1 DEF PublisherInv, Tamper, publisherVars, Target, Accepted
  <2> QED
    BY <2>1, <2>4, <2>6, <2>7 DEF ConsumerInv
<1>10. ASSUME NEW r \in Readers, ReadCurrent(r)
       PROVE  StoreInv'
  <2>1. TypeOK'
    BY <1>10 DEF TypeOK, ReadCurrent, publisherVars, counts, Target
  <2>2. ConsumerInv'
    BY <1>10 DEF TypeOK, ConsumerInv, ReadCurrent, counts
  <2> QED
    BY <1>10, <2>1, <2>2
    DEF Complete, PublisherInv, ReadCurrent, publisherVars, counts, Target
<1>11. ASSUME NEW r \in Readers, NEW f \in reading[r], CompareFile(r, f)
       PROVE  StoreInv'
  <2>1. f \in Files
    BY <1>11 DEF CompareFile, TypeOK, Files
  <2>2. TypeOK'
    BY <1>11, <2>1 DEF TypeOK, CompareFile, publisherVars, counts, Target
  <2> QED
    BY <1>11, <2>2
    DEF Complete, PublisherInv, ConsumerInv, CompareFile, publisherVars, counts, Target
<1>12. ASSUME NEW r \in Readers, NEW f \in reading[r], RejectFile(r, f)
       PROVE  StoreInv'
  <2>1. tampering # 0
    <3> SUFFICES ASSUME tampering = 0
                 PROVE  Intact(r, f)
      BY <1>12 DEF RejectFile
    <3>1. generations[reading[r]] = reading[r] /\ reading[r] \in Generations
      BY <1>12 DEF RejectFile, ConsumerInv
    <3> QED
      BY <3>1, GenerationType DEF Intact
  <2>2. TypeOK'
    BY <1>12 DEF TypeOK, RejectFile, publisherVars, counts, Target
  <2> QED
    BY <1>12, <2>1, <2>2
    DEF Complete, PublisherInv, ConsumerInv, RejectFile, publisherVars, counts, Target
<1>13. ASSUME NEW r \in Readers, EndReading(r)
       PROVE  StoreInv'
  <2>1. TypeOK'
    BY <1>13 DEF TypeOK, EndReading, publisherVars, counts, Target
  <2> QED
    BY <1>13, <2>1
    DEF TypeOK, Complete, PublisherInv, ConsumerInv, EndReading, publisherVars, counts, Target
<1>14. CASE UNCHANGED vars
  BY <1>14 DEF vars, TypeOK, Complete, PublisherInv, ConsumerInv, Target
<1> QED
  BY <1>1, <1>2, <1>3, <1>4, <1>5, <1>6, <1>7, <1>8, <1>9, <1>10, <1>11, <1>12,
     <1>13, <1>14
  DEF Next, Step

LEMMA InvCorrect == Spec => []StoreInv
<1>1. StoreInv /\ [Next]_vars => StoreInv'
  BY NextInv
<1> QED
  BY <1>1, InitInv, PTL DEF Spec

\* Every variable has its type (publish, verify).
THEOREM PublicationTypes == Spec => []TypeOK
BY InvCorrect, PTL DEF StoreInv

\* A directory under generations/ is complete, whatever was stopped (publish).
THEOREM NamedGenerationsComplete == Spec => []NamedIsComplete
<1>1. StoreInv => NamedIsComplete
  BY DEF StoreInv, Complete, NamedIsComplete
<1> QED
  BY <1>1, InvCorrect, PTL

\* A consumer finds every file of what it read from current.json (verify).
THEOREM ConsumersServed == Spec => []ConsumersFindEverything
<1>1. StoreInv => ConsumersFindEverything
  BY DEF StoreInv, ConsumerInv, ConsumersFindEverything
<1> QED
  BY <1>1, InvCorrect, PTL

\* Two publishers do not overtake one another: what publish returns is selected, and
\* whole but for what was damaged after it was checked or made (publish).
THEOREM ReturnsWhatIsSelected == Spec => ReturnedIsSelected
<1> DEFINE Returned == \A p \in Publishers :
                         (pc[p] = "selected" /\ pc'[p] = "idle") =>
                           current = Target(p) /\ (Verified(Target(p)) \/ Target(p) \in late)
<1>1. StoreInv => Returned
  <2> SUFFICES ASSUME StoreInv, NEW p \in Publishers, pc[p] = "selected"
               PROVE  current = Target(p) /\ (Verified(Target(p)) \/ Target(p) \in late)
    OBVIOUS
  <2>1. /\ current = Target(p)
        /\ generations[Target(p)] = Target(p) \/ Target(p) \in late
    BY DEF StoreInv, PublisherInv
  <2>2. Target(p) \in Generations
    BY TargetType DEF StoreInv, PublisherInv, Accepted
  <2> QED
    BY <2>1, <2>2, GenerationType DEF Verified
<1>2. StoreInv => [Returned]_vars
  BY <1>1
<1> QED
  BY <1>2, InvCorrect, PTL DEF ReturnedIsSelected

\* What becomes selected is whole at that moment, or was when the publication at work
\* checked or made it, whatever happened to the generations before (publish, verify).
THEOREM DamagedNeverSelected == Spec => NeverSelectsDamaged
<1> DEFINE Selects == current' # current =>
                        generations'[current'] = current' \/ current' \in late
<1>1. StoreInv /\ [Next]_vars => Selects
  <2> SUFFICES ASSUME StoreInv, [Next]_vars, current' # current
               PROVE  generations'[current'] = current' \/ current' \in late
    OBVIOUS
  <2>1. PICK p \in Publishers : Persist(p)
    <3>1. ~(UNCHANGED vars)
      BY DEF vars
    <3>2. \A g, f : ~Tamper(g, f)
      BY DEF Tamper
    <3>3. \A r \in Readers : /\ ~ReadCurrent(r) /\ ~EndReading(r)
                          /\ \A f : ~CompareFile(r, f) /\ ~RejectFile(r, f)
      BY DEF ReadCurrent, CompareFile, RejectFile, EndReading
    <3>4. \A q \in Publishers : (\A r : ~Start(q, r)) /\ ~IoError(q) /\ ~Kill(q)
      BY DEF Start, IoError, Kill
    <3> QED
      BY <3>1, <3>2, <3>3, <3>4
      DEF Next, Step, RefuseRequest, Reuse, RefuseDamaged, StartStaging, WriteFile,
          RenameGeneration, Succeed
  <2> QED
    BY <2>1 DEF StoreInv, PublisherInv, Persist
<1>2. StoreInv /\ [Next]_vars => [Selects]_vars
  BY <1>1
<1> QED
  BY <1>2, InvCorrect, PTL DEF Spec, NeverSelectsDamaged

\* What GenerationStore calls checked.
About == IF holder # Nobody /\ pc[holder] = "stored" THEN Target(holder) ELSE None

\* Who does something is who holds the lock.
LEMMA AboutOf ==
  ASSUME StoreInv, NEW p \in Publishers, pc[p] # "idle"
  PROVE  /\ holder = p
         /\ About = IF pc[p] = "stored" THEN Target(p) ELSE None
BY NobodyAssumption DEF StoreInv, PublisherInv, About

\* The directories and current.json implement the store: a rename of a staged
\* directory adds a generation, a verification checks one, a rename of current.json
\* selects it, and every other step of every process is invisible (publish).
THEOREM StoreImplemented == Spec => ImplementsStore
<1> DEFINE available == {g \in Generations : generations[g] = g}
<1> DEFINE Stays == UNCHANGED <<available, About, current>>
<1>1. Init => Store!StoreInit
  BY GenerationType DEF Init, Store!StoreInit
<1>2. StoreInv /\ [Next]_vars => [Store!StoreNext]_Store!storeVars
  <2> SUFFICES ASSUME StoreInv, StoreInv', [Next]_vars
               PROVE  [Store!StoreNext]_Store!storeVars
    BY NextInv
  <2>s. Stays => UNCHANGED Store!storeVars
    BY DEF Store!storeVars, About
  <2>f. available' = available /\ About' = None /\ current' = current => Store!StoreNext
    BY DEF Store!StoreNext, Store!Forget, About
  <2>2. ASSUME NEW p \in Publishers, RenameGeneration(p)
        PROVE  Store!StoreNext
    <3>1. Target(p) \in Generations
      BY <2>2, TargetType DEF RenameGeneration, StoreInv, PublisherInv, Accepted
    <3>2. generations' = [generations EXCEPT ![Target(p)] = Target(p)] /\ current' = current
      BY <2>2 DEF RenameGeneration
    <3>3. available' = available \union {Target(p)}
      BY <3>1, <3>2 DEF StoreInv, TypeOK
    <3>4. pc'[p] = "stored" /\ Target(p)' = Target(p)
      BY <2>2 DEF RenameGeneration, Goto, StoreInv, TypeOK, Target
    <3>5. About' = Target(p)
      BY <3>4, NobodyAssumption DEF StoreInv, PublisherInv, About
    <3> PICK g \in Generations : g = Target(p)
      BY <3>1
    <3>6. Store!Add(g)
      BY <3>2, <3>3, <3>5 DEF Store!Add, About
    <3> QED
      BY <3>6 DEF Store!StoreNext
  <2>3. ASSUME NEW p \in Publishers, Reuse(p)
        PROVE  Store!StoreNext
    <3>1. Target(p) \in Generations
      BY <2>3, TargetType DEF Reuse, StoreInv
    <3>2. UNCHANGED <<generations, current>> /\ generations[Target(p)] = Target(p)
      BY <2>3, <3>1 DEF Reuse, Verified, StoreInv, Complete
    <3>3. pc'[p] = "stored" /\ Target(p)' = Target(p)
      BY <2>3 DEF Reuse, Goto, StoreInv, TypeOK, Target
    <3>4. About' = Target(p)
      BY <3>3, NobodyAssumption DEF StoreInv, PublisherInv, About
    <3>5. Store!Check(Target(p))
      BY <3>1, <3>2, <3>4 DEF Store!Check, About
    <3> QED
      BY <3>1, <3>5 DEF Store!StoreNext
  <2>4. ASSUME NEW p \in Publishers, Persist(p)
        PROVE  Store!StoreNext
    <3>1. Target(p) \in Generations
      BY <2>4, TargetType DEF Persist, StoreInv, PublisherInv, Accepted
    <3>2. About = Target(p) /\ Target(p) # None
      BY <2>4, <3>1, AboutOf, GenerationType DEF Persist
    <3>3. pc'[p] = "selected"
      BY <2>4 DEF Persist, Goto, StoreInv, TypeOK
    <3>4. About' = None
      BY <3>3, NobodyAssumption DEF StoreInv, PublisherInv, About
    <3>5. Store!Select
      BY <2>4, <3>2, <3>4 DEF Persist, Store!Select, About
    <3> QED
      BY <3>5 DEF Store!StoreNext
  <2>5. ASSUME NEW g \in Generations, NEW f \in g, Tamper(g, f)
        PROVE  Store!StoreNext
    <3>1. \A h \in Generations : h # g => generations'[h] = generations[h]
      BY <2>5 DEF Tamper, StoreInv, TypeOK
    <3>2. f \notin generations'[g]
      BY <2>5, GenerationType, WrongAssumption DEF Tamper, StoreInv, TypeOK
    <3>3. available' = available \ {g}
      BY <3>1, <3>2
    <3>4. MaxTampering > 0 /\ current' = current /\ About' = About
      BY <2>5, BoundAssumption DEF Tamper, StoreInv, TypeOK, About, publisherVars, Target
    <3>5. Store!Damage(g)
      BY <3>3, <3>4 DEF Store!Damage, About
    <3> QED
      BY <3>5 DEF Store!StoreNext
  <2>6. ASSUME NEW p \in Publishers, NEW r \in Requests, Start(p, r)
        PROVE  Store!StoreNext
    <3>1. UNCHANGED <<generations, current>> /\ pc'[p] = "started"
      BY <2>6 DEF Start, Goto, StoreInv, TypeOK
    <3>2. About' = None
      BY <3>1, NobodyAssumption DEF StoreInv, PublisherInv, About
    <3> QED
      BY <2>f, <3>1, <3>2
  <2>7. ASSUME NEW p \in Publishers, StartStaging(p) \/ (\E f \in Target(p) : WriteFile(p, f))
        PROVE  Store!StoreNext
    <3>1. UNCHANGED <<generations, current>> /\ pc'[p] = "staging"
      BY <2>7 DEF StartStaging, WriteFile, Goto, StoreInv, TypeOK
    <3>2. About' = None
      BY <3>1, NobodyAssumption DEF StoreInv, PublisherInv, About
    <3> QED
      BY <2>f, <3>1, <3>2
  <2>8. ASSUME NEW p \in Publishers,
               RefuseRequest(p) \/ RefuseDamaged(p) \/ Succeed(p) \/ IoError(p) \/ Kill(p)
        PROVE  Store!StoreNext
    <3>1. UNCHANGED <<generations, current>> /\ holder' = Nobody
      BY <2>8 DEF RefuseRequest, RefuseDamaged, Succeed, IoError, Kill, Return
    <3> QED
      BY <2>f, <3>1 DEF About
  <2>9. ASSUME NEW r \in Readers,
               \/ ReadCurrent(r) \/ EndReading(r)
               \/ \E f \in reading[r] : CompareFile(r, f) \/ RejectFile(r, f)
        PROVE  UNCHANGED Store!storeVars
    <3>1. UNCHANGED <<generations, current, holder, publisherVars>>
      BY <2>9 DEF ReadCurrent, CompareFile, RejectFile, EndReading
    <3> QED
      BY <2>s, <3>1 DEF About, publisherVars, Target
  <2>10. CASE UNCHANGED vars
    BY <2>s, <2>10 DEF vars, About, Target
  <2> QED
    BY <2>2, <2>3, <2>4, <2>5, <2>6, <2>7, <2>8, <2>9, <2>10 DEF Next, Step
<1> QED
  BY <1>1, <1>2, InvCorrect, PTL DEF Spec, ImplementsStore, Store!StoreSpec

-----------------------------------------------------------------------------
(* AppOutputs.                                                              *)

\* What a process can have staged: a copy may be mixed, what is described is not.
Known == [Sources -> Apps!Contents \union {None}]
Copies == [Sources -> Apps!Contents \union {None, Mixed}]
Jobs ==
  [output : Apps!Outputs, seen : Known, todo : SUBSET Sources, digests : Known,
   making : Sources \union {None}, before : Apps!Contents \union {None}, dirty : BOOLEAN,
   files : Copies, described : Known, artifacts : Known, root : {None, "whole", "mixed", "torn"},
   disturbed : BOOLEAN]
HostPhases == {"archive", "describe", "lower"}
DistributionPhases == {"validate", "authority", "copy", "artifact"}
LocalPhases == {"planned", "root", "conventions", "compile", "digest", "make", "resolve",
                "recheck"}
PhasesOf(output) ==
  {"idle", "publish"} \union CASE output = "host" -> HostPhases
                               [] output = "distribution" -> DistributionPhases
                               [] output = "local" -> LocalPhases

OutputTypes ==
  /\ oKind \in Kinds /\ oSrc \in [Sources -> Apps!Contents] /\ oEdits \in 0..MaxSourceEdits
  /\ oBinary \in {1, 2} /\ oReverted \in BOOLEAN
  /\ oMeddlings \in 0..MaxMeddlings /\ oCommands \in 0..MaxOutputCommands
  /\ oOut \in [Apps!Outputs -> Apps!Records \union {None}]
  /\ oPc \in [Processes -> UNION {PhasesOf(d) : d \in Apps!Outputs}]
  /\ oJob \in [Processes -> Jobs]

\* Every moment is remembered; while no content comes back, they only grow.
MomentsInv ==
  /\ oMoments \subseteq [Sources -> Apps!Contents] /\ oSrc \in oMoments
  /\ ~oReverted => \A s \in Sources :
       oSrc[s] <= oEdits + 1 /\ \A m \in oMoments : m[s] <= oSrc[s]

\* The phases in which sources are still to be done.
Iterating == {"archive", "describe", "validate", "copy", "artifact", "conventions", "compile",
              "digest", "make", "recheck"}

PhaseInv(p) ==
  /\ oPc[p] \in PhasesOf(oJob[p].output)
  /\ oPc[p] \in Iterating => oJob[p].todo # {}
  /\ oPc[p] \in {"describe", "artifact"} => oJob[p].making \in oJob[p].todo

\* A Host authoring output: what is done is described as it was staged.
HostJob(p) ==
  LET j == oJob[p] IN
  j.output = "host" =>
    /\ oPc[p] \in {"archive", "describe"} =>
         \A s \in Sources \ j.todo : j.files[s] = j.described[s]
    /\ oPc[p] \in {"lower", "publish"} => j.files = j.described
    /\ oPc[p] = "publish" => Apps!Resolves(j.described)

\* A distribution: unless it was disturbed, the build is there, and what is done of
\* it was found as described and copied as it was found.
DistributionJob(p) ==
  LET j == oJob[p]
      h == oOut["host"]
  IN
  /\ oPc[p] = "authority" => j.todo = Sources
  /\ j.output = "distribution" /\ ~j.disturbed /\ oPc[p] # "idle" =>
    /\ h # None /\ j.seen = h.described
    /\ oPc[p] = "validate" => \A s \in Sources \ j.todo : h.files[s] = h.described[s]
    /\ oPc[p] # "validate" => h.files = h.described
    /\ oPc[p] \in {"copy", "artifact", "publish"} => j.described = h.described
    /\ oPc[p] \in {"copy", "artifact"} =>
         \A s \in Sources \ j.todo : j.files[s] = h.files[s] /\ j.artifacts[s] = h.files[s]
    /\ oPc[p] = "artifact" => j.files[j.making] = h.files[j.making]
    /\ oPc[p] = "publish" => j.files = h.files /\ j.artifacts = h.files

\* A local App: of which sources the digest was taken, which are made, and which were
\* looked at once more.
Digested(p, s) ==
  \/ oPc[p] = "conventions" /\ s \in Apps!Conventions \ oJob[p].todo
  \/ oPc[p] = "compile" /\ s \in Apps!Conventions
  \/ oPc[p] = "digest" /\ s \notin oJob[p].todo
  \/ oPc[p] \in {"make", "resolve", "recheck", "publish"}
IsMade(p, s) ==
  \/ oPc[p] = "compile" /\ s \in Apps!Conventions \ oJob[p].todo
  \/ oPc[p] = "digest" /\ s \in Apps!Conventions
  \/ oPc[p] = "make" /\ s \notin oJob[p].todo
  \/ oPc[p] \in {"resolve", "recheck", "publish"}
Rechecked(p, s) ==
  \/ oPc[p] = "recheck" /\ s \notin oJob[p].todo
  \/ oPc[p] = "publish"

\* While no content comes back, what differs from a digest is newer than it.
LocalJob(p) ==
  LET j == oJob[p] IN
  j.output = "local" =>
    /\ oPc[p] \in {"conventions", "compile"} => j.todo \subseteq Apps!Conventions
    /\ oPc[p] \in {"digest", "make"} => j.todo \subseteq Sources \ Apps!Conventions
    /\ oPc[p] \in {"recheck", "publish"} => j.root # "torn" /\ Apps!Resolves(j.files)
    /\ j.making # None => oPc[p] \in {"compile", "make"} /\ j.making \in j.todo
    /\ ~oReverted =>
         /\ \A s \in Sources : Digested(p, s) => j.digests[s] \in Apps!Contents /\ j.digests[s] <= oSrc[s]
         /\ oPc[p] \in {"compile", "make"} /\ j.making # None /\ j.dirty =>
              j.digests[j.making] < oSrc[j.making]
         /\ \A s \in Sources : IsMade(p, s) =>
              j.files[s] = j.digests[s] \/ j.digests[s] < oSrc[s]
         /\ \A s \in Sources : Rechecked(p, s) => j.files[s] = j.digests[s]
         /\ oPc[p] \in {"recheck", "publish"} =>
              \E m \in oMoments : \A s \in Sources :
                j.digests[s] <= m[s] /\ (Rechecked(p, s) => m[s] = j.digests[s])

JobInv(p) == PhaseInv(p) /\ HostJob(p) /\ DistributionJob(p) /\ LocalJob(p)

\* What is published is whole; what a Host authoring output states makes an App also
\* when its bytes are changed.
HostOut ==
  oOut["host"] # None =>
    /\ Apps!Resolves(oOut["host"].described) /\ oOut["host"].files \in Known
    /\ oOut["host"].intact => oOut["host"].files = oOut["host"].described

OutInv == HostOut /\ Apps!DistributionIsTheBuild /\ Apps!LocalIsOfOneMoment

AppsInv == OutputTypes /\ MomentsInv /\ OutInv /\ \A p \in Processes : JobInv(p)

-----------------------------------------------------------------------------
LEMMA FreshType == Apps!Fresh \in Jobs /\ Apps!Unread \in Known
<1>1. Apps!Unread \in Known
  BY DEF Apps!Unread, Known
<1>2. Apps!Unread \in Copies
  BY <1>1 DEF Known, Copies
<1> QED
  BY <1>1, <1>2 DEF Apps!Fresh, Jobs, Apps!Outputs

LEMMA InitApps == Apps!Init => AppsInv
<1> SUFFICES ASSUME Apps!Init PROVE AppsInv
  OBVIOUS
<1> DEFINE ones == [s \in Sources |-> IF s \in Apps!Bundled THEN 1 ELSE None]
<1>1. 1 \in Apps!Contents
  BY OutputsAssumption DEF Apps!Contents
<1>2. ones \in Known /\ ones \in Copies
  BY <1>1 DEF Known, Copies
<1>3. Apps!Resolves(ones)
  BY OutputsAssumption DEF Apps!Resolves
<1>4. Apps!Built(ones, ones) \in Apps!Records
  BY <1>2, FreshType DEF Apps!Built, Apps!Records, Known, Copies
<1>5. oOut \in [Apps!Outputs -> Apps!Records \union {None}]
  BY <1>4 DEF Apps!Init
<1>6. OutputTypes
  <2>1. "idle" \in UNION {PhasesOf(d) : d \in Apps!Outputs}
    BY DEF PhasesOf, Apps!Outputs
  <2>2. oPc \in [Processes -> UNION {PhasesOf(d) : d \in Apps!Outputs}] /\ oJob \in [Processes -> Jobs]
    BY <2>1, FreshType DEF Apps!Init
  <2>3. oSrc \in [Sources -> Apps!Contents] /\ oEdits \in 0..MaxSourceEdits /\ oMeddlings \in 0..MaxMeddlings
        /\ oCommands \in 0..MaxOutputCommands
    BY <1>1, OutputsAssumption DEF Apps!Init
  <2>4. oKind \in Kinds /\ oBinary \in {1, 2} /\ oReverted \in BOOLEAN
    BY DEF Apps!Init
  <2> QED
    BY <1>5, <2>2, <2>3, <2>4 DEF OutputTypes
<1>7. MomentsInv
  BY <1>1, OutputsAssumption DEF Apps!Init, MomentsInv
<1>8. OutInv
  <2>1. oOut["host"] # None => oOut["host"] = Apps!Built(ones, ones)
    BY DEF Apps!Init, Apps!Outputs
  <2>2. oOut["distribution"] = None /\ oOut["local"] = None
    BY DEF Apps!Init, Apps!Outputs
  <2> QED
    BY <2>1, <2>2, <1>2, <1>3
    DEF OutInv, HostOut, Apps!DistributionIsTheBuild, Apps!LocalIsOfOneMoment, Apps!Built
<1>9. \A p \in Processes : JobInv(p)
  BY FreshType, Zenon
  DEF Apps!Init, JobInv, PhaseInv, HostJob, DistributionJob, LocalJob, PhasesOf, Iterating,
      Apps!Fresh, Jobs
<1> QED
  BY <1>6, <1>7, <1>8, <1>9 DEF AppsInv

\* A step of one process that leaves sources and outputs alone.
LEMMA OneWorks ==
  ASSUME AppsInv, NEW p \in Processes, UNCHANGED <<Apps!inputs, oOut>>,
         oCommands' \in 0..MaxOutputCommands,
         NEW there \in UNION {PhasesOf(d) : d \in Apps!Outputs}, NEW record \in Jobs,
         Apps!Goes(p, there, record), JobInv(p)'
  PROVE  AppsInv'
<1>1. OutputTypes'
  BY DEF AppsInv, OutputTypes, Apps!Goes, Apps!inputs
<1>2. MomentsInv' /\ OutInv'
  BY DEF AppsInv, MomentsInv, OutInv, Apps!inputs, HostOut, Apps!DistributionIsTheBuild,
      Apps!LocalIsOfOneMoment, Apps!Resolves
<1>3. ASSUME NEW q \in Processes, q # p
      PROVE  JobInv(q)'
  <2>1. oPc'[q] = oPc[q] /\ oJob'[q] = oJob[q]
    BY <1>3 DEF AppsInv, OutputTypes, Apps!Goes
  <2> QED
    BY <2>1, <1>3
    DEF AppsInv, JobInv, PhaseInv, HostJob, DistributionJob, LocalJob, Apps!inputs, Digested,
        IsMade, Rechecked, Apps!Resolves, Apps!Conventions
<1> QED
  BY <1>1, <1>2, <1>3 DEF AppsInv

LEMMA OneEnds ==
  ASSUME AppsInv, NEW p \in Processes, UNCHANGED <<Apps!inputs, oOut>>,
         oCommands' \in 0..MaxOutputCommands, Apps!Ends(p)
  PROVE  AppsInv'
<1>1. Apps!Goes(p, "idle", Apps!Fresh)
  BY DEF Apps!Ends, Apps!Goes
<1>2. "idle" \in UNION {PhasesOf(d) : d \in Apps!Outputs}
  BY DEF PhasesOf, Apps!Outputs
<1>3. oPc'[p] = "idle" /\ oJob'[p] = Apps!Fresh
  BY DEF Apps!Ends, AppsInv, OutputTypes
<1>4. JobInv(p)'
  BY <1>3
  DEF JobInv, PhaseInv, HostJob, DistributionJob, LocalJob, PhasesOf, Iterating, Apps!Fresh
<1> QED
  BY <1>1, <1>2, <1>4, FreshType, OneWorks

\* A step of one process ends the command, or goes on with a record.
LEMMA OneRequires ==
  ASSUME AppsInv, NEW p \in Processes, UNCHANGED <<Apps!inputs, oOut>>,
         oCommands' \in 0..MaxOutputCommands,
         NEW there \in UNION {PhasesOf(d) : d \in Apps!Outputs}, NEW record \in Jobs,
         Apps!Goes(p, there, record) \/ Apps!Ends(p), 
         oPc'[p] = there /\ oJob'[p] = record => JobInv(p)'
  PROVE  AppsInv'
<1>1. CASE Apps!Ends(p)
  BY <1>1, OneEnds
<1>2. CASE Apps!Goes(p, there, record)
  <2>1. oPc'[p] = there /\ oJob'[p] = record
    BY <1>2 DEF Apps!Goes, AppsInv, OutputTypes
  <2> QED
    BY <1>2, <2>1, OneWorks
<1> QED
  BY <1>1, <1>2

LEMMA JobFacts ==
  ASSUME AppsInv, NEW p \in Processes
  PROVE  /\ oJob[p] \in Jobs /\ JobInv(p) /\ oCommands \in 0..MaxOutputCommands
         /\ oPc[p] \in Iterating => Apps!Turn(p) \in oJob[p].todo /\ Apps!Turn(p) \in Sources
         /\ oPc[p] \in {"describe", "artifact"} =>
              oJob[p].making \in oJob[p].todo /\ oJob[p].making \in Sources
<1>1. oJob[p] \in Jobs /\ JobInv(p) /\ oCommands \in 0..MaxOutputCommands
  BY DEF AppsInv, OutputTypes
<1>2. oJob[p].todo \subseteq Sources
  BY <1>1 DEF Jobs
<1>3. oPc[p] \in Iterating => Apps!Turn(p) \in oJob[p].todo
  BY <1>1 DEF JobInv, PhaseInv, Apps!Turn
<1> QED
  BY <1>1, <1>2, <1>3 DEF JobInv, PhaseInv

LEMMA PhaseTypes ==
  UNION {PhasesOf(d) : d \in Apps!Outputs}
    = {"idle", "publish"} \union HostPhases \union DistributionPhases \union LocalPhases
<1>1. PhasesOf("host") = {"idle", "publish"} \union HostPhases
  BY DEF PhasesOf
<1>2. PhasesOf("distribution") = {"idle", "publish"} \union DistributionPhases
  BY DEF PhasesOf
<1>3. PhasesOf("local") = {"idle", "publish"} \union LocalPhases
  BY DEF PhasesOf
<1> QED
  BY <1>1, <1>2, <1>3 DEF Apps!Outputs

\* What is known of p when it makes a Host authoring output.
LEMMA HostSteps ==
  ASSUME AppsInv, NEW p \in Processes,
         Apps!Build(p) \/ Apps!Archive(p) \/ Apps!Describe(p) \/ Apps!Lower(p)
  PROVE  AppsInv'
<1> DEFINE j == oJob[p]
<1> USE PhaseTypes DEF HostPhases, DistributionPhases, LocalPhases
<1>j. j \in Jobs /\ JobInv(p) /\ oCommands \in 0..MaxOutputCommands
  BY JobFacts
<1>h. HostJob(p) /\ (oPc[p] \in HostPhases => j.output = "host")
  BY <1>j DEF JobInv, PhaseInv, PhasesOf, Jobs, Apps!Outputs
<1>1. CASE Apps!Build(p)
  <2> DEFINE record == [Apps!Fresh EXCEPT !.todo = Sources]
  <2>1. record \in Jobs
    BY FreshType DEF Jobs
  <2>2. oCommands' \in 0..MaxOutputCommands
    BY <1>1, <1>j, OutputsAssumption DEF Apps!Build, Apps!Begins
  <2>3. oPc'[p] = "archive" /\ oJob'[p] = record => JobInv(p)'
    BY OutputsAssumption
    DEF JobInv, PhaseInv, PhasesOf, Iterating, HostJob, DistributionJob, LocalJob, Apps!Fresh
  <2>4. Apps!Goes(p, "archive", record) \/ Apps!Ends(p)
    BY <1>1 DEF Apps!Build, Apps!Requires
  <2> QED
    BY <1>1, <2>1, <2>2, <2>3, <2>4, OneRequires DEF Apps!Build
<1>2. CASE Apps!Archive(p)
  <2> DEFINE s == Apps!Turn(p)
  <2>1. s \in j.todo /\ s \in Sources
    BY <1>2, JobFacts DEF Apps!Archive, Iterating
  <2>2. PICK copy \in {oSrc[s], Mixed} :
          Apps!Goes(p, "describe", [j EXCEPT !.files[s] = copy, !.making = s])
    BY <1>2 DEF Apps!Archive
  <2> DEFINE record == [j EXCEPT !.files[s] = copy, !.making = s]
  <2>3. copy \in Apps!Contents \union {Mixed}
    BY <2>1 DEF AppsInv, OutputTypes
  <2>4. record \in Jobs
    BY <1>j, <2>1, <2>3 DEF Jobs, Copies
  <2>5. /\ record.output = j.output /\ record.todo = j.todo /\ record.described = j.described
        /\ record.making = s /\ \A z \in Sources \ j.todo : record.files[z] = j.files[z]
    BY <1>j, <2>1 DEF Jobs, Copies
  <2>6. oPc'[p] = "describe" /\ oJob'[p] = record => JobInv(p)'
    BY <1>2, <1>j, <1>h, <2>1, <2>5
    DEF JobInv, PhaseInv, PhasesOf, Iterating, HostJob, DistributionJob, LocalJob, Apps!Archive
  <2> QED
    BY <1>2, <1>j, <2>2, <2>4, <2>6, OneRequires DEF Apps!Archive
<1>3. CASE Apps!Describe(p)
  <2> DEFINE s == j.making
  <2> DEFINE made == [j EXCEPT !.described[s] = j.files[s], !.making = None]
  <2> DEFINE rest == j.todo \ {s}
  <2> DEFINE record == [made EXCEPT !.todo = rest]
  <2>1. s \in j.todo /\ s \in Sources
    BY <1>3, JobFacts DEF Apps!Describe
  <2>2. /\ Apps!Requires(j.files[s] # Mixed, p, Apps!Advances(p, "archive", s, made, "lower", {}))
        /\ UNCHANGED <<Apps!inputs, oOut, oCommands>>
    BY <1>3 DEF Apps!Describe, Apps!Described
  <2>3. CASE j.files[s] = Mixed
    BY <2>2, <2>3, <1>j, OneEnds DEF Apps!Requires
  <2>4. CASE j.files[s] # Mixed
    <3>1. j.files[s] \in Apps!Contents \union {None}
      BY <1>j, <2>1, <2>4 DEF Jobs, Copies
    <3>2. record \in Jobs
      BY <1>j, <2>1, <3>1 DEF Jobs, Known
    <3>3. /\ record.output = "host" /\ record.todo = rest /\ record.files = j.files
          /\ \A z \in Sources \ rest : record.files[z] = record.described[z]
      BY <1>3, <1>j, <1>h, <2>1 DEF Jobs, Known, HostJob, Apps!Describe
    <3>4. \/ rest # {} /\ Apps!Goes(p, "archive", record)
          \/ rest = {} /\ Apps!Goes(p, "lower", record)
      <4>1. rest = {} => record = [made EXCEPT !.todo = {}]
        OBVIOUS
      <4> QED
        BY <2>2, <2>4, <4>1 DEF Apps!Requires, Apps!Advances
    <3>5. rest # {} /\ oPc'[p] = "archive" /\ oJob'[p] = record => JobInv(p)'
      BY <3>3 DEF JobInv, PhaseInv, PhasesOf, Iterating, HostJob, DistributionJob, LocalJob
    <3>6. rest = {} => record.files = record.described
      <4>1. record.files \in [Sources -> Apps!Contents \union {None, Mixed}]
        BY <3>2 DEF Jobs, Copies
      <4>2. record.described \in [Sources -> Apps!Contents \union {None}]
        BY <3>2 DEF Jobs, Known
      <4> HIDE DEF record
      <4> QED
        BY <3>3, <4>1, <4>2
    <3>7. rest = {} /\ oPc'[p] = "lower" /\ oJob'[p] = record => JobInv(p)'
      BY <3>3, <3>6
      DEF JobInv, PhaseInv, PhasesOf, Iterating, HostJob, DistributionJob, LocalJob
    <3>8. CASE rest # {}
      BY <3>2, <3>4, <3>5, <3>8, <2>2, <1>j, OneRequires
    <3>9. CASE rest = {}
      BY <3>2, <3>4, <3>7, <3>9, <2>2, <1>j, OneRequires
    <3> QED
      BY <3>8, <3>9
  <2> QED
    BY <2>3, <2>4
<1>4. CASE Apps!Lower(p)
  <2>1. oPc[p] = "lower" /\ ((Apps!Resolves(j.described) /\ Apps!Goes(p, "publish", j)) \/ Apps!Ends(p))
    BY <1>4 DEF Apps!Lower, Apps!Requires
  <2>2. UNCHANGED <<Apps!inputs, oOut, oCommands>>
    BY <1>4 DEF Apps!Lower
  <2>3. Apps!Resolves(j.described) /\ oPc'[p] = "publish" /\ oJob'[p] = j => JobInv(p)'
    BY <1>h, <2>1, <2>2
    DEF JobInv, PhaseInv, PhasesOf, Iterating, HostJob, DistributionJob, LocalJob,
        Apps!Resolves, Apps!inputs
  <2>4. CASE Apps!Ends(p)
    BY <2>2, <2>4, <1>j, OneEnds
  <2>5. CASE Apps!Resolves(j.described) /\ Apps!Goes(p, "publish", j)
    BY <2>2, <2>3, <2>5, <1>j, OneRequires
  <2> QED
    BY <2>1, <2>4, <2>5
<1> QED
  BY <1>1, <1>2, <1>3, <1>4

\* Two tables of the sources are equal when they agree on each.
LEMMA SameTables ==
  ASSUME NEW a \in Copies, NEW b \in Copies, \A s \in Sources : a[s] = b[s]
  PROVE  a = b
BY DEF Copies

\* A published build has the parts that a distribution is made from.
LEMMA HostParts ==
  ASSUME AppsInv, oOut["host"] # None
  PROVE  /\ oOut["host"].files \in Known /\ oOut["host"].described \in Known
         /\ Apps!Resolves(oOut["host"].described)
<1>1. oOut["host"] \in Apps!Records
  BY DEF AppsInv, OutputTypes, Apps!Outputs
<1> QED
  BY <1>1 DEF AppsInv, OutInv, HostOut, Apps!Records, Known

\* What is known of p when it makes a distribution.
LEMMA DistributionSteps ==
  ASSUME AppsInv, NEW p \in Processes,
         Apps!Prepare(p) \/ Apps!Validate(p) \/ Apps!CopyAuthority(p) \/ Apps!CopyBundle(p) \/ Apps!CopyArtifact(p)
  PROVE  AppsInv'
<1> DEFINE j == oJob[p]
<1> DEFINE h == oOut["host"]
<1> USE PhaseTypes DEF HostPhases, DistributionPhases, LocalPhases
<1>j. j \in Jobs /\ JobInv(p) /\ oCommands \in 0..MaxOutputCommands
  BY JobFacts
<1>d. DistributionJob(p) /\ (oPc[p] \in DistributionPhases => j.output = "distribution")
  BY <1>j DEF JobInv, PhaseInv, PhasesOf, Jobs, Apps!Outputs
<1>1. CASE Apps!Prepare(p)
  <2> DEFINE record == [Apps!Fresh EXCEPT !.output = "distribution", !.todo = Sources,
                                     !.seen = oOut["host"].described]
  <2>1. oCommands' \in 0..MaxOutputCommands
    BY <1>1, <1>j, OutputsAssumption DEF Apps!Prepare, Apps!Begins
  <2>2. UNCHANGED <<Apps!inputs, oOut>>
    BY <1>1 DEF Apps!Prepare
  <2>3. CASE Apps!Ends(p)
    BY <2>1, <2>2, <2>3, OneEnds
  <2>4. CASE h # None /\ Apps!Goes(p, "validate", record)
    <3>1. record \in Jobs
      BY <2>4, FreshType, HostParts DEF Jobs, Apps!Outputs
    <3>2. oPc'[p] = "validate" /\ oJob'[p] = record => JobInv(p)'
      BY <2>2, <2>4, OutputsAssumption
      DEF JobInv, PhaseInv, PhasesOf, Iterating, HostJob, DistributionJob, LocalJob, Apps!Fresh
    <3> QED
      BY <2>1, <2>2, <2>4, <3>1, <3>2, OneRequires
  <2> QED
    BY <1>1, <2>3, <2>4 DEF Apps!Prepare, Apps!Requires
<1>2. CASE Apps!Validate(p)
  <2> DEFINE s == Apps!Turn(p)
  <2> DEFINE rest == j.todo \ {s}
  <2> DEFINE on == [j EXCEPT !.todo = rest]
  <2> DEFINE over == [j EXCEPT !.todo = Sources]
  <2>1. s \in j.todo /\ s \in Sources /\ oPc[p] = "validate"
    BY <1>2, JobFacts DEF Apps!Validate, Iterating
  <2>2. UNCHANGED <<Apps!inputs, oOut, oCommands>>
    BY <1>2 DEF Apps!Validate
  <2>3. CASE Apps!Ends(p)
    BY <1>j, <2>2, <2>3, OneEnds
  <2>4. CASE h # None /\ h.files[s] = j.seen[s] /\ rest # {} /\ Apps!Goes(p, "validate", on)
    <3>1. on \in Jobs
      BY <1>j DEF Jobs
    <3>2. /\ on.output = "distribution" /\ on.todo = rest /\ on.seen = j.seen
          /\ on.disturbed = j.disturbed
      BY <1>j, <1>d, <2>1 DEF Jobs
    <3>3. oPc'[p] = "validate" /\ oJob'[p] = on => JobInv(p)'
      BY <1>d, <2>1, <2>2, <2>4, <3>2
      DEF JobInv, PhaseInv, PhasesOf, Iterating, HostJob, DistributionJob, LocalJob
    <3> QED
      BY <1>j, <2>2, <2>4, <3>1, <3>3, OneRequires
  <2>5. CASE h # None /\ h.files[s] = j.seen[s] /\ rest = {} /\ Apps!Goes(p, "authority", over)
    <3>1. over \in Jobs
      BY <1>j DEF Jobs
    <3>2. /\ over.output = "distribution" /\ over.seen = j.seen /\ over.disturbed = j.disturbed
      BY <1>j, <1>d, <2>1 DEF Jobs
    <3>3. ~j.disturbed => h.files = h.described
      <4>1. ~j.disturbed => \A z \in Sources : h.files[z] = h.described[z]
        BY <1>d, <2>1, <2>5 DEF DistributionJob
      <4>2. h.files \in Copies /\ h.described \in Copies
        BY <2>5, HostParts DEF Known, Copies
      <4> QED
        BY <4>1, <4>2, SameTables
    <3>4. oPc'[p] = "authority" /\ oJob'[p] = over => JobInv(p)'
      BY <1>d, <2>1, <2>2, <2>5, <3>2, <3>3
      DEF JobInv, PhaseInv, PhasesOf, Iterating, HostJob, DistributionJob, LocalJob
    <3> QED
      BY <1>j, <2>2, <2>5, <3>1, <3>4, OneRequires
  <2> QED
    BY <1>2, <2>3, <2>4, <2>5 DEF Apps!Validate, Apps!Requires, Apps!Advances, Apps!Validates
<1>3. CASE Apps!CopyAuthority(p)
  <2> DEFINE record == [j EXCEPT !.described = oOut["host"].described]
  <2>1. UNCHANGED <<Apps!inputs, oOut, oCommands>> /\ oPc[p] = "authority"
    BY <1>3 DEF Apps!CopyAuthority
  <2>2. CASE Apps!Ends(p)
    BY <1>j, <2>1, <2>2, OneEnds
  <2>3. CASE h # None /\ Apps!Goes(p, "copy", record)
    <3>1. record \in Jobs
      BY <1>j, <2>3, HostParts DEF Jobs
    <3>2. /\ record.output = "distribution" /\ record.seen = j.seen /\ record.todo = j.todo
          /\ record.disturbed = j.disturbed /\ record.described = h.described
      BY <1>j, <1>d, <2>1 DEF Jobs
    <3>3. j.todo = Sources
      BY <2>1, <1>j DEF JobInv, DistributionJob
    <3>4. oPc'[p] = "copy" /\ oJob'[p] = record => JobInv(p)'
      BY <1>d, <2>1, <2>3, <3>2, <3>3, OutputsAssumption
      DEF JobInv, PhaseInv, PhasesOf, Iterating, HostJob, DistributionJob, LocalJob
    <3> QED
      BY <1>j, <2>1, <2>3, <3>1, <3>4, OneRequires
  <2> QED
    BY <1>3, <2>2, <2>3 DEF Apps!CopyAuthority, Apps!Requires
<1>4. CASE Apps!CopyBundle(p)
  <2> DEFINE s == Apps!Turn(p)
  <2> DEFINE record == [j EXCEPT !.files[s] = oOut["host"].files[s], !.making = s]
  <2>1. UNCHANGED <<Apps!inputs, oOut, oCommands>> /\ oPc[p] = "copy"
    BY <1>4 DEF Apps!CopyBundle
  <2>2. s \in j.todo /\ s \in Sources
    BY <2>1, JobFacts DEF Iterating
  <2>3. CASE Apps!Ends(p)
    BY <1>j, <2>1, <2>3, OneEnds
  <2>4. CASE h # None /\ Apps!Goes(p, "artifact", record)
    <3>1. h.files[s] \in Apps!Contents \union {None}
      BY <2>2, <2>4, HostParts DEF Known
    <3>2. record \in Jobs
      BY <1>j, <2>2, <3>1 DEF Jobs, Copies
    <3>3. /\ record.output = "distribution" /\ record.seen = j.seen /\ record.todo = j.todo
          /\ record.disturbed = j.disturbed /\ record.described = j.described
          /\ record.making = s /\ record.files[s] = h.files[s] /\ record.artifacts = j.artifacts
          /\ \A z \in Sources \ j.todo : record.files[z] = j.files[z]
      BY <1>j, <1>d, <2>1, <2>2 DEF Jobs, Copies
    <3>4. oPc'[p] = "artifact" /\ oJob'[p] = record => JobInv(p)'
      BY <1>d, <2>1, <2>2, <2>4, <3>3
      DEF JobInv, PhaseInv, PhasesOf, Iterating, HostJob, DistributionJob, LocalJob
    <3> QED
      BY <1>j, <2>1, <2>4, <3>2, <3>4, OneRequires
  <2> QED
    BY <1>4, <2>3, <2>4 DEF Apps!CopyBundle, Apps!Requires
<1>5. CASE Apps!CopyArtifact(p)
  <2> DEFINE s == j.making
  <2> DEFINE made == [j EXCEPT !.artifacts[s] = oOut["host"].files[s], !.making = None]
  <2> DEFINE rest == j.todo \ {s}
  <2> DEFINE record == [made EXCEPT !.todo = rest]
  <2>1. UNCHANGED <<Apps!inputs, oOut, oCommands>> /\ oPc[p] = "artifact"
    BY <1>5 DEF Apps!CopyArtifact
  <2>2. s \in j.todo /\ s \in Sources
    BY <2>1, JobFacts
  <2>3. CASE Apps!Ends(p)
    BY <1>j, <2>1, <2>3, OneEnds
  <2>4. ASSUME h # None
        PROVE  /\ record \in Jobs /\ record.output = "distribution" /\ record.seen = j.seen
               /\ record.todo = rest /\ record.disturbed = j.disturbed
               /\ record.described = j.described /\ record.files = j.files
               /\ record.artifacts[s] = h.files[s]
               /\ \A z \in Sources \ {s} : record.artifacts[z] = j.artifacts[z]
    <3>1. h.files[s] \in Apps!Contents \union {None}
      BY <2>2, <2>4, HostParts DEF Known
    <3> QED
      BY <1>j, <1>d, <2>1, <2>2, <3>1 DEF Jobs, Known
  <2>5. h # None /\ ~j.disturbed =>
          \A z \in Sources \ rest : record.files[z] = h.files[z] /\ record.artifacts[z] = h.files[z]
    BY <1>d, <2>1, <2>2, <2>4 DEF DistributionJob
  <2>6. CASE h # None /\ rest # {} /\ Apps!Goes(p, "copy", record)
    <3>1. oPc'[p] = "copy" /\ oJob'[p] = record => JobInv(p)'
      BY <1>d, <2>1, <2>4, <2>5, <2>6
      DEF JobInv, PhaseInv, PhasesOf, Iterating, HostJob, DistributionJob, LocalJob
    <3> QED
      BY <1>j, <2>1, <2>4, <2>6, <3>1, OneRequires
  <2>7. CASE h # None /\ rest = {} /\ Apps!Goes(p, "publish", record)
    <3>1. ~j.disturbed => record.files = h.files /\ record.artifacts = h.files
      <4>1. h.files \in Copies
        BY <2>7, HostParts DEF Known, Copies
      <4>2. record.files \in Copies /\ record.artifacts \in Copies
        BY <2>4, <2>7 DEF Jobs, Known, Copies
      <4>3. rest = {}
        BY <2>7
      <4> HIDE DEF record, rest
      <4> QED
        BY <2>5, <2>7, <4>1, <4>2, <4>3, SameTables
    <3>2. oPc'[p] = "publish" /\ oJob'[p] = record => JobInv(p)'
      BY <1>d, <2>1, <2>4, <2>7, <3>1
      DEF JobInv, PhaseInv, PhasesOf, Iterating, HostJob, DistributionJob, LocalJob
    <3> QED
      BY <1>j, <2>1, <2>4, <2>7, <3>2, OneRequires
  <2>8. rest = {} => record = [made EXCEPT !.todo = {}]
    OBVIOUS
  <2> QED
    BY <1>5, <2>3, <2>6, <2>7, <2>8 DEF Apps!CopyArtifact, Apps!Requires, Apps!Advances
<1> QED
  BY <1>1, <1>2, <1>3, <1>4, <1>5

\* What is known of p when it makes a local App.
LEMMA LocalBegins ==
  ASSUME AppsInv, NEW p \in Processes, Apps!Plan(p) \/ Apps!StartAssembly(p) \/ Apps!CopyRoot(p)
  PROVE  AppsInv'
<1> DEFINE j == oJob[p]
<1> USE PhaseTypes DEF HostPhases, DistributionPhases, LocalPhases
<1>j. j \in Jobs /\ JobInv(p) /\ oCommands \in 0..MaxOutputCommands /\ oSrc \in Known
  BY JobFacts DEF AppsInv, OutputTypes, Known
<1>l. LocalJob(p) /\ (oPc[p] \in LocalPhases => j.output = "local")
  BY <1>j DEF JobInv, PhaseInv, PhasesOf, Jobs, Apps!Outputs
<1>1. CASE Apps!Plan(p)
  <2> DEFINE record == [Apps!Fresh EXCEPT !.output = "local", !.seen = oSrc]
  <2>1. oCommands' \in 0..MaxOutputCommands
    BY <1>1, <1>j, OutputsAssumption DEF Apps!Plan, Apps!Begins
  <2>2. record \in Jobs
    BY <1>j, FreshType DEF Jobs, Apps!Outputs
  <2>3. oPc'[p] = "planned" /\ oJob'[p] = record => JobInv(p)'
    BY DEF JobInv, PhaseInv, PhasesOf, Iterating, HostJob, DistributionJob, LocalJob, Apps!Fresh,
        Digested, IsMade, Rechecked
  <2> QED
    BY <1>1, <2>1, <2>2, <2>3, OneRequires DEF Apps!Plan
<1>2. CASE Apps!StartAssembly(p)
  <2>1. oPc[p] = "planned" /\ UNCHANGED <<Apps!inputs, oOut, oCommands>>
    BY <1>2 DEF Apps!StartAssembly
  <2>2. oPc'[p] = "root" /\ oJob'[p] = j => JobInv(p)'
    BY <1>l, <2>1
    DEF JobInv, PhaseInv, PhasesOf, Iterating, HostJob, DistributionJob, LocalJob,
        Digested, IsMade, Rechecked
  <2>3. Apps!Goes(p, "root", j) \/ Apps!Ends(p)
    BY <1>2 DEF Apps!StartAssembly, Apps!Requires
  <2> QED
    BY <1>j, <2>1, <2>2, <2>3, OneRequires
<1>3. CASE Apps!CopyRoot(p)
  <2>1. oPc[p] = "root" /\ UNCHANGED <<Apps!inputs, oOut, oCommands>>
    BY <1>3 DEF Apps!CopyRoot
  <2>2. PICK copy \in {"whole", "mixed", "torn"} :
          LET copied == [j EXCEPT !.root = copy] IN
          IF Apps!Conventions = {}
          THEN Apps!Goes(p, "digest", [copied EXCEPT !.todo = Sources])
          ELSE Apps!Goes(p, "conventions", [copied EXCEPT !.todo = Apps!Conventions])
    BY <1>3 DEF Apps!CopyRoot
  <2> DEFINE copied == [j EXCEPT !.root = copy]
  <2> DEFINE first == [copied EXCEPT !.todo = Sources]
  <2> DEFINE second == [copied EXCEPT !.todo = Apps!Conventions]
  <2>3. first \in Jobs /\ second \in Jobs
    BY <1>j, Zenon DEF Jobs, Apps!Conventions
  <2>4. /\ first.output = "local" /\ first.todo = Sources /\ first.making = None
        /\ second.output = "local" /\ second.todo = Apps!Conventions /\ second.making = None
    BY <1>j, <1>l, <2>1 DEF Jobs, LocalJob
  <2>5. Apps!Conventions' = Apps!Conventions
    BY <2>1 DEF Apps!Conventions, Apps!inputs
  <2>6. Apps!Conventions = {} /\ oPc'[p] = "digest" /\ oJob'[p] = first => JobInv(p)'
    BY <2>4, <2>5, OutputsAssumption
    DEF JobInv, PhaseInv, PhasesOf, Iterating, HostJob, DistributionJob, LocalJob,
        Digested, IsMade, Rechecked
  <2>7. Apps!Conventions # {} /\ oPc'[p] = "conventions" /\ oJob'[p] = second => JobInv(p)'
    BY <2>4, <2>5
    DEF JobInv, PhaseInv, PhasesOf, Iterating, HostJob, DistributionJob, LocalJob,
        Digested, IsMade, Rechecked
  <2>8. CASE Apps!Conventions = {}
    BY <1>j, <2>1, <2>2, <2>3, <2>6, <2>8, OneRequires
  <2>9. CASE Apps!Conventions # {}
    BY <1>j, <2>1, <2>2, <2>3, <2>7, <2>9, OneRequires
  <2> QED
    BY <2>8, <2>9
<1> QED
  BY <1>1, <1>2, <1>3

\* The digests of all sources are taken before one is made, those of the conventions first.
LEMMA DigestKeeps ==
  ASSUME AppsInv, NEW p \in Processes, Apps!Digest(p)
  PROVE  AppsInv'
<1> DEFINE j == oJob[p]
<1> USE PhaseTypes DEF HostPhases, DistributionPhases, LocalPhases
<1>j. j \in Jobs /\ JobInv(p) /\ oCommands \in 0..MaxOutputCommands
  BY JobFacts
<1>l. LocalJob(p) /\ (oPc[p] \in LocalPhases => j.output = "local")
  BY <1>j DEF JobInv, PhaseInv, PhasesOf, Jobs, Apps!Outputs
<1> DEFINE s == Apps!Turn(p)
<1> DEFINE read == [j EXCEPT !.digests[s] = oSrc[s]]
<1> DEFINE rest == j.todo \ {s}
<1> DEFINE record == [read EXCEPT !.todo = rest]
<1>0. /\ oPc[p] \in {"conventions", "digest"} /\ UNCHANGED <<Apps!inputs, oOut, oCommands>>
      /\ UNCHANGED <<oSrc, oReverted, oMoments, oKind>>
  BY DEF Apps!Digest, Apps!inputs
<1>1. s \in j.todo /\ s \in Sources /\ oSrc \in [Sources -> Apps!Contents] /\ oSrc[s] \in Apps!Contents
  BY <1>0, JobFacts DEF Iterating, AppsInv, OutputTypes
<1>2. record \in Jobs
  BY <1>j, <1>1 DEF Jobs, Known
<1>3. /\ record.output = "local" /\ record.todo = rest /\ record.making = None
      /\ record.digests[s] = oSrc[s] /\ record.files = j.files
      /\ \A z \in Sources \ {s} : record.digests[z] = j.digests[z]
  BY <1>j, <1>l, <1>0, <1>1 DEF Jobs, Known, LocalJob
<1>4. Apps!Conventions' = Apps!Conventions /\ oSrc[s] <= oSrc[s] /\ ~(oSrc[s] < oSrc[s])
  BY <1>0, <1>1 DEF Apps!Conventions, Apps!Contents
<1>5. ASSUME ~oReverted, NEW z \in Sources, z = s \/ Digested(p, z)
      PROVE  record.digests[z] \in Apps!Contents /\ record.digests[z] <= oSrc[z]
  BY <1>l, <1>0, <1>1, <1>3, <1>4, <1>5 DEF LocalJob
<1>6. ASSUME ~oReverted, NEW z \in Sources, oPc[p] = "digest", z \in Apps!Conventions
      PROVE  record.files[z] = record.digests[z] \/ record.digests[z] < oSrc[z]
  <2>1. IsMade(p, z) /\ z # s
    BY <1>6, <1>l, <1>0, <1>1 DEF IsMade, LocalJob
  <2> QED
    BY <2>1, <1>6, <1>l, <1>0, <1>3 DEF LocalJob
<1>7. CASE oPc[p] = "conventions"
  <2> DEFINE next == [read EXCEPT !.todo = Apps!Conventions]
  <2>1. \/ rest # {} /\ Apps!Goes(p, "conventions", record)
        \/ rest = {} /\ Apps!Goes(p, "compile", next)
    BY <1>7 DEF Apps!Digest, Apps!Advances
  <2>2. next \in Jobs /\ next.todo = Apps!Conventions
    BY <1>2, <1>j, Zenon DEF Jobs, Apps!Conventions
  <2>3. /\ next.output = record.output /\ next.making = None /\ next.digests = record.digests
    BY <1>2, <2>2, <1>j, <1>3 DEF Jobs
  <2>4. rest # {} /\ oPc'[p] = "conventions" /\ oJob'[p] = record => JobInv(p)'
    BY <1>0, <1>l, <1>7, <1>3, <1>4, <1>5
    DEF JobInv, PhaseInv, PhasesOf, Iterating, HostJob, DistributionJob, LocalJob,
        Digested, IsMade, Rechecked
  <2>5. rest = {} /\ oPc'[p] = "compile" /\ oJob'[p] = next => JobInv(p)'
    <3>1. Apps!Conventions # {}
      BY <1>l, <1>1, <1>7, <1>0 DEF LocalJob
    <3> QED
      BY <3>1, <1>0, <1>l, <1>7, <1>3, <1>4, <1>5, <2>2, <2>3
      DEF JobInv, PhaseInv, PhasesOf, Iterating, HostJob, DistributionJob, LocalJob,
          Digested, IsMade, Rechecked
  <2>6. CASE rest # {}
    BY <1>j, <1>0, <1>2, <2>1, <2>4, <2>6, OneRequires
  <2>7. CASE rest = {}
    BY <1>j, <1>0, <2>1, <2>2, <2>5, <2>7, OneRequires
  <2> QED
    BY <2>6, <2>7
<1>8. CASE oPc[p] = "digest"
  <2> DEFINE others == Sources \ Apps!Conventions
  <2> DEFINE next == [read EXCEPT !.todo = others]
  <2>1. \/ rest # {} /\ Apps!Goes(p, "digest", record)
        \/ rest = {} /\ Apps!Goes(p, "make", next)
    BY <1>8 DEF Apps!Digest, Apps!Advances
  <2>2. next \in Jobs /\ next.todo = others
    BY <1>2, <1>j, Zenon DEF Jobs, Apps!Conventions
  <2>3. /\ next.output = record.output /\ next.making = None /\ next.digests = record.digests
        /\ next.files = record.files
    BY <1>2, <2>2, <1>j, <1>3 DEF Jobs
  <2>4. rest # {} /\ oPc'[p] = "digest" /\ oJob'[p] = record => JobInv(p)'
    BY <1>0, <1>l, <1>8, <1>3, <1>4, <1>5, <1>6
    DEF JobInv, PhaseInv, PhasesOf, Iterating, HostJob, DistributionJob, LocalJob,
        Digested, IsMade, Rechecked
  <2>5. rest = {} /\ oPc'[p] = "make" /\ oJob'[p] = next => JobInv(p)'
    <3>1. others # {}
      BY <1>l, <1>1, <1>8, <1>0 DEF LocalJob
    <3>2. rest = {} => \A z \in Sources : z = s \/ Digested(p, z)
      BY <1>8 DEF Digested
    <3> QED
      BY <3>1, <3>2, <1>0, <1>l, <1>8, <1>3, <1>4, <1>5, <1>6, <2>2, <2>3
      DEF JobInv, PhaseInv, PhasesOf, Iterating, HostJob, DistributionJob, LocalJob,
          Digested, IsMade, Rechecked
  <2>6. CASE rest # {}
    BY <1>j, <1>0, <1>2, <2>1, <2>4, <2>6, OneRequires
  <2>7. CASE rest = {}
    BY <1>j, <1>0, <2>1, <2>2, <2>5, <2>7, OneRequires
  <2> QED
    BY <2>6, <2>7
<1> QED
  BY <1>0, <1>7, <1>8

LEMMA StartMakingKeeps ==
  ASSUME AppsInv, NEW p \in Processes, Apps!StartMaking(p)
  PROVE  AppsInv'
<1> DEFINE j == oJob[p]
<1> DEFINE s == Apps!Turn(p)
<1> DEFINE record == [j EXCEPT !.making = s, !.dirty = FALSE, !.before = oSrc[s]]
<1> USE PhaseTypes DEF HostPhases, DistributionPhases, LocalPhases
<1>j. j \in Jobs /\ JobInv(p) /\ oCommands \in 0..MaxOutputCommands
  BY JobFacts
<1>l. LocalJob(p) /\ (oPc[p] \in LocalPhases => j.output = "local")
  BY <1>j DEF JobInv, PhaseInv, PhasesOf, Jobs, Apps!Outputs
<1>0. /\ oPc[p] \in {"compile", "make"} /\ UNCHANGED <<Apps!inputs, oOut, oCommands>>
      /\ UNCHANGED <<oSrc, oReverted, oMoments, oKind>>
  BY DEF Apps!StartMaking, Apps!inputs
<1>1. s \in j.todo /\ s \in Sources /\ oSrc[s] \in Apps!Contents
  BY <1>0, JobFacts DEF Iterating, AppsInv, OutputTypes
<1>2. record \in Jobs
  BY <1>j, <1>1 DEF Jobs
<1>3. /\ record.output = "local" /\ record.todo = j.todo /\ record.making = s /\ ~record.dirty
      /\ record.files = j.files /\ record.digests = j.digests
  BY <1>j, <1>l, <1>0 DEF Jobs
<1>4. Apps!Conventions' = Apps!Conventions
  BY <1>0 DEF Apps!Conventions
<1>5. oPc'[p] = oPc[p] /\ oJob'[p] = record => JobInv(p)'
  BY <1>j, <1>0, <1>l, <1>1, <1>3, <1>4
  DEF JobInv, PhaseInv, PhasesOf, Iterating, HostJob, DistributionJob, LocalJob,
      Digested, IsMade, Rechecked
<1>6. Apps!Goes(p, oPc[p], record)
  BY DEF Apps!StartMaking
<1> QED
  BY <1>j, <1>0, <1>2, <1>5, <1>6, OneRequires

\* A made source may differ from its digest only if it was edited since: then the two
\* will be told apart.
LEMMA MadeKeeps ==
  ASSUME AppsInv, NEW p \in Processes, oPc[p] \in {"compile", "make"},
         UNCHANGED <<Apps!inputs, oOut, oCommands>>,
         NEW s \in oJob[p].todo, NEW content \in Apps!Contents \union {Mixed},
         NEW next, NEW nextTodo \in SUBSET Sources,
         \/ /\ oPc[p] = "compile" /\ nextTodo = Sources \ Apps!Conventions
            /\ next = IF nextTodo = {} THEN "resolve" ELSE "digest"
         \/ oPc[p] = "make" /\ next = "resolve" /\ nextTodo = {},
         Apps!Ends(p) \/ Apps!Advances(p, oPc[p], s,
                           [oJob[p] EXCEPT !.files[s] = content, !.making = None], next, nextTodo),
         ~oReverted => content = oJob[p].digests[s] \/ oJob[p].digests[s] < oSrc[s]
  PROVE  AppsInv'
<1> DEFINE j == oJob[p]
<1> DEFINE made == [j EXCEPT !.files[s] = content, !.making = None]
<1> DEFINE rest == j.todo \ {s}
<1> DEFINE record == [made EXCEPT !.todo = rest]
<1> DEFINE last == [made EXCEPT !.todo = nextTodo]
<1> USE PhaseTypes DEF HostPhases, DistributionPhases, LocalPhases
<1>j. j \in Jobs /\ JobInv(p) /\ oCommands \in 0..MaxOutputCommands
  BY JobFacts
<1>l. LocalJob(p) /\ j.output = "local"
  BY <1>j DEF JobInv, PhaseInv, PhasesOf, Jobs, Apps!Outputs
<1>0. UNCHANGED <<oSrc, oReverted, oMoments, oKind>> /\ Apps!Conventions' = Apps!Conventions
  BY DEF Apps!inputs, Apps!Conventions
<1>1. s \in Sources
  BY <1>j DEF Jobs
<1>2. record \in Jobs /\ last \in Jobs
  BY <1>j, <1>1 DEF Jobs, Copies
<1>3. /\ record.output = "local" /\ record.todo = rest /\ record.making = None
      /\ record.digests = j.digests /\ record.files[s] = content
      /\ \A z \in Sources \ {s} : record.files[z] = j.files[z]
  BY <1>j, <1>l, <1>1 DEF Jobs, Copies
<1>4. /\ last.output = "local" /\ last.todo = nextTodo /\ last.making = None
      /\ last.digests = j.digests /\ last.files = record.files
  BY <1>j, <1>l, <1>1 DEF Jobs, Copies
<1>5. ASSUME ~oReverted, NEW z \in Sources, z = s \/ IsMade(p, z)
      PROVE  record.files[z] = j.digests[z] \/ j.digests[z] < oSrc[z]
  BY <1>5, <1>l, <1>3 DEF LocalJob
<1>6. CASE rest # {}
  <2>1. Apps!Ends(p) \/ Apps!Goes(p, oPc[p], record)
    BY <1>6 DEF Apps!Advances
  <2>2. oPc'[p] = oPc[p] /\ oJob'[p] = record => JobInv(p)'
    BY <1>0, <1>l, <1>3, <1>5, <1>6
    DEF JobInv, PhaseInv, PhasesOf, Iterating, HostJob, DistributionJob, LocalJob,
        Digested, IsMade, Rechecked
  <2> QED
    BY <1>j, <1>0, <1>2, <2>1, <2>2, OneRequires, SMTT(30)
<1>7. CASE rest = {}
  <2>1. Apps!Ends(p) \/ Apps!Goes(p, next, last)
    BY <1>7 DEF Apps!Advances
  <2>2. \A z \in Sources : Digested(p, z) =>
          \/ oPc[p] = "make"
          \/ oPc[p] = "compile" /\ z \in Apps!Conventions
    BY DEF Digested
  <2>3. oPc[p] = "make" => \A z \in Sources : Digested(p, z) /\ (z = s \/ IsMade(p, z))
    BY <1>7 DEF Digested, IsMade
  <2>4. oPc[p] = "compile" => \A z \in Apps!Conventions : z \in Sources /\ Digested(p, z) /\ (z = s \/ IsMade(p, z))
    BY <1>7 DEF Digested, IsMade, Apps!Conventions
  <2>5. CASE oPc[p] = "make"
    <3>1. oPc'[p] = next /\ oJob'[p] = last => JobInv(p)'
      BY <1>0, <1>l, <1>4, <1>5, <2>3, <2>5
      DEF JobInv, PhaseInv, PhasesOf, Iterating, HostJob, DistributionJob, LocalJob,
          Digested, IsMade, Rechecked
    <3> QED
      BY <1>j, <1>0, <1>2, <2>1, <2>5, <3>1, OneRequires
  <2>6. CASE oPc[p] = "compile" /\ nextTodo = {}
    <3>1. \A z \in Sources : z \in Apps!Conventions
      BY <2>6
    <3>2. oPc'[p] = next /\ oJob'[p] = last => JobInv(p)'
      BY <1>0, <1>l, <1>4, <1>5, <2>4, <2>6, <3>1
      DEF JobInv, PhaseInv, PhasesOf, Iterating, HostJob, DistributionJob, LocalJob,
          Digested, IsMade, Rechecked
    <3> QED
      BY <1>j, <1>0, <1>2, <2>1, <2>6, <3>2, OneRequires
  <2>7. CASE oPc[p] = "compile" /\ nextTodo # {}
    <3>1. oPc'[p] = next /\ oJob'[p] = last => JobInv(p)'
      BY <1>0, <1>l, <1>4, <1>5, <2>4, <2>7
      DEF JobInv, PhaseInv, PhasesOf, Iterating, HostJob, DistributionJob, LocalJob,
          Digested, IsMade, Rechecked
    <3> QED
      BY <1>j, <1>0, <1>2, <2>1, <2>7, <3>1, OneRequires
  <2> QED
    BY <2>5, <2>6, <2>7
<1> QED
  BY <1>6, <1>7

LEMMA MakingKeeps ==
  ASSUME AppsInv, NEW p \in Processes, Apps!Compile(p) \/ Apps!Make(p) \/ Apps!InstallHost(p)
  PROVE  AppsInv'
<1> DEFINE j == oJob[p]
<1> USE DEF LocalPhases
<1>0. oPc[p] \in {"compile", "make"} /\ UNCHANGED <<Apps!inputs, oOut, oCommands>>
  BY DEF Apps!Compile, Apps!Make, Apps!InstallHost
<1>j. j \in Jobs /\ LocalJob(p) /\ j.output = "local" /\ Apps!Turn(p) \in j.todo
  BY <1>0, JobFacts
  DEF JobInv, PhaseInv, PhasesOf, Jobs, Apps!Outputs, HostPhases, DistributionPhases, Iterating
<1>1. oSrc \in [Sources -> Apps!Contents] /\ Apps!Contents \subseteq Nat
  BY DEF AppsInv, OutputTypes, Apps!Contents
<1>2. ASSUME j.making # None, NEW content \in Apps!Reads(p)
      PROVE  /\ j.making \in j.todo /\ j.making \in Sources /\ content \in Apps!Contents \union {Mixed}
             /\ ~oReverted => content = j.digests[j.making] \/ j.digests[j.making] < oSrc[j.making]
  <2>1. j.making \in j.todo /\ j.making \in Sources
    BY <1>2, <1>j DEF LocalJob, Jobs
  <2>2. content = oSrc[j.making] \/ (content = Mixed /\ j.dirty)
    BY <1>2 DEF Apps!Reads
  <2>3. ~oReverted => j.digests[j.making] \in Apps!Contents /\ j.digests[j.making] <= oSrc[j.making]
    <3>1. Digested(p, j.making)
      BY <1>0, <1>j, <2>1 DEF LocalJob, Digested
    <3> QED
      BY <1>j, <2>1, <3>1 DEF LocalJob
  <2>4. ~oReverted /\ j.dirty => j.digests[j.making] < oSrc[j.making]
    BY <1>0, <1>2, <1>j DEF LocalJob
  <2>5. oSrc[j.making] \in Apps!Contents
    BY <1>1, <2>1
  <2>6. content \in Apps!Contents \union {Mixed}
    BY <2>2, <2>5
  <2>7. ASSUME ~oReverted
        PROVE  content = j.digests[j.making] \/ j.digests[j.making] < oSrc[j.making]
    <3>1. CASE j.dirty
      BY <2>4, <2>7, <3>1
    <3>2. CASE content = oSrc[j.making]
      <4> DEFINE d == j.digests[j.making]
      <4> DEFINE c == oSrc[j.making]
      <4>1. d \in Nat /\ c \in Nat /\ d <= c
        BY <1>1, <2>3, <2>5, <2>7
      <4> HIDE DEF d, c
      <4>2. c = d \/ d < c
        BY <4>1
      <4> QED
        BY <3>2, <4>2 DEF c, d
    <3> QED
      BY <2>2, <3>1, <3>2
  <2> QED
    BY <2>1, <2>6, <2>7
<1>3. CASE Apps!Compile(p)
  <2> DEFINE others == Sources \ Apps!Conventions
  <2>1. PICK content \in Apps!Reads(p) :
          Apps!Requires(oSrc[j.making] = j.before, p,
            Apps!Advances(p, "compile", j.making, [j EXCEPT !.files[j.making] = content, !.making = None],
                     IF others = {} THEN "resolve" ELSE "digest", others))
    BY <1>3, Zenon DEF Apps!Compile, Apps!Made
  <2> DEFINE next == IF others = {} THEN "resolve" ELSE "digest"
  <2>2. oPc[p] = "compile" /\ j.making # None
    BY <1>3 DEF Apps!Compile
  <2>3. Apps!Ends(p) \/ Apps!Advances(p, oPc[p], j.making,
                          [j EXCEPT !.files[j.making] = content, !.making = None], next, others)
    BY <2>1, <2>2 DEF Apps!Requires
  <2>4. others \in SUBSET Sources /\ next = IF others = {} THEN "resolve" ELSE "digest"
    OBVIOUS
  <2> HIDE DEF others, next
  <2> QED
    BY <1>0, <1>2, <2>2, <2>3, <2>4, MadeKeeps, Zenon DEF others
<1>4. CASE Apps!Make(p)
  <2>1. PICK content \in Apps!Reads(p) :
          Apps!Requires(IF content = Mixed THEN oKind[j.making] # "bundle"
                   ELSE Releases[content] = Releases[j.seen[j.making]], p,
            Apps!Advances(p, "make", j.making, [j EXCEPT !.files[j.making] = content, !.making = None],
                     "resolve", {}))
    BY <1>4, Zenon DEF Apps!Make, Apps!Made
  <2>2. oPc[p] = "make" /\ j.making # None
    BY <1>4 DEF Apps!Make
  <2>3. Apps!Ends(p) \/ Apps!Advances(p, oPc[p], j.making,
                          [j EXCEPT !.files[j.making] = content, !.making = None], "resolve", {})
    BY <2>1, <2>2 DEF Apps!Requires
  <2>4. {} \in SUBSET Sources
    OBVIOUS
  <2> QED
    BY <1>0, <1>2, <2>2, <2>3, <2>4, MadeKeeps, ZenonT(40)
<1>5. CASE Apps!InstallHost(p)
  <2> DEFINE s == Apps!Turn(p)
  <2>1. oPc[p] = "make" /\ j.making = None /\ s \in Apps!Natives
    BY <1>5 DEF Apps!InstallHost
  <2>2. s \in j.todo /\ s \in Sources
    BY <1>j DEF Jobs
  <2>3. \/ Apps!Ends(p)
        \/ Apps!Admitted /\ Apps!Advances(p, "make", s, [j EXCEPT !.files[s] = oBinary], "resolve", {})
    BY <1>5 DEF Apps!InstallHost, Apps!Requires
  <2>4. CASE Apps!Ends(p)
    BY <1>0, <2>4, JobFacts, OneEnds
  <2>5. CASE Apps!Admitted /\ Apps!Advances(p, "make", s, [j EXCEPT !.files[s] = oBinary], "resolve", {})
    <3>1. oBinary = 1 /\ oSrc[s] = 1 /\ 1 \in Apps!Contents
      BY <2>1, <2>5, OutputsAssumption DEF Apps!Admitted, Apps!Contents
    <3>2. [j EXCEPT !.files[s] = oBinary] = [j EXCEPT !.files[s] = oBinary, !.making = None]
      BY <1>j, <2>1 DEF Jobs
    <3>3. ~oReverted => j.digests[s] \in Apps!Contents /\ j.digests[s] <= oSrc[s]
      BY <1>j, <2>1, <2>2 DEF LocalJob, Digested
    <3>4. ~oReverted => oBinary = j.digests[s]
      BY <3>1, <3>3 DEF Apps!Contents
    <3>5. {} \in SUBSET Sources /\ oBinary \in Apps!Contents \union {Mixed}
      BY <3>1
    <3>6. Apps!Advances(p, oPc[p], s, [j EXCEPT !.files[s] = oBinary, !.making = None], "resolve", {})
      BY <2>1, <2>5, <3>2
    <3> QED
      BY <1>0, <2>1, <2>2, <3>4, <3>5, <3>6, MadeKeeps, Zenon
  <2> QED
    BY <2>3, <2>4, <2>5
<1> QED
  BY <1>3, <1>4, <1>5

\* What resolves is compared with the sources once more.
LEMMA ResolveKeeps ==
  ASSUME AppsInv, NEW p \in Processes, Apps!Resolve(p)
  PROVE  AppsInv'
<1> DEFINE j == oJob[p]
<1> DEFINE record == [j EXCEPT !.todo = Sources]
<1> USE PhaseTypes DEF HostPhases, DistributionPhases, LocalPhases
<1>j. j \in Jobs /\ JobInv(p) /\ oCommands \in 0..MaxOutputCommands
  BY JobFacts
<1>0. oPc[p] = "resolve" /\ UNCHANGED <<Apps!inputs, oOut, oCommands>>
      /\ UNCHANGED <<oSrc, oReverted, oMoments, oKind>>
  BY DEF Apps!Resolve, Apps!inputs
<1>l. LocalJob(p) /\ j.output = "local"
  BY <1>0, <1>j DEF JobInv, PhaseInv, PhasesOf, Jobs, Apps!Outputs
<1>1. CASE Apps!Ends(p)
  BY <1>j, <1>0, <1>1, OneEnds
<1>2. CASE j.root # "torn" /\ Apps!Resolves(j.files) /\ Apps!Goes(p, "recheck", record)
  <2>1. record \in Jobs
    BY <1>j DEF Jobs
  <2>2. /\ record.output = "local" /\ record.todo = Sources /\ record.making = None
        /\ record.root = j.root /\ record.files = j.files /\ record.digests = j.digests
    BY <1>j, <1>l, <1>0 DEF Jobs, LocalJob
  <2>3. oSrc \in oMoments
    BY DEF AppsInv, MomentsInv
  <2>4. ~oReverted => \A s \in Sources : j.digests[s] \in Apps!Contents /\ j.digests[s] <= oSrc[s]
    BY <1>0, <1>l DEF LocalJob, Digested
  <2>5. ~oReverted => \A s \in Sources : j.files[s] = j.digests[s] \/ j.digests[s] < oSrc[s]
    BY <1>0, <1>l DEF LocalJob, IsMade
  <2>6. oPc'[p] = "recheck" /\ oJob'[p] = record => LocalJob(p)'
    BY <1>0, <1>2, <2>2, <2>3, <2>4, <2>5
    DEF LocalJob, Digested, IsMade, Rechecked, Apps!Resolves
  <2>7. oPc'[p] = "recheck" /\ oJob'[p] = record => JobInv(p)'
    BY <2>2, <2>6, OutputsAssumption
    DEF JobInv, PhaseInv, PhasesOf, Iterating, HostJob, DistributionJob
  <2> QED
    BY <1>j, <1>0, <1>2, <2>1, <2>7, OneRequires
<1> QED
  BY <1>1, <1>2 DEF Apps!Resolve, Apps!Requires, Apps!RootResolves

LEMMA RecheckKeeps ==
  ASSUME AppsInv, NEW p \in Processes, Apps!Recheck(p)
  PROVE  AppsInv'
<1> DEFINE j == oJob[p]
<1> DEFINE s == Apps!Turn(p)
<1> DEFINE rest == j.todo \ {s}
<1> DEFINE record == [j EXCEPT !.todo = rest]
<1> DEFINE there == IF rest = {} THEN "publish" ELSE "recheck"
<1> USE PhaseTypes DEF HostPhases, DistributionPhases, LocalPhases
<1>j. j \in Jobs /\ JobInv(p) /\ oCommands \in 0..MaxOutputCommands
  BY JobFacts
<1>0. oPc[p] = "recheck" /\ UNCHANGED <<Apps!inputs, oOut, oCommands>>
      /\ UNCHANGED <<oSrc, oReverted, oMoments, oKind>>
  BY DEF Apps!Recheck, Apps!inputs
<1>l. LocalJob(p) /\ j.output = "local"
  BY <1>0, <1>j DEF JobInv, PhaseInv, PhasesOf, Jobs, Apps!Outputs
<1>1. s \in j.todo /\ s \in Sources
  BY <1>0, JobFacts DEF Iterating
<1>2. CASE Apps!Ends(p)
  BY <1>j, <1>0, <1>2, OneEnds
<1>3. CASE j.digests[s] = oSrc[s] /\ Apps!Goes(p, there, record)
  <2>1. record \in Jobs
    BY <1>j DEF Jobs
  <2>2. /\ record.output = "local" /\ record.todo = rest /\ record.making = None
        /\ record.root = j.root /\ record.files = j.files /\ record.digests = j.digests
    BY <1>j, <1>l, <1>0 DEF Jobs, LocalJob
  <2>3. j.root # "torn" /\ Apps!Resolves(j.files)
    BY <1>0, <1>l DEF LocalJob, Apps!Resolves
  <2>4. oSrc \in [Sources -> Apps!Contents] /\ oMoments \subseteq [Sources -> Apps!Contents]
    BY DEF AppsInv, OutputTypes, MomentsInv
  <2>5. ASSUME ~oReverted, NEW z \in Sources, z = s \/ Rechecked(p, z)
        PROVE  j.files[z] = j.digests[z]
    <3>1. CASE z = s
      <4>1. IsMade(p, s)
        BY <1>0 DEF IsMade
      <4>2. j.files[s] = j.digests[s] \/ j.digests[s] < oSrc[s]
        BY <2>5, <1>l, <1>1, <4>1 DEF LocalJob
      <4> QED
        BY <1>3, <1>1, <2>4, <3>1, <4>2 DEF Apps!Contents
    <3> QED
      BY <2>5, <3>1, <1>l DEF LocalJob
  <2>6. ASSUME ~oReverted
        PROVE  \E m \in oMoments : \A z \in Sources :
                 j.digests[z] <= m[z] /\ (z = s \/ Rechecked(p, z) => m[z] = j.digests[z])
    <3>1. PICK m \in oMoments : \A z \in Sources :
            j.digests[z] <= m[z] /\ (Rechecked(p, z) => m[z] = j.digests[z])
      BY <2>6, <1>0, <1>l DEF LocalJob
    <3>2. m[s] <= oSrc[s]
      BY <2>6, <1>1 DEF AppsInv, MomentsInv
    <3>3. m[s] = j.digests[s]
      BY <1>1, <1>3, <2>4, <3>1, <3>2 DEF Apps!Contents
    <3> QED
      BY <3>1, <3>3
  <2>7. ASSUME oPc'[p] = there, oJob'[p] = record, NEW z \in Sources
        PROVE  /\ Rechecked(p, z)' => z = s \/ Rechecked(p, z)
               /\ Digested(p, z) /\ IsMade(p, z)
    BY <2>2, <2>7, <1>0 DEF Rechecked, Digested, IsMade
  <2>8. oPc'[p] = there /\ oJob'[p] = record => LocalJob(p)'
    <3> SUFFICES ASSUME oPc'[p] = there, oJob'[p] = record
                 PROVE  LocalJob(p)'
      OBVIOUS
    <3>1. ~oReverted => \A z \in Sources : j.digests[z] \in Apps!Contents /\ j.digests[z] <= oSrc[z]
      BY <1>l, <2>7 DEF LocalJob
    <3>2. ~oReverted => \A z \in Sources : j.files[z] = j.digests[z] \/ j.digests[z] < oSrc[z]
      BY <1>l, <2>7 DEF LocalJob
    <3>3. ~oReverted => \A z \in Sources : Rechecked(p, z)' => j.files[z] = j.digests[z]
      BY <2>5, <2>7
    <3>4. ~oReverted => \E m \in oMoments : \A z \in Sources :
            j.digests[z] <= m[z] /\ (Rechecked(p, z)' => m[z] = j.digests[z])
      BY <2>6, <2>7
    <3>5. there \in {"recheck", "publish"}
      OBVIOUS
    <3> HIDE DEF there
    <3> QED
      BY <1>0, <2>2, <2>3, <3>1, <3>2, <3>3, <3>4, <3>5 DEF LocalJob
  <2>9. oPc'[p] = there /\ oJob'[p] = record => JobInv(p)'
    BY <2>2, <2>8
    DEF JobInv, PhaseInv, PhasesOf, Iterating, HostJob, DistributionJob
  <2>10. there \in UNION {PhasesOf(d) : d \in Apps!Outputs}
    BY DEF PhasesOf
  <2> HIDE DEF record, there
  <2> QED
    BY <1>j, <1>0, <1>3, <2>1, <2>9, <2>10, OneRequires
<1>4. Apps!Ends(p) \/ (j.digests[s] = oSrc[s] /\ Apps!Goes(p, there, record))
  <2>1. rest = {} => record = [j EXCEPT !.todo = {}]
    OBVIOUS
  <2> QED
    BY <2>1 DEF Apps!Recheck, Apps!Requires, Apps!Unchanged, Apps!Advances
<1> QED
  BY <1>2, <1>3, <1>4

\* What a process knows does not depend on whether its output is disturbed, but for the
\* distribution, which then is not promised anything.
LEMMA DisturbedKeeps ==
  ASSUME AppsInv, NEW q \in Processes, UNCHANGED <<oKind, oSrc, oEdits, oReverted, oMoments>>,
         oPc'[q] = oPc[q],
         \/ oJob'[q] = oJob[q] /\ (oJob[q].output # "distribution" \/ oOut'["host"] = oOut["host"])
         \/ oJob'[q] = [oJob[q] EXCEPT !.disturbed = TRUE]
  PROVE  oJob'[q] \in Jobs /\ JobInv(q)'
<1> DEFINE j == oJob[q]
<1>j. j \in Jobs /\ JobInv(q)
  BY JobFacts
<1>1. /\ oJob'[q] \in Jobs
      /\ \A x \in {"output", "todo", "making", "files", "described", "digests", "dirty", "root"} :
           oJob'[q][x] = j[x]
  BY <1>j DEF Jobs
<1>2. PhaseInv(q)' /\ HostJob(q)'
  BY <1>j, <1>1 DEF JobInv, PhaseInv, HostJob
<1>3. LocalJob(q)'
  BY <1>j, <1>1 DEF JobInv, LocalJob, Digested, IsMade, Rechecked, Apps!Conventions
<1>4. DistributionJob(q)'
  <2>1. CASE oJob'[q] = j /\ (j.output # "distribution" \/ oOut'["host"] = oOut["host"])
    BY <1>j, <2>1 DEF JobInv, DistributionJob
  <2>2. CASE oJob'[q] = [j EXCEPT !.disturbed = TRUE]
    BY <1>j, <2>2 DEF JobInv, DistributionJob, Jobs
  <2> QED
    BY <2>1, <2>2
<1> QED
  BY <1>1, <1>2, <1>3, <1>4 DEF JobInv

LEMMA PublishKeeps ==
  ASSUME AppsInv, NEW p \in Processes, Apps!Publish(p)
  PROVE  AppsInv'
<1> DEFINE j == oJob[p]
<1> DEFINE d == j.output
<1> DEFINE made == [files |-> j.files, described |-> j.described, artifacts |-> j.artifacts,
                    root |-> j.root, intact |-> ~j.disturbed]
<1>j. j \in Jobs /\ JobInv(p) /\ oCommands \in 0..MaxOutputCommands /\ d \in Apps!Outputs
  BY JobFacts DEF Jobs
<1>0. oPc[p] = "publish" /\ UNCHANGED <<Apps!inputs, oCommands>>
  BY DEF Apps!Publish
<1>1. CASE Apps!Ends(p) /\ UNCHANGED oOut
  BY <1>j, <1>0, <1>1, OneEnds
<1>2. CASE /\ Apps!Free(d) /\ oOut' = [oOut EXCEPT ![d] = made]
           /\ oPc' = [oPc EXCEPT ![p] = "idle"]
           /\ oJob' = Apps!Disturbs([oJob EXCEPT ![p] = Apps!Fresh], d)
  <2>1. made \in Apps!Records
    BY <1>j DEF Jobs, Apps!Records, Known, Copies
  <2>2. oOut' \in [Apps!Outputs -> Apps!Records \union {None}]
    BY <1>j, <1>2, <2>1 DEF AppsInv, OutputTypes
  <2>3. /\ oOut'[d] = made /\ \A e \in Apps!Outputs \ {d} : oOut'[e] = oOut[e]
    BY <1>j, <1>2 DEF AppsInv, OutputTypes
  <2>4. ASSUME NEW q \in Processes, q # p
        PROVE  /\ oPc'[q] = oPc[q]
               /\ \/ oJob'[q] = oJob[q] /\ (oJob[q].output # "distribution" \/ oOut'["host"] = oOut["host"])
                  \/ oJob'[q] = [oJob[q] EXCEPT !.disturbed = TRUE]
    BY <1>2, <2>3, <2>4 DEF AppsInv, OutputTypes, Apps!Disturbs, Apps!Outputs
  <2>5. oJob'[p] = Apps!Fresh /\ oPc'[p] = "idle"
    BY <1>2 DEF AppsInv, OutputTypes, Apps!Disturbs, Apps!Fresh
  <2>6. \A q \in Processes : oJob'[q] \in Jobs /\ JobInv(q)'
    <3>1. oJob'[p] \in Jobs /\ JobInv(p)'
      BY <2>5, FreshType
      DEF JobInv, PhaseInv, HostJob, DistributionJob, LocalJob, PhasesOf, Iterating, Apps!Fresh
    <3>2. ASSUME NEW q \in Processes, q # p
          PROVE  oJob'[q] \in Jobs /\ JobInv(q)'
      BY <1>0, <2>4, <3>2, DisturbedKeeps DEF Apps!inputs
    <3> QED
      BY <3>1, <3>2
  <2>7. OutputTypes'
    <3>1. DOMAIN oJob' = Processes
      BY <1>2 DEF Apps!Disturbs
    <3>2. oJob' \in [Processes -> Jobs]
      <4>1. oJob' = [q \in Processes |-> oJob'[q]]
        BY <1>2 DEF Apps!Disturbs
      <4> QED
        BY <2>6, <4>1
    <3>3. oPc' \in [Processes -> UNION {PhasesOf(e) : e \in Apps!Outputs}]
      BY <1>2, PhaseTypes DEF AppsInv, OutputTypes
    <3> QED
      BY <1>0, <2>2, <3>2, <3>3 DEF AppsInv, OutputTypes, Apps!inputs
  <2>8. MomentsInv'
    BY <1>0 DEF AppsInv, MomentsInv, Apps!inputs
  <2>9. CASE d = "host"
    <3>1. j.files = j.described /\ Apps!Resolves(j.described)
      BY <1>j, <1>0, <2>9 DEF JobInv, HostJob
    <3>2. j.files \in Known
      BY <1>j, <3>1 DEF Jobs
    <3>3. HostOut'
      BY <2>3, <2>9, <3>1, <3>2 DEF HostOut
    <3>4. oOut'["distribution"] = oOut["distribution"] /\ oOut'["local"] = oOut["local"]
      BY <2>3, <2>9 DEF Apps!Outputs
    <3> QED
      BY <1>0, <2>6, <2>7, <2>8, <3>3, <3>4
      DEF AppsInv, OutInv, Apps!DistributionIsTheBuild, Apps!LocalIsOfOneMoment, Apps!inputs
  <2>10. CASE d = "distribution"
    <3>1. oOut'["host"] = oOut["host"] /\ oOut'["local"] = oOut["local"]
      BY <2>3, <2>10 DEF Apps!Outputs
    <3>2. ~j.disturbed => /\ j.files = j.described /\ j.artifacts = j.files /\ Apps!Resolves(j.files)
      <4>1. ~j.disturbed =>
              /\ oOut["host"] # None /\ oOut["host"].files = oOut["host"].described
              /\ j.described = oOut["host"].described
              /\ j.files = oOut["host"].files /\ j.artifacts = oOut["host"].files
        BY <1>j, <1>0, <2>10 DEF JobInv, DistributionJob
      <4> QED
        BY <4>1, HostParts
    <3>3. Apps!DistributionIsTheBuild'
      <4>1. oOut'["distribution"] = made
        BY <2>3, <2>10
      <4>2. /\ made.files = j.files /\ made.described = j.described
            /\ made.artifacts = j.artifacts /\ made.intact = ~j.disturbed
        OBVIOUS
      <4> HIDE DEF made
      <4> QED
        BY <3>2, <4>1, <4>2 DEF Apps!DistributionIsTheBuild
    <3> QED
      BY <1>0, <2>6, <2>7, <2>8, <3>1, <3>3
      DEF AppsInv, OutInv, HostOut, Apps!LocalIsOfOneMoment, Apps!inputs
  <2>11. CASE d = "local"
    <3>1. oOut'["host"] = oOut["host"] /\ oOut'["distribution"] = oOut["distribution"]
      BY <2>3, <2>11 DEF Apps!Outputs
    <3>2. j.root # "torn" /\ Apps!Resolves(j.files)
      BY <1>j, <1>0, <2>11 DEF JobInv, LocalJob
    <3>3. oReverted \/ j.files \in oMoments
      <4> SUFFICES ASSUME ~oReverted PROVE j.files \in oMoments
        OBVIOUS
      <4>1. PICK m \in oMoments : \A s \in Sources : Rechecked(p, s) => m[s] = j.digests[s]
        BY <1>j, <1>0, <2>11 DEF JobInv, LocalJob
      <4>2. \A s \in Sources : Rechecked(p, s) /\ j.files[s] = j.digests[s]
        BY <1>j, <1>0, <2>11 DEF JobInv, LocalJob, Rechecked
      <4>3. m \in Copies /\ j.files \in Copies
        <5>1. oMoments \subseteq [Sources -> Apps!Contents]
          BY DEF AppsInv, MomentsInv
        <5> QED
          BY <1>j, <5>1 DEF Jobs, Copies
      <4>4. j.files = m
        BY <4>1, <4>2, <4>3, SameTables
      <4> QED
        BY <4>4
    <3>4. Apps!LocalIsOfOneMoment'
      BY <1>0, <2>3, <2>11, <3>2, <3>3 DEF Apps!LocalIsOfOneMoment, Apps!inputs
    <3> QED
      BY <1>0, <2>6, <2>7, <2>8, <3>1, <3>4
      DEF AppsInv, OutInv, HostOut, Apps!DistributionIsTheBuild
  <2> QED
    BY <1>j, <2>9, <2>10, <2>11 DEF Apps!Outputs
<1> QED
  BY <1>1, <1>2 DEF Apps!Publish

\* A source changes: what was read of it before is older, unless a content comes back.
LEMMA SourcesChange ==
  ASSUME AppsInv, NEW s \in Sources, NEW content \in Apps!Contents,
         oSrc' = [oSrc EXCEPT ![s] = content], oMoments' = oMoments \union {oSrc'}, Apps!Dirties(s),
         \/ oReverted'
         \/ ~oReverted' /\ ~oReverted /\ content = oEdits + 2 /\ oEdits' = oEdits + 1,
         oEdits' \in 0..MaxSourceEdits, oMeddlings' \in 0..MaxMeddlings, oReverted' \in BOOLEAN,
         UNCHANGED <<oKind, oBinary, oOut, oPc, oCommands>>
  PROVE  AppsInv'
<1>1. oSrc \in [Sources -> Apps!Contents] /\ oSrc' \in [Sources -> Apps!Contents] /\ oEdits \in Nat
  BY DEF AppsInv, OutputTypes
<1>2. ASSUME NEW p \in Processes
      PROVE  /\ oJob'[p] \in Jobs
             /\ oJob'[p] = oJob[p] \/ (oJob[p].making = s /\ oJob'[p] = [oJob[p] EXCEPT !.dirty = TRUE])
    BY JobFacts DEF Apps!Dirties, Jobs
<1>3. OutputTypes'
  <2>1. oJob' \in [Processes -> Jobs]
    BY <1>2 DEF Apps!Dirties
  <2> QED
    BY <1>1, <2>1, ZenonT(40) DEF AppsInv, OutputTypes
<1>4. ~oReverted' => /\ ~oReverted /\ oSrc'[s] = oEdits + 2 /\ oEdits' = oEdits + 1
                     /\ \A z \in Sources \ {s} : oSrc'[z] = oSrc[z]
                     /\ \A z \in Sources : oSrc[z] <= oEdits + 1 /\ oSrc[z] \in Nat
                     /\ \A z \in Sources : oSrc[z] <= oSrc'[z]
  <2> SUFFICES ASSUME ~oReverted'
               PROVE  /\ ~oReverted /\ oSrc'[s] = oEdits + 2 /\ oEdits' = oEdits + 1
                      /\ \A z \in Sources \ {s} : oSrc'[z] = oSrc[z]
                      /\ \A z \in Sources : oSrc[z] <= oEdits + 1 /\ oSrc[z] \in Nat
                      /\ \A z \in Sources : oSrc[z] <= oSrc'[z]
    OBVIOUS
  <2>1. /\ ~oReverted /\ oSrc'[s] = oEdits + 2 /\ oEdits' = oEdits + 1
        /\ \A z \in Sources \ {s} : oSrc'[z] = oSrc[z]
    BY <1>1
  <2>2. \A z \in Sources : oSrc[z] <= oEdits + 1 /\ oSrc[z] \in Nat
    BY <1>1, <2>1 DEF AppsInv, MomentsInv, Apps!Contents
  <2>3. ASSUME NEW z \in Sources
        PROVE  oSrc[z] <= oSrc'[z]
    BY <1>1, <2>1, <2>2
  <2> QED
    BY <2>1, <2>2, <2>3
<1>5. MomentsInv'
  <2>1. oMoments' \subseteq [Sources -> Apps!Contents] /\ oSrc' \in oMoments'
    BY <1>1 DEF AppsInv, MomentsInv
  <2>2. ASSUME ~oReverted', NEW z \in Sources, NEW m \in oMoments'
        PROVE  oSrc'[z] <= oEdits' + 1 /\ m[z] <= oSrc'[z]
    <3>1. CASE m = oSrc'
      BY <1>1, <1>4, <2>2, <3>1
    <3>2. CASE m \in oMoments
      <4>1. m[z] <= oSrc[z] /\ m[z] \in Nat
        BY <1>4, <2>2, <3>2 DEF AppsInv, MomentsInv, Apps!Contents
      <4>2. oSrc[z] <= oSrc'[z] /\ oSrc[z] \in Nat /\ oSrc'[z] \in Nat /\ oSrc[z] <= oEdits + 1
        BY <1>1, <1>4, <2>2 DEF Apps!Contents
      <4>3. oSrc'[z] <= oEdits' + 1
        BY <1>1, <1>4, <2>2, <4>2
      <4> QED
        BY <4>1, <4>2, <4>3
    <3> QED
      BY <2>2, <3>1, <3>2
  <2> QED
    BY <2>1, <2>2 DEF MomentsInv
<1>6. OutInv'
  BY <1>4 DEF AppsInv, OutInv, HostOut, Apps!DistributionIsTheBuild, Apps!LocalIsOfOneMoment
<1>7. ASSUME NEW p \in Processes
      PROVE  JobInv(p)'
  <2> DEFINE j == oJob[p]
  <2>j. j \in Jobs /\ JobInv(p)
    BY JobFacts
  <2>1. \A x \in {"output", "seen", "todo", "making", "files", "described", "digests", "root",
                  "artifacts", "disturbed"} : oJob'[p][x] = j[x]
    BY <2>j, <1>2, ZenonT(40) DEF Jobs
  <2>2. PhaseInv(p)' /\ HostJob(p)' /\ DistributionJob(p)'
    BY <2>j, <2>1 DEF JobInv, PhaseInv, HostJob, DistributionJob
  <2>3. \A z : /\ Digested(p, z)' <=> Digested(p, z)
               /\ IsMade(p, z)' <=> IsMade(p, z)
               /\ Rechecked(p, z)' <=> Rechecked(p, z)
    BY <2>1 DEF Digested, IsMade, Rechecked, Apps!Conventions
  <2>4. ASSUME j.output = "local", ~oReverted', NEW z \in Sources, Digested(p, z)
        PROVE  /\ j.digests[z] \in Apps!Contents /\ j.digests[z] <= oSrc'[z]
               /\ j.digests[z] < oSrc[z] \/ z = s => j.digests[z] < oSrc'[z]
    <3>1. j.digests[z] \in Apps!Contents /\ j.digests[z] <= oSrc[z] /\ j.digests[z] \in Nat
      BY <1>4, <2>j, <2>4 DEF JobInv, LocalJob, Apps!Contents
    <3>2. oSrc[z] <= oSrc'[z] /\ oSrc[z] \in Nat /\ oSrc'[z] \in Nat /\ oSrc[z] <= oEdits + 1
      BY <1>1, <1>4, <2>4 DEF Apps!Contents
    <3>3. z = s => oSrc'[z] = oEdits + 2
      BY <1>4, <2>4
    <3> QED
      BY <1>1, <3>1, <3>2, <3>3
  <2>5. LocalJob(p)'
    <3> SUFFICES ASSUME j.output = "local"
                 PROVE  LocalJob(p)'
      BY <2>1 DEF LocalJob
    <3>1. /\ oPc[p] \in {"conventions", "compile"} => j.todo \subseteq Apps!Conventions
          /\ oPc[p] \in {"digest", "make"} => j.todo \subseteq Sources \ Apps!Conventions
          /\ oPc[p] \in {"recheck", "publish"} => j.root # "torn" /\ Apps!Resolves(j.files)
          /\ j.making # None => oPc[p] \in {"compile", "make"} /\ j.making \in j.todo
      BY <2>j DEF JobInv, LocalJob
    <3>2. ASSUME ~oReverted', oPc[p] \in {"compile", "make"}, j.making # None, oJob'[p].dirty
          PROVE  j.digests[j.making] < oSrc'[j.making]
      <4>1. j.making \in Sources /\ Digested(p, j.making)
        BY <3>1, <3>2, <2>j DEF Jobs, Digested
      <4>2. j.making = s \/ j.digests[j.making] < oSrc[j.making]
        BY <1>2, <1>4, <2>j, <3>2 DEF JobInv, LocalJob
      <4> QED
        BY <2>4, <3>2, <4>1, <4>2
    <3>3. ASSUME ~oReverted', NEW z \in Sources, IsMade(p, z)
          PROVE  j.files[z] = j.digests[z] \/ j.digests[z] < oSrc'[z]
      <4>1. Digested(p, z)
        BY <3>3, <2>j DEF IsMade, Digested, JobInv, LocalJob
      <4>2. j.files[z] = j.digests[z] \/ j.digests[z] < oSrc[z]
        BY <1>4, <2>j, <3>3 DEF JobInv, LocalJob
      <4> QED
        BY <2>4, <3>3, <4>1, <4>2
    <3>4. ASSUME ~oReverted'
          PROVE  /\ \A z \in Sources : Rechecked(p, z) => j.files[z] = j.digests[z]
                 /\ oPc[p] \in {"recheck", "publish"} =>
                      \E m \in oMoments : \A z \in Sources :
                        j.digests[z] <= m[z] /\ (Rechecked(p, z) => m[z] = j.digests[z])
      BY <1>4, <2>j, <3>4 DEF JobInv, LocalJob
    <3>5. oMoments \subseteq oMoments' /\ Apps!Conventions' = Apps!Conventions
      BY DEF Apps!Conventions
    <3> QED
      BY <2>1, <2>3, <2>4, <3>1, <3>2, <3>3, <3>4, <3>5 DEF LocalJob
  <2> QED
    BY <2>2, <2>5 DEF JobInv
<1> QED
  BY <1>3, <1>5, <1>6, <1>7 DEF AppsInv

LEMMA PeopleKeep ==
  ASSUME AppsInv,
         \/ \E s \in Sources : Apps!Edit(s) \/ Apps!ChangeBack(s)
         \/ \E d \in Apps!Outputs : Apps!Meddle(d)
         \/ Apps!ReplaceHost
  PROVE  AppsInv'
<1>1. oEdits \in 0..MaxSourceEdits /\ oMeddlings \in 0..MaxMeddlings /\ oReverted \in BOOLEAN
  BY DEF AppsInv, OutputTypes
<1>2. ASSUME NEW s \in Sources, Apps!Edit(s)
      PROVE  AppsInv'
  <2>1. oEdits + 2 \in Apps!Contents /\ oEdits' \in 0..MaxSourceEdits
    BY <1>1, <1>2, OutputsAssumption DEF Apps!Edit, Apps!Contents
  <2> QED
    BY <1>1, <1>2, <2>1, SourcesChange DEF Apps!Edit
<1>3. ASSUME NEW s \in Sources, Apps!ChangeBack(s)
      PROVE  AppsInv'
  <2>1. 1 \in Apps!Contents /\ oMeddlings' \in 0..MaxMeddlings
    BY <1>1, <1>3, OutputsAssumption DEF Apps!ChangeBack, Apps!Contents
  <2> QED
    BY <1>1, <1>3, <2>1, SourcesChange DEF Apps!ChangeBack
<1>4. CASE Apps!ReplaceHost
  <2>1. oMeddlings' \in 0..MaxMeddlings
    BY <1>1, <1>4, OutputsAssumption DEF Apps!ReplaceHost
  <2>2. OutputTypes' /\ MomentsInv' /\ OutInv'
    BY <1>4, <2>1
    DEF Apps!ReplaceHost, AppsInv, OutputTypes, MomentsInv, OutInv, HostOut,
        Apps!DistributionIsTheBuild, Apps!LocalIsOfOneMoment
  <2>3. \A p \in Processes : JobInv(p)'
    BY <1>4
    DEF Apps!ReplaceHost, AppsInv, JobInv, PhaseInv, HostJob, DistributionJob, LocalJob,
        Digested, IsMade, Rechecked, Apps!Conventions
  <2> QED
    BY <2>2, <2>3 DEF AppsInv
<1>5. ASSUME NEW d \in Apps!Outputs, Apps!Meddle(d)
      PROVE  AppsInv'
  <2>1. oMeddlings' \in 0..MaxMeddlings
    BY <1>1, <1>5, OutputsAssumption DEF Apps!Meddle
  <2>2. UNCHANGED <<oKind, oSrc, oEdits, oReverted, oMoments, oBinary, oPc, oCommands>>
    BY <1>5 DEF Apps!Meddle
  <2>3. /\ oOut'[d] # None => /\ oOut'[d].described = oOut[d].described /\ oOut'[d].files \in Copies
                              /\ oOut[d].files \in Known => oOut'[d].files \in Known
                              /\ ~oOut'[d].intact /\ oOut[d] # None
        /\ oOut' \in [Apps!Outputs -> Apps!Records \union {None}]
        /\ \A e \in Apps!Outputs \ {d} : oOut'[e] = oOut[e]
    <3>1. oOut \in [Apps!Outputs -> Apps!Records \union {None}] /\ oOut[d] \in Apps!Records
      BY <1>5 DEF AppsInv, OutputTypes, Apps!Meddle
    <3>2. CASE oOut' = [oOut EXCEPT ![d] = None]
      BY <3>1, <3>2
    <3>3. ASSUME NEW s \in Sources,
                 oOut' = [oOut EXCEPT ![d].files[s] = MaxSourceEdits + 1, ![d].intact = FALSE]
          PROVE  <2>3!1 /\ <2>3!2 /\ <2>3!3
      <4> DEFINE changed == [oOut[d] EXCEPT !.files[s] = MaxSourceEdits + 1, !.intact = FALSE]
      <4>1. MaxSourceEdits + 1 \in Apps!Contents
        BY OutputsAssumption DEF Apps!Contents
      <4>2. /\ changed \in Apps!Records /\ changed.described = oOut[d].described
            /\ changed.files = [oOut[d].files EXCEPT ![s] = MaxSourceEdits + 1]
            /\ ~changed.intact
        BY <3>1, <4>1 DEF Apps!Records
      <4>3. changed.files \in Copies /\ (oOut[d].files \in Known => changed.files \in Known)
        BY <3>1, <4>1, <4>2 DEF Apps!Records, Copies, Known
      <4>4. oOut' = [oOut EXCEPT ![d] = changed]
        BY <3>1, <3>3
      <4>5. oOut'[d] = changed /\ \A e \in Apps!Outputs \ {d} : oOut'[e] = oOut[e]
        BY <3>1, <4>4
      <4>6. oOut' \in [Apps!Outputs -> Apps!Records \union {None}]
        BY <3>1, <4>2, <4>4
      <4>7. oOut[d] # None
        BY <1>5 DEF Apps!Meddle
      <4> HIDE DEF changed
      <4> QED
        BY <4>2, <4>3, <4>5, <4>6, <4>7
    <3> QED
      BY <1>5, <3>2, <3>3 DEF Apps!Meddle
  <2>4. \A q \in Processes : oJob'[q] \in Jobs /\ JobInv(q)'
    <3>1. ASSUME NEW q \in Processes
          PROVE  \/ oJob'[q] = oJob[q] /\ (oJob[q].output # "distribution" \/ oOut'["host"] = oOut["host"])
                 \/ oJob'[q] = [oJob[q] EXCEPT !.disturbed = TRUE]
      BY <1>5, <2>3 DEF Apps!Meddle, Apps!Disturbs, Apps!Outputs
    <3> QED
      BY <2>2, <3>1, DisturbedKeeps
  <2>5. OutputTypes'
    <3>1. oJob' \in [Processes -> Jobs]
      BY <1>5, <2>4 DEF Apps!Meddle, Apps!Disturbs
    <3> QED
      BY <2>1, <2>2, <2>3, <3>1 DEF AppsInv, OutputTypes
  <2>6. OutInv'
    BY <2>2, <2>3
    DEF AppsInv, OutInv, HostOut, Apps!DistributionIsTheBuild, Apps!LocalIsOfOneMoment,
        Apps!Outputs
  <2> QED
    BY <2>2, <2>4, <2>5, <2>6 DEF AppsInv, MomentsInv
<1> QED
  BY <1>2, <1>3, <1>4, <1>5

LEMMA NextApps == AppsInv /\ [Apps!Next]_Apps!vars => AppsInv'
<1> SUFFICES ASSUME AppsInv, [Apps!Next]_Apps!vars PROVE AppsInv'
  OBVIOUS
<1>1. ASSUME NEW p \in Processes, Apps!Step(p)
      PROVE  AppsInv'
  <2>1. ASSUME Apps!Stop(p)
        PROVE  AppsInv'
    BY <2>1, JobFacts, OneEnds DEF Apps!Stop
  <2> QED
    BY <1>1, <2>1, HostSteps, DistributionSteps, LocalBegins, DigestKeeps, StartMakingKeeps,
       MakingKeeps, ResolveKeeps, RecheckKeeps, PublishKeeps DEF Apps!Step
<1>2. CASE UNCHANGED Apps!vars
  <2>1. OutputTypes' /\ MomentsInv' /\ OutInv'
    BY <1>2
    DEF Apps!vars, AppsInv, OutputTypes, MomentsInv, OutInv, HostOut,
        Apps!DistributionIsTheBuild, Apps!LocalIsOfOneMoment
  <2>2. \A p \in Processes : JobInv(p)'
    BY <1>2
    DEF Apps!vars, AppsInv, JobInv, PhaseInv, HostJob, DistributionJob, LocalJob, Digested,
        IsMade, Rechecked, Apps!Conventions
  <2> QED
    BY <2>1, <2>2 DEF AppsInv
<1> QED
  BY <1>1, <1>2, PeopleKeep DEF Apps!Next

LEMMA FirstStays ==
  ASSUME AppsInv, [Apps!Next]_Apps!vars
  PROVE  \A d \in Apps!Outputs : oOut[d] # None /\ oMeddlings' = oMeddlings => oOut'[d] = oOut[d]
<1>1. oOut \in [Apps!Outputs -> Apps!Records \union {None}] /\ oMeddlings \in Nat
  BY DEF AppsInv, OutputTypes
<1>2. ASSUME NEW p \in Processes, Apps!Publish(p), NEW d \in Apps!Outputs, oOut[d] # None
      PROVE  oOut'[d] = oOut[d]
  <2>1. CASE UNCHANGED oOut
    BY <2>1
  <2>2. CASE /\ Apps!Free(oJob[p].output)
             /\ oOut' = [oOut EXCEPT ![oJob[p].output] =
                  [files |-> oJob[p].files, described |-> oJob[p].described,
                   artifacts |-> oJob[p].artifacts, root |-> oJob[p].root,
                   intact |-> ~oJob[p].disturbed]]
    BY <1>1, <1>2, <2>2 DEF Apps!Free
  <2> QED
    BY <1>2, <2>1, <2>2 DEF Apps!Publish
<1>3. ASSUME NEW p \in Processes, Apps!Step(p), ~Apps!Publish(p)
      PROVE  UNCHANGED oOut
  BY <1>3
  DEF Apps!Step, Apps!Build, Apps!Archive, Apps!Describe, Apps!Lower, Apps!Prepare,
      Apps!Validate, Apps!CopyAuthority, Apps!CopyBundle, Apps!CopyArtifact, Apps!Plan,
      Apps!StartAssembly, Apps!CopyRoot, Apps!Digest, Apps!StartMaking, Apps!Compile,
      Apps!Make, Apps!InstallHost, Apps!Resolve, Apps!Recheck, Apps!Stop
<1>4. ASSUME NEW d \in Apps!Outputs, Apps!Meddle(d)
      PROVE  oMeddlings' # oMeddlings
  BY <1>1, <1>4 DEF Apps!Meddle
<1>5. ASSUME NEW s \in Sources, Apps!Edit(s) \/ Apps!ChangeBack(s)
      PROVE  UNCHANGED oOut
  BY <1>5 DEF Apps!Edit, Apps!ChangeBack
<1>6. CASE Apps!ReplaceHost
  BY <1>6 DEF Apps!ReplaceHost
<1>7. CASE UNCHANGED Apps!vars
  BY <1>7 DEF Apps!vars
<1> QED
  BY <1>2, <1>3, <1>4, <1>5, <1>6, <1>7 DEF Apps!Next

-----------------------------------------------------------------------------
(* AppInit.                                                                 *)

Moving == {"published", "undo plugins"}
Owning == Moving \union {"control", "undo control"}

\* Who moved a directory into place owns it until the command ends, and then both of
\* them.
OwnerInv(p) ==
  /\ iPc[p] \in Owning => iControl = p
  /\ iPc[p] \in Moving => iPlugins = p
  /\ iPc[p] = "idle" /\ iResult[p] = "created" => iControl = p /\ iPlugins = p /\ iValid[p]

\* Unless an init was killed, a directory that is in place has such an owner.
PlacedInv ==
  /\ iControl = "empty" => \E p \in Processes : iPc[p] = "undo directory"
  /\ iControl \in Processes =>
       iPc[iControl] \in Owning \/ (iPc[iControl] = "idle" /\ iPlugins = iControl)
  /\ iPlugins \in Processes =>
       iPc[iPlugins] \in Moving \/ (iPc[iPlugins] = "idle" /\ iControl = iPlugins)

WorkspaceInv == Workspace!TypeOK /\ (\A p \in Processes : OwnerInv(p)) /\ (iKills = 0 => PlacedInv)

LEMMA InitWorkspace == Workspace!Init => WorkspaceInv
<1> SUFFICES ASSUME Workspace!Init PROVE WorkspaceInv
  OBVIOUS
<1>1. iControl = None /\ iPlugins \in {None, "empty"} /\ iKills = 0
  BY DEF Workspace!Init
<1>2. \A p \in Processes : iPc[p] = "idle" /\ iResult[p] = None
  BY Zenon DEF Workspace!Init
<1>3. Workspace!TypeOK
  BY WorkspaceAssumption DEF Workspace!Init, Workspace!TypeOK
<1>4. None # "created"
  BY WorkspaceAssumption
<1> QED
  BY <1>1, <1>2, <1>3, <1>4, WorkspaceAssumption, Zenon
  DEF WorkspaceInv, OwnerInv, PlacedInv, Owning, Moving

LEMMA NextWorkspace == WorkspaceInv /\ [Workspace!Next]_Workspace!vars => WorkspaceInv'
<1> SUFFICES ASSUME WorkspaceInv, [Workspace!Next]_Workspace!vars PROVE WorkspaceInv'
  OBVIOUS
<1> USE WorkspaceAssumption
<1>0. /\ Workspace!TypeOK /\ (iKills = 0 => PlacedInv) /\ \A q \in Processes : OwnerInv(q)
  BY DEF WorkspaceInv
<1>1. ASSUME NEW p \in Processes, Workspace!Start(p)
      PROVE  WorkspaceInv'
  <2>1. Workspace!TypeOK'
    <3>1. iRuns' \in 0..MaxInits /\ UNCHANGED <<iControl, iPlugins, iValid, iKills>>
      <4>1. iRuns \in 0..MaxInits
        BY <1>0, Zenon DEF Workspace!TypeOK
      <4>2. iRuns < MaxInits /\ iRuns' = iRuns + 1 /\ UNCHANGED <<iControl, iPlugins, iValid, iKills>>
        BY <1>1 DEF Workspace!Start
      <4> QED
        BY <4>1, <4>2
    <3>2. \/ iPc' = [iPc EXCEPT ![p] = "staged"] /\ UNCHANGED iResult
          \/ iPc' = [iPc EXCEPT ![p] = "idle"] /\ iResult' = [iResult EXCEPT ![p] = "failed"]
      BY <1>1 DEF Workspace!Start, Workspace!Goes, Workspace!Ends
    <3> QED
      BY <1>0, <3>1, <3>2, Zenon DEF Workspace!TypeOK
  <2>2. \A q \in Processes : OwnerInv(q)'
    BY <1>0, <1>1, Zenon
    DEF OwnerInv, Workspace!TypeOK, Workspace!Start, Workspace!Goes, Workspace!Ends, Owning,
        Moving, Workspace!NothingYet
  <2>3. iKills' = 0 => PlacedInv'
    BY <1>0, <1>1, Zenon
    DEF OwnerInv, PlacedInv, Workspace!TypeOK, Workspace!Start, Workspace!Goes,
        Workspace!Ends, Owning, Moving, Workspace!NothingYet
  <2> QED
    BY <2>1, <2>2, <2>3 DEF WorkspaceInv
<1>2. ASSUME NEW p \in Processes, Workspace!PublishControl(p)
      PROVE  WorkspaceInv'
  <2>1. Workspace!TypeOK'
    BY <1>0, <1>2, Zenon
    DEF Workspace!TypeOK, Workspace!PublishControl, Workspace!Goes, Workspace!Ends
  <2>2. \A q \in Processes : OwnerInv(q)'
    BY <1>0, <1>2, Zenon
    DEF OwnerInv, Workspace!TypeOK, Workspace!PublishControl, Workspace!Goes, Workspace!Ends,
        Owning, Moving
  <2>3. iKills' = 0 => PlacedInv'
    <3> SUFFICES ASSUME iKills = 0 PROVE PlacedInv'
      BY <1>2 DEF Workspace!PublishControl
    <3>1. CASE iControl' = p /\ iControl \in {None, "empty"} /\ iPc' = [iPc EXCEPT ![p] = "control"]
      <4>1. iPlugins' = iPlugins /\ (iPlugins \notin Processes \/ iPc[iPlugins] \in Moving)
        BY <1>0, <1>2, <3>1, Zenon DEF PlacedInv, Workspace!PublishControl
      <4> QED
        BY <1>0, <1>2, <3>1, <4>1, Zenon
        DEF OwnerInv, PlacedInv, Workspace!TypeOK, Workspace!PublishControl, Owning, Moving
    <3>2. CASE iControl' = iControl /\ iControl \notin {None, "empty"} /\ iPc' = [iPc EXCEPT ![p] = "idle"]
      BY <1>0, <1>2, <3>2, Zenon
      DEF OwnerInv, PlacedInv, Workspace!TypeOK, Workspace!PublishControl, Owning, Moving
    <3> QED
      BY <1>2, <3>1, <3>2 DEF Workspace!PublishControl, Workspace!Goes, Workspace!Ends
  <2> QED
    BY <2>1, <2>2, <2>3 DEF WorkspaceInv
<1>3. ASSUME NEW p \in Processes, Workspace!PublishPlugins(p)
      PROVE  WorkspaceInv'
  <2>1. Workspace!TypeOK'
    BY <1>0, <1>3, Zenon
    DEF Workspace!TypeOK, Workspace!PublishPlugins, Workspace!Goes, Workspace!Ends
  <2>2. \A q \in Processes : OwnerInv(q)'
    BY <1>0, <1>3, Zenon
    DEF OwnerInv, Workspace!TypeOK, Workspace!PublishPlugins, Workspace!Goes, Workspace!Ends,
        Owning, Moving
  <2>3. iKills' = 0 => PlacedInv'
    BY <1>0, <1>3, Zenon
    DEF OwnerInv, PlacedInv, Workspace!TypeOK, Workspace!PublishPlugins, Workspace!Goes,
        Workspace!Ends, Owning, Moving
  <2> QED
    BY <2>1, <2>2, <2>3 DEF WorkspaceInv
<1>4. ASSUME NEW p \in Processes, Workspace!Load(p)
      PROVE  WorkspaceInv'
  <2>1. Workspace!TypeOK'
    BY <1>0, <1>4, Zenon DEF Workspace!TypeOK, Workspace!Load, Workspace!Goes, Workspace!Ends
  <2>2. \A q \in Processes : OwnerInv(q)'
    BY <1>0, <1>4, Zenon
    DEF OwnerInv, Workspace!TypeOK, Workspace!Load, Workspace!Goes, Workspace!Ends, Owning,
        Moving
  <2>3. iKills' = 0 => PlacedInv'
    BY <1>0, <1>4, Zenon
    DEF OwnerInv, PlacedInv, Workspace!TypeOK, Workspace!Load, Workspace!Goes, Workspace!Ends,
        Owning, Moving
  <2> QED
    BY <2>1, <2>2, <2>3 DEF WorkspaceInv
<1>5. ASSUME NEW p \in Processes, Workspace!UndoPlugins(p)
      PROVE  WorkspaceInv'
  <2>1. Workspace!TypeOK'
    BY <1>0, <1>5, Zenon
    DEF Workspace!TypeOK, Workspace!UndoPlugins, Workspace!Goes, Workspace!Ends
  <2>2. \A q \in Processes : OwnerInv(q)'
    BY <1>0, <1>5, Zenon
    DEF OwnerInv, Workspace!TypeOK, Workspace!UndoPlugins, Workspace!Goes, Workspace!Ends,
        Owning, Moving
  <2>3. iKills' = 0 => PlacedInv'
    BY <1>0, <1>5, Zenon
    DEF OwnerInv, PlacedInv, Workspace!TypeOK, Workspace!UndoPlugins, Workspace!Goes,
        Workspace!Ends, Owning, Moving
  <2> QED
    BY <2>1, <2>2, <2>3 DEF WorkspaceInv
<1>6. ASSUME NEW p \in Processes, Workspace!UndoControl(p)
      PROVE  WorkspaceInv'
  <2>1. Workspace!TypeOK'
    BY <1>0, <1>6, Zenon
    DEF Workspace!TypeOK, Workspace!UndoControl, Workspace!Goes, Workspace!Ends
  <2>2. \A q \in Processes : OwnerInv(q)'
    BY <1>0, <1>6, Zenon
    DEF OwnerInv, Workspace!TypeOK, Workspace!UndoControl, Workspace!Goes, Workspace!Ends,
        Owning, Moving
  <2>3. iKills' = 0 => PlacedInv'
    BY <1>0, <1>6, Zenon
    DEF OwnerInv, PlacedInv, Workspace!TypeOK, Workspace!UndoControl, Workspace!Goes,
        Workspace!Ends, Owning, Moving
  <2> QED
    BY <2>1, <2>2, <2>3 DEF WorkspaceInv
<1>7. ASSUME NEW p \in Processes, Workspace!UndoDirectory(p)
      PROVE  WorkspaceInv'
  <2>1. Workspace!TypeOK'
    BY <1>0, <1>7, Zenon
    DEF Workspace!TypeOK, Workspace!UndoDirectory, Workspace!Goes, Workspace!Ends
  <2>2. \A q \in Processes : OwnerInv(q)'
    BY <1>0, <1>7, Zenon
    DEF OwnerInv, Workspace!TypeOK, Workspace!UndoDirectory, Workspace!Goes, Workspace!Ends,
        Owning, Moving
  <2>3. iKills' = 0 => PlacedInv'
    BY <1>0, <1>7, Zenon
    DEF OwnerInv, PlacedInv, Workspace!TypeOK, Workspace!UndoDirectory, Workspace!Goes,
        Workspace!Ends, Owning, Moving
  <2> QED
    BY <2>1, <2>2, <2>3 DEF WorkspaceInv
<1>8. ASSUME NEW p \in Processes, Workspace!Kill(p)
      PROVE  WorkspaceInv'
  <2>1. Workspace!TypeOK'
    <3>1. iKills' \in 0..MaxKills /\ UNCHANGED <<iControl, iPlugins, iValid, iRuns>>
      <4>1. iKills \in 0..MaxKills
        BY <1>0, Zenon DEF Workspace!TypeOK
      <4>2. iKills < MaxKills /\ iKills' = iKills + 1 /\ UNCHANGED <<iControl, iPlugins, iValid, iRuns>>
        BY <1>8 DEF Workspace!Kill
      <4> QED
        BY <4>1, <4>2
    <3>2. iPc' = [iPc EXCEPT ![p] = "idle"] /\ iResult' = [iResult EXCEPT ![p] = "killed"]
      BY <1>8 DEF Workspace!Kill, Workspace!Ends
    <3> QED
      BY <1>0, <3>1, <3>2, Zenon DEF Workspace!TypeOK
  <2>2. \A q \in Processes : OwnerInv(q)'
    BY <1>0, <1>8, Zenon
    DEF OwnerInv, Workspace!TypeOK, Workspace!Kill, Workspace!Goes, Workspace!Ends, Owning,
        Moving
  <2>3. iKills' # 0
    <3>1. iKills \in 0..MaxKills
      BY <1>0, Zenon DEF Workspace!TypeOK
    <3>2. iKills' = iKills + 1
      BY <1>8 DEF Workspace!Kill
    <3> QED
      BY <3>1, <3>2
  <2> QED
    BY <2>1, <2>2, <2>3 DEF WorkspaceInv
<1>9. CASE Workspace!Fill
  <2>1. Workspace!TypeOK'
    BY <1>0, <1>9, Zenon DEF Workspace!TypeOK, Workspace!Fill
  <2>2. \A q \in Processes : OwnerInv(q)'
    BY <1>0, <1>9, Zenon DEF OwnerInv, Workspace!TypeOK, Workspace!Fill, Owning, Moving
  <2>3. iKills' = 0 => PlacedInv'
    BY <1>0, <1>9, Zenon DEF PlacedInv, Workspace!TypeOK, Workspace!Fill, Owning, Moving
  <2> QED
    BY <2>1, <2>2, <2>3 DEF WorkspaceInv
<1>10. CASE UNCHANGED Workspace!vars
  BY <1>10, Zenon DEF WorkspaceInv, Workspace!TypeOK, Workspace!vars, OwnerInv, PlacedInv
<1> QED
  BY <1>1, <1>2, <1>3, <1>4, <1>5, <1>6, <1>7, <1>8, <1>9, <1>10 DEF Workspace!Next

LEMMA WorkspaceWhole == WorkspaceInv => Workspace!InitIsWhole
  BY WorkspaceAssumption, Zenon
  DEF WorkspaceInv, Workspace!TypeOK, OwnerInv, PlacedInv, Workspace!InitIsWhole, Owning,
      Moving

-----------------------------------------------------------------------------
(* BootstrapLock.                                                           *)

JobFields == {"workflow", "stack", "visited", "roots", "selected", "candidates", "todo", "lock",
              "began", "loaded", "tool", "used"}
LockFields == {"configuration", "sources", "plugins", "slipped"}
PluginFields == {"tool", "identity", "executable", "proofs"}
Entries == [path : Workflows, read : Bootstrap!Versions, next : Nat \ {0}]

LocalPhasesOfTools ==
  {"idle", "composing", "discovering", "capturing", "loading", "opening", "ready", "checking",
   "running", "rechecking"}
LoadedPhases == {"loading", "opening", "ready", "checking", "running", "rechecking"}

ToolTypes ==
  /\ kVersion \in [Bootstrap!Paths -> Bootstrap!Versions] /\ kEdits \in 0..MaxToolEdits /\ kCommands \in 0..MaxToolCommands
  /\ \A f \in Bootstrap!Paths : kVersion[f] <= kEdits + 1
  /\ kPc \in [ToolUsers -> LocalPhasesOfTools] /\ DOMAIN kJob = ToolUsers
  /\ \A p \in ToolUsers : DOMAIN kJob[p] = JobFields

\* A proof is of a version that the file had.
ProofsFit(q) ==
  /\ DOMAIN q = PluginFields /\ q.tool \in Tools
  /\ DOMAIN q.proofs \subseteq Bootstrap!Paths
  /\ \A f \in DOMAIN q.proofs : q.proofs[f] \in Bootstrap!Versions /\ q.proofs[f] <= kVersion[f]
  /\ q.proofs = [f \in DOMAIN q.proofs |-> q.proofs[f]]

LockFits(l) ==
  /\ DOMAIN l = LockFields /\ l.slipped \in BOOLEAN
  /\ DOMAIN l.configuration \subseteq Workflows
  /\ \A w \in DOMAIN l.configuration :
       l.configuration[w] \in Bootstrap!Versions /\ l.configuration[w] <= kVersion[w]
  /\ l.configuration = [w \in DOMAIN l.configuration |-> l.configuration[w]]
  /\ \A q \in l.plugins : ProofsFit(q)
  /\ \A q, r \in l.plugins : q.identity = r.identity => q = r

\* What the workflows of a lock say, and whether they are composed of one of them.
Stated(l, w) == Text[w][l.configuration[w]]
IsComposed(l, top) ==
  LET all == DOMAIN l.configuration IN
  /\ top \in all
  /\ \A w \in all : Stated(l, w) # None /\ Bootstrap!ToSet(Stated(l, w).presets) \subseteq all
  /\ \A set \in SUBSET Workflows :
       top \in set /\ (\A w \in set \intersect all : Bootstrap!ToSet(Stated(l, w).presets) \subseteq set)
         => all \subseteq set

\* What was found in the workflows of a lock that are left.
StatedSources(l) == UNION {Stated(l, w).sources : w \in DOMAIN l.configuration}
StatedPlugins(l) == UNION {Stated(l, w).plugins : w \in DOMAIN l.configuration}
IsRoot(l, r) == \E w \in DOMAIN l.configuration : r \in Bootstrap!ToSet(Stated(l, w).roots)

PluginWhole(l, q) ==
  /\ q.tool \in DOMAIN q.proofs /\ q.executable \in DOMAIN q.proofs
  /\ ~l.slipped =>
       LET text == Text[q.tool][q.proofs[q.tool]] IN
       /\ text # None /\ text.identity = q.identity /\ text.program = q.executable
       /\ DOMAIN q.proofs = Bootstrap!Owned(q.tool, text)
       /\ \E r \in DOMAIN Below : IsRoot(l, r) /\ q.tool \in Below[r]

LockWhole(l) ==
  /\ \A q \in l.plugins : PluginWhole(l, q)
  /\ ~l.slipped =>
       /\ \E top \in Workflows : IsComposed(l, top)
       /\ l.sources = StatedSources(l)
       /\ {q.identity : q \in l.plugins} = StatedPlugins(l)

EntryText(j, k) == Text[j.stack[k].path][j.stack[k].read]

\* Of the workflows on the stack, each is the preset that the one below it has come to,
\* and the presets before that are left.
StackInv(j) ==
  /\ j.stack \in Seq(Entries)
  /\ j.stack # <<>> => j.stack[1].path = j.workflow
  /\ \A k \in 1..Len(j.stack) :
       /\ j.stack[k].read <= kVersion[j.stack[k].path] /\ EntryText(j, k) # None
       /\ j.stack[k].path \notin DOMAIN j.lock.configuration
       /\ \A n \in 1..Len(j.stack) : j.stack[k].path = j.stack[n].path => k = n
       /\ \A n \in 1..Len(EntryText(j, k).presets) :
            n < j.stack[k].next => EntryText(j, k).presets[n] \in DOMAIN j.lock.configuration
       /\ k < Len(j.stack) => EntryText(j, k).presets[j.stack[k].next] = j.stack[k + 1].path

\* What is left or entered is needed.
Needed(j) ==
  \A set \in SUBSET Workflows :
    /\ j.workflow \in set
    /\ \A w \in set \intersect DOMAIN j.lock.configuration :
         Bootstrap!ToSet(Stated(j.lock, w).presets) \subseteq set
    /\ \A k \in 1..Len(j.stack) :
         j.stack[k].path \in set => Bootstrap!ToSet(EntryText(j, k).presets) \subseteq set
    => j.visited \subseteq set

Gathered(j) ==
  ~j.lock.slipped =>
    /\ j.lock.sources = StatedSources(j.lock) /\ j.selected = StatedPlugins(j.lock)
    /\ \A k \in 1..Len(j.roots) : IsRoot(j.lock, j.roots[k])

ComposingJob(j) ==
  /\ j.workflow \in Workflows /\ j.roots \in Seq(DOMAIN Below)
  /\ j.lock.plugins = {} /\ DOMAIN j.candidates = {} /\ Gathered(j)
  /\ j.visited = DOMAIN j.lock.configuration \union {j.stack[k].path : k \in 1..Len(j.stack)}
  /\ j.stack = <<>> => j.visited = {}
  /\ ~j.lock.slipped =>
       /\ \A w \in DOMAIN j.lock.configuration :
            /\ Stated(j.lock, w) # None
            /\ Bootstrap!ToSet(Stated(j.lock, w).presets) \subseteq DOMAIN j.lock.configuration
       /\ Needed(j)

ComposingInv(p) == kPc[p] = "composing" => StackInv(kJob[p]) /\ ComposingJob(kJob[p])

\* A candidate is a tool below one of the directories, as it was when it was read.
CandidateInv(j, i) ==
  LET from == j.candidates[i] IN
  /\ from.tool \in Tools /\ from.read \in Bootstrap!Versions /\ from.read <= kVersion[from.tool]
  /\ Text[from.tool][from.read] # None /\ Text[from.tool][from.read].identity = i
  /\ \E k \in 1..Len(j.roots) : from.tool \in Below[j.roots[k]]

FoundInv(p) ==
  LET j == kJob[p] IN
  kPc[p] \in {"discovering", "capturing"} =>
    /\ j.roots \in Seq(DOMAIN Below) /\ Gathered(j)
    /\ ~j.lock.slipped => \E top \in Workflows : IsComposed(j.lock, top)
    /\ \A i \in DOMAIN j.candidates : CandidateInv(j, i)
    /\ kPc[p] = "discovering" => j.lock.plugins = {} /\ j.todo \subseteq Bootstrap!Found(j.roots)

\* What is still to be proved of a selected tool is to be done.
CapturingJob(j) ==
  /\ {q.identity : q \in j.lock.plugins} = j.selected
  /\ \A q \in j.lock.plugins :
       LET from == j.candidates[q.identity]
           text == Text[from.tool][from.read]
       IN /\ q.identity \in DOMAIN j.candidates
          /\ q.tool = from.tool /\ q.executable = text.program
          /\ DOMAIN q.proofs \subseteq Bootstrap!Owned(q.tool, text)
          /\ \A f \in Bootstrap!Owned(q.tool, text) : f \in DOMAIN q.proofs \/ <<q.identity, f>> \in j.todo
          /\ ~j.lock.slipped /\ q.tool \in DOMAIN q.proofs => q.proofs[q.tool] = from.read
  /\ \A item \in j.todo : \E q \in j.lock.plugins : \E f \in Bootstrap!Paths :
       /\ item = <<q.identity, f>>
       /\ f \in Bootstrap!Owned(q.tool, Text[q.tool][j.candidates[q.identity].read])

CapturingInv(p) == kPc[p] = "capturing" => CapturingJob(kJob[p])

AllProofs(l) == Bootstrap!ProofsIn(l.configuration) \union UNION {Bootstrap!Proofs(q) : q \in l.plugins}

\* A proof that was compared since the lock was read is of the file as it was then:
\* files do not return to an earlier version.
LoadedInv(p) ==
  LET j == kJob[p] IN
  kPc[p] \in LoadedPhases =>
    /\ LockWhole(j.lock) /\ j.workflow \in DOMAIN j.lock.configuration
    /\ j.began \in [Bootstrap!Paths -> Bootstrap!Versions] /\ \A f \in Bootstrap!Paths : j.began[f] <= kVersion[f]
    /\ \A item \in AllProofs(j.lock) :
         /\ item[2] <= j.began[item[1]]
         /\ kPc[p] # "loading" \/ item \notin j.todo => j.began[item[1]] = item[2]
    /\ \A q \in j.lock.plugins :
         q.identity \in DOMAIN j.loaded =>
           LET read == j.loaded[q.identity] IN
           /\ read \in Bootstrap!Versions /\ q.proofs[q.tool] <= read /\ read <= kVersion[q.tool]
           /\ Text[q.tool][read] # None
    /\ kPc[p] \in LoadedPhases \ {"loading", "opening"} =>
         \A q \in j.lock.plugins : q.identity \in DOMAIN j.loaded
    /\ kPc[p] \in LoadedPhases \ {"loading", "ready"} => j.tool \in j.lock.plugins

\* What a run used was proved before it and not newer than the file; and once its proof
\* is compared again it is what was proved.
RunInv(p) ==
  LET j == kJob[p]
      q == j.tool
  IN
  kPc[p] \in {"running", "rechecking"} =>
    /\ \A f \in DOMAIN j.used :
         /\ f \in Bootstrap!Paths /\ j.used[f] \in Bootstrap!Versions /\ j.used[f] <= kVersion[f]
         /\ f \in {q.executable} \union Bootstrap!Artifacts(p)
         /\ f \in DOMAIN q.proofs => q.proofs[f] <= j.used[f]
    /\ kPc[p] = "rechecking" =>
         \A f \in DOMAIN q.proofs : <<f, q.proofs[f]>> \notin j.todo =>
           /\ f \in DOMAIN j.used => j.used[f] = q.proofs[f]
           /\ f = q.tool => j.loaded[q.identity] = q.proofs[f]

ProcessInv(p) ==
  LockFits(kJob[p].lock) /\ ComposingInv(p) /\ FoundInv(p) /\ CapturingInv(p) /\ LoadedInv(p)
    /\ RunInv(p)

ToolsInv ==
  /\ ToolTypes /\ Bootstrap!AcceptedIsLocked /\ (kSaved # None => LockFits(kSaved) /\ LockWhole(kSaved))
  /\ \A p \in ToolUsers : ProcessInv(p)

LEMMA ToolFacts ==
  ASSUME ToolsInv, NEW p \in ToolUsers
  PROVE  /\ kVersion \in [Bootstrap!Paths -> Bootstrap!Versions] /\ DOMAIN kJob[p] = JobFields
         /\ kPc[p] \in LocalPhasesOfTools /\ kCommands \in 0..MaxToolCommands
         /\ LockFits(kJob[p].lock) /\ ComposingInv(p) /\ FoundInv(p) /\ CapturingInv(p)
         /\ LoadedInv(p) /\ RunInv(p)
BY DEF ToolsInv, ToolTypes, ProcessInv

LEMMA ProcessStays ==
  ASSUME NEW q \in ToolUsers, ProcessInv(q), UNCHANGED kVersion,
         kPc'[q] = kPc[q], kJob'[q] = kJob[q]
  PROVE  ProcessInv(q)'
<1>1. LockFits(kJob[q].lock)'
  BY DEF ProcessInv, LockFits, ProofsFit
<1>2. ComposingInv(q)'
  <2>1. kPc[q] = "composing" => StackInv(kJob[q])'
    BY Zenon DEF ProcessInv, ComposingInv, StackInv
  <2> QED
    BY <2>1 DEF ProcessInv, ComposingInv
<1>3. FoundInv(q)'
  BY DEF ProcessInv, FoundInv, CandidateInv
<1>4. CapturingInv(q)'
  BY Zenon DEF ProcessInv, CapturingInv, CapturingJob
<1>5. LoadedInv(q)'
  BY DEF ProcessInv, LoadedInv
<1>6. RunInv(q)'
  BY Zenon DEF ProcessInv, RunInv, Bootstrap!Artifacts
<1> QED
  BY <1>1, <1>2, <1>3, <1>4, <1>5, <1>6 DEF ProcessInv

LEMMA LockStays ==
  ASSUME NEW l, LockFits(l), LockWhole(l), UNCHANGED kVersion
  PROVE  LockFits(l)' /\ LockWhole(l)'
BY DEF LockFits, ProofsFit, LockWhole, PluginWhole, IsComposed, Stated, StatedSources,
    StatedPlugins, IsRoot, Bootstrap!Owned

\* A step of one process that leaves the files alone.
LEMMA ToolWorks ==
  ASSUME ToolsInv, NEW p \in ToolUsers, UNCHANGED Bootstrap!written, kCommands' \in 0..MaxToolCommands,
         NEW there \in LocalPhasesOfTools, NEW record, Bootstrap!Goes(p, there, record),
         DOMAIN record = JobFields, ProcessInv(p)', Bootstrap!AcceptedIsLocked',
         UNCHANGED kSaved \/ (LockFits(kSaved)' /\ LockWhole(kSaved)')
  PROVE  ToolsInv'
<1>1. ToolTypes'
  <2>1. /\ kPc' \in [ToolUsers -> LocalPhasesOfTools] /\ DOMAIN kJob' = ToolUsers
        /\ \A q \in ToolUsers : DOMAIN kJob'[q] = JobFields
    BY DEF ToolsInv, ToolTypes, Bootstrap!Goes
  <2>2. UNCHANGED <<kVersion, kEdits, Bootstrap!Paths, Bootstrap!Versions>>
    BY DEF Bootstrap!written, Bootstrap!Paths, Bootstrap!Versions
  <2> QED
    BY <2>1, <2>2 DEF ToolsInv, ToolTypes
<1>2. ASSUME NEW q \in ToolUsers
      PROVE  ProcessInv(q)'
  <2>1. CASE q # p
    <3>1. kPc'[q] = kPc[q] /\ kJob'[q] = kJob[q]
      BY <2>1 DEF ToolsInv, ToolTypes, Bootstrap!Goes
    <3> QED
      BY <3>1, ProcessStays DEF ToolsInv, Bootstrap!written
  <2> QED
    BY <2>1
<1>3. kSaved' # None => LockFits(kSaved)' /\ LockWhole(kSaved)'
  <2>1. CASE UNCHANGED kSaved
    <3> SUFFICES ASSUME kSaved # None PROVE LockFits(kSaved)' /\ LockWhole(kSaved)'
      BY <2>1
    <3>1. LockFits(kSaved) /\ LockWhole(kSaved) /\ UNCHANGED kVersion
      BY DEF ToolsInv, Bootstrap!written
    <3> QED
      BY <2>1, <3>1 DEF LockFits, ProofsFit
  <2> QED
    BY <2>1
<1> QED
  BY <1>1, <1>2, <1>3 DEF ToolsInv

LEMMA AcceptedStays ==
  ASSUME Bootstrap!AcceptedIsLocked, UNCHANGED kAccepted
  PROVE  Bootstrap!AcceptedIsLocked'
BY DEF Bootstrap!AcceptedIsLocked

\* What is known of the next record of p is known of p afterwards.
LEMMA Arrived ==
  ASSUME ToolsInv, NEW p \in ToolUsers, NEW there, NEW record, Bootstrap!Goes(p, there, record)
  PROVE  kPc'[p] = there /\ kJob'[p] = record
BY DEF ToolsInv, ToolTypes, Bootstrap!Goes

LEMMA EmptyLockFits == LockFits(Bootstrap!NoLock)' /\ DOMAIN Bootstrap!NoJob = JobFields /\ Bootstrap!NoJob.lock = Bootstrap!NoLock
BY DEF LockFits, Bootstrap!NoLock, Bootstrap!Nothing, LockFields, Bootstrap!NoJob, JobFields

LEMMA FailKeeps ==
  ASSUME ToolsInv, NEW p \in ToolUsers, Bootstrap!Fail(p)
  PROVE  ToolsInv'
<1>1. Bootstrap!Goes(p, "idle", Bootstrap!NoJob) /\ UNCHANGED <<Bootstrap!written, kSaved, kAccepted, kCommands>>
  BY DEF Bootstrap!Fail
<1>2. kPc'[p] = "idle" /\ kJob'[p] = Bootstrap!NoJob
  BY <1>1, Arrived
<1>3. ProcessInv(p)'
  BY <1>2, EmptyLockFits
  DEF ProcessInv, ComposingInv, FoundInv, CapturingInv, LoadedInv, RunInv, LoadedPhases
<1>4. Bootstrap!AcceptedIsLocked' /\ kCommands' \in 0..MaxToolCommands /\ "idle" \in LocalPhasesOfTools
  BY <1>1, ToolFacts, AcceptedStays DEF ToolsInv, LocalPhasesOfTools
<1> QED
  BY <1>1, <1>3, <1>4, EmptyLockFits, ToolWorks

LEMMA ToolSteps ==
  ASSUME ToolsInv, NEW p \in ToolUsers, UNCHANGED <<Bootstrap!written, kSaved, kAccepted>>,
         kCommands' \in 0..MaxToolCommands, NEW there \in LocalPhasesOfTools, NEW record,
         Bootstrap!Goes(p, there, record), DOMAIN record = JobFields,
         kPc'[p] = there /\ kJob'[p] = record => ProcessInv(p)'
  PROVE  ToolsInv'
<1>1. ProcessInv(p)'
  BY Arrived
<1>2. Bootstrap!AcceptedIsLocked'
  BY AcceptedStays DEF ToolsInv
<1> QED
  BY <1>1, <1>2, ToolWorks

\* A step of a process that has loaded a lock and goes on with it.
LEMMA LoadedSteps ==
  ASSUME ToolsInv, NEW p \in ToolUsers, UNCHANGED <<Bootstrap!written, kSaved, kCommands>>,
         NEW there \in LoadedPhases, NEW record, Bootstrap!Goes(p, there, record),
         DOMAIN record = JobFields, record.lock = kJob[p].lock, Bootstrap!AcceptedIsLocked',
         kPc'[p] = there /\ kJob'[p] = record => LoadedInv(p)' /\ RunInv(p)'
  PROVE  ToolsInv'
<1>1. kPc'[p] = there /\ kJob'[p] = record
  BY Arrived
<1>2. LockFits(kJob[p].lock)'
  <2>1. LockFits(kJob[p].lock) /\ UNCHANGED kVersion
    BY ToolFacts DEF Bootstrap!written
  <2> QED
    BY <1>1, <2>1 DEF LockFits, ProofsFit
<1>3. there \notin {"composing", "discovering", "capturing"} /\ there \in LocalPhasesOfTools
  BY DEF LoadedPhases, LocalPhasesOfTools
<1>4. ComposingInv(p)' /\ FoundInv(p)' /\ CapturingInv(p)'
  BY <1>1, <1>3 DEF ComposingInv, FoundInv, CapturingInv
<1>5. ProcessInv(p)'
  BY <1>1, <1>2, <1>4 DEF ProcessInv
<1>6. kCommands' \in 0..MaxToolCommands
  BY ToolFacts
<1> QED
  BY <1>3, <1>5, <1>6, ToolWorks

LEMMA LockBegins ==
  ASSUME ToolsInv, NEW p \in ToolUsers, NEW w \in Workflows, Bootstrap!BeginLock(p, w)
  PROVE  ToolsInv'
<1> DEFINE record == [Bootstrap!NoJob EXCEPT !.workflow = w]
<1>1. /\ Bootstrap!Goes(p, "composing", record) /\ UNCHANGED <<Bootstrap!written, kSaved, kAccepted>>
      /\ kCommands' \in 0..MaxToolCommands
  BY ToolFacts, ToolsAssumption DEF Bootstrap!BeginLock, Bootstrap!Begins
<1>2. /\ DOMAIN record = JobFields /\ record.workflow = w /\ record.lock = Bootstrap!NoLock
      /\ record.stack = <<>> /\ record.visited = {} /\ record.roots = <<>>
      /\ record.selected = {} /\ DOMAIN record.candidates = {}
  BY DEF Bootstrap!NoJob, JobFields, Bootstrap!Nothing
<1>3. ASSUME kPc'[p] = "composing", kJob'[p] = record
      PROVE  ProcessInv(p)'
  <2>1. LockFits(kJob[p].lock)'
    BY <1>2, <1>3, EmptyLockFits
  <2>2. Bootstrap!NoLock.plugins = {} /\ DOMAIN Bootstrap!NoLock.configuration = {} /\ Bootstrap!NoLock.sources = {}
    BY DEF Bootstrap!NoLock, Bootstrap!Nothing
  <2>3. StatedSources(Bootstrap!NoLock) = {} /\ StatedPlugins(Bootstrap!NoLock) = {}
    BY <2>2 DEF StatedSources, StatedPlugins
  <2>4. Len(<<>>) = 0 /\ <<>> \in Seq(Entries) /\ <<>> \in Seq(DOMAIN Below) /\ 1..0 = {}
    BY EmptySeq
  <2>5. StackInv(record)'
    BY <1>2, <2>4 DEF StackInv
  <2>6. Gathered(record) /\ Needed(record)
    BY <1>2, <2>2, <2>3, <2>4 DEF Gathered, Needed
  <2>7. ComposingInv(p)'
    <3> HIDE DEF record
    <3> QED
      BY <1>2, <1>3, <2>2, <2>4, <2>5, <2>6 DEF ComposingInv, ComposingJob
  <2>8. FoundInv(p)' /\ CapturingInv(p)' /\ LoadedInv(p)' /\ RunInv(p)'
    BY <1>3 DEF FoundInv, CapturingInv, LoadedInv, RunInv, LoadedPhases
  <2> QED
    BY <2>1, <2>7, <2>8 DEF ProcessInv
<1>4. "composing" \in LocalPhasesOfTools
  BY DEF LocalPhasesOfTools
<1> HIDE DEF record
<1> QED
  BY <1>1, <1>2, <1>3, <1>4, ToolSteps

LEMMA ProofFacts ==
  ASSUME NEW l, LockFits(l), NEW item \in AllProofs(l)
  PROVE  /\ item[1] \in Bootstrap!Paths /\ item[2] \in Bootstrap!Versions /\ item[2] <= kVersion[item[1]]
         /\ item = <<item[1], item[2]>>
<1>1. CASE item \in Bootstrap!ProofsIn(l.configuration)
  <2>1. PICK w \in DOMAIN l.configuration : item = <<w, l.configuration[w]>>
    BY <1>1 DEF Bootstrap!ProofsIn
  <2>2. w \in Bootstrap!Paths /\ l.configuration[w] \in Bootstrap!Versions /\ l.configuration[w] <= kVersion[w]
    BY DEF LockFits, Bootstrap!Paths
  <2> QED
    BY <2>1, <2>2
<1>2. ASSUME NEW q \in l.plugins, item \in Bootstrap!Proofs(q)
      PROVE  /\ item[1] \in Bootstrap!Paths /\ item[2] \in Bootstrap!Versions /\ item[2] <= kVersion[item[1]]
             /\ item = <<item[1], item[2]>>
  <2>1. PICK f \in DOMAIN q.proofs : item = <<f, q.proofs[f]>>
    BY <1>2 DEF Bootstrap!Proofs, Bootstrap!ProofsIn
  <2>2. f \in Bootstrap!Paths /\ q.proofs[f] \in Bootstrap!Versions /\ q.proofs[f] <= kVersion[f]
    BY DEF LockFits, ProofsFit
  <2> QED
    BY <2>1, <2>2
<1>3. item \in Bootstrap!ProofsIn(l.configuration) \/ \E q \in l.plugins : item \in Bootstrap!Proofs(q)
  BY DEF AllProofs
<1> QED
  BY <1>1, <1>2, <1>3

LEMMA LoadKeeps ==
  ASSUME ToolsInv, NEW p \in ToolUsers, NEW w \in Workflows, Bootstrap!Load(p, w)
  PROVE  ToolsInv'
<1> DEFINE record == [Bootstrap!NoJob EXCEPT !.workflow = w, !.lock = kSaved, !.began = kVersion,
                                   !.todo = AllProofs(kSaved)]
<1>1. /\ Bootstrap!Goes(p, "loading", record) /\ UNCHANGED <<Bootstrap!written, kSaved, kAccepted>>
      /\ kCommands' \in 0..MaxToolCommands /\ kSaved # None /\ w \in DOMAIN kSaved.configuration
  BY ToolFacts, ToolsAssumption DEF Bootstrap!Load, Bootstrap!Begins, AllProofs
<1>2. /\ DOMAIN record = JobFields /\ record.workflow = w /\ record.lock = kSaved
      /\ record.began = kVersion /\ record.todo = AllProofs(kSaved) /\ DOMAIN record.loaded = {}
  BY DEF Bootstrap!NoJob, JobFields, Bootstrap!Nothing
<1>3. LockFits(kSaved) /\ LockWhole(kSaved)
  BY <1>1 DEF ToolsInv
<1>4. ASSUME kPc'[p] = "loading", kJob'[p] = record
      PROVE  ProcessInv(p)'
  <2> HIDE DEF record
  <2>0. UNCHANGED kVersion /\ kVersion \in [Bootstrap!Paths -> Bootstrap!Versions]
    BY <1>1, ToolFacts DEF Bootstrap!written
  <2>1. LockFits(kJob[p].lock)'
    BY <1>2, <1>3, <1>4, <2>0 DEF LockFits, ProofsFit
  <2>2. \A f \in Bootstrap!Paths : kVersion[f] \in Nat
    BY <2>0 DEF Bootstrap!Versions
  <2>3. LoadedInv(p)'
    BY <1>1, <1>2, <1>3, <1>4, <2>0, <2>2, ProofFacts DEF LoadedInv
  <2>4. ComposingInv(p)' /\ FoundInv(p)' /\ CapturingInv(p)' /\ RunInv(p)'
    BY <1>4 DEF ComposingInv, FoundInv, CapturingInv, RunInv
  <2> QED
    BY <2>1, <2>3, <2>4 DEF ProcessInv
<1>5. "loading" \in LocalPhasesOfTools
  BY DEF LocalPhasesOfTools
<1> HIDE DEF record
<1> QED
  BY <1>1, <1>2, <1>4, <1>5, ToolSteps

\* What is left of a job that a lock was loaded for.
LEMMA LoadedFacts ==
  ASSUME ToolsInv, NEW p \in ToolUsers, kPc[p] \in LoadedPhases
  PROVE  /\ DOMAIN kJob[p] = JobFields /\ LoadedInv(p) /\ RunInv(p)
         /\ LockFits(kJob[p].lock) /\ kVersion \in [Bootstrap!Paths -> Bootstrap!Versions]
         /\ \A q \in kJob[p].lock.plugins :
              /\ ProofsFit(q) /\ q.tool \in DOMAIN q.proofs /\ q.executable \in DOMAIN q.proofs
              /\ q.tool \in Tools /\ q.tool \in Bootstrap!Paths
              /\ q.proofs[q.tool] \in Bootstrap!Versions /\ q.proofs[q.tool] <= kVersion[q.tool]
              /\ \A f \in DOMAIN q.proofs : <<f, q.proofs[f]>> \in Bootstrap!Proofs(q)
              /\ Bootstrap!Proofs(q) \subseteq AllProofs(kJob[p].lock)
<1>1. DOMAIN kJob[p] = JobFields /\ LoadedInv(p) /\ RunInv(p) /\ LockFits(kJob[p].lock)
      /\ kVersion \in [Bootstrap!Paths -> Bootstrap!Versions]
  BY ToolFacts
<1>2. ASSUME NEW q \in kJob[p].lock.plugins
      PROVE  /\ ProofsFit(q) /\ q.tool \in DOMAIN q.proofs /\ q.executable \in DOMAIN q.proofs
             /\ q.tool \in Tools /\ q.tool \in Bootstrap!Paths
             /\ q.proofs[q.tool] \in Bootstrap!Versions /\ q.proofs[q.tool] <= kVersion[q.tool]
             /\ \A f \in DOMAIN q.proofs : <<f, q.proofs[f]>> \in Bootstrap!Proofs(q)
             /\ Bootstrap!Proofs(q) \subseteq AllProofs(kJob[p].lock)
  <2>1. ProofsFit(q)
    BY <1>1 DEF LockFits
  <2>2. PluginWhole(kJob[p].lock, q)
    BY <1>1 DEF LoadedInv, LockWhole
  <2>3. \A f \in DOMAIN q.proofs : <<f, q.proofs[f]>> \in Bootstrap!Proofs(q)
    BY DEF Bootstrap!Proofs, Bootstrap!ProofsIn
  <2>4. Bootstrap!Proofs(q) \subseteq AllProofs(kJob[p].lock)
    BY DEF AllProofs
  <2> QED
    BY <2>1, <2>2, <2>3, <2>4 DEF ProofsFit, PluginWhole, Bootstrap!Paths
<1> QED
  BY <1>1, <1>2

LEMMA VerifyKeeps ==
  ASSUME ToolsInv, NEW p \in ToolUsers, Bootstrap!Verify(p)
  PROVE  ToolsInv'
<1> DEFINE j == kJob[p]
<1>0. kPc[p] \in LoadedPhases /\ UNCHANGED <<Bootstrap!written, kSaved, kAccepted, kCommands>>
  BY DEF Bootstrap!Verify, Bootstrap!Verifying, LoadedPhases
<1>f. DOMAIN j = JobFields /\ LoadedInv(p) /\ RunInv(p) /\ LockFits(j.lock)
  BY <1>0, LoadedFacts
<1>1. PICK item \in j.todo :
        kVersion[item[1]] = item[2] /\ Bootstrap!Goes(p, kPc[p], [j EXCEPT !.todo = @ \ {item}])
  BY DEF Bootstrap!Verify
<1> DEFINE record == [j EXCEPT !.todo = @ \ {item}]
<1>2. /\ DOMAIN record = JobFields /\ record.todo = j.todo \ {item}
      /\ \A x \in JobFields \ {"todo"} : record[x] = j[x]
  BY <1>f DEF JobFields
<1> HIDE DEF record
<1>3. /\ record.lock = j.lock /\ record.workflow = j.workflow /\ record.began = j.began
      /\ record.loaded = j.loaded /\ record.tool = j.tool /\ record.used = j.used
  BY <1>2 DEF JobFields
<1>4. ASSUME kPc'[p] = kPc[p], kJob'[p] = record
      PROVE  LoadedInv(p)' /\ RunInv(p)'
  <2>1. UNCHANGED kVersion
    BY <1>0 DEF Bootstrap!written
  <2>2. item \in AllProofs(j.lock) => item[2] >= j.began[item[1]] /\ j.began[item[1]] >= item[2]
    BY <1>0, <1>1, <1>f, ProofFacts DEF LoadedInv
  <2>3. item \in AllProofs(j.lock) => item[2] = j.began[item[1]]
    <3>1. item \in AllProofs(j.lock) => item[2] \in Nat /\ j.began[item[1]] \in Nat
      BY <1>0, <1>f, ProofFacts DEF LoadedInv, Bootstrap!Versions
    <3> QED
      BY <2>2, <3>1
  <2>4. LoadedInv(p)'
    BY <1>0, <1>2, <1>3, <1>4, <1>f, <2>1, <2>3 DEF LoadedInv
  <2>5. RunInv(p)'
    <3> SUFFICES ASSUME kPc[p] \in {"running", "rechecking"} PROVE RunInv(p)'
      BY <1>4 DEF RunInv
    <3> DEFINE q == j.tool
    <3>1. q \in j.lock.plugins /\ q.identity \in DOMAIN j.loaded
      BY <1>0, <1>f DEF LoadedInv, LoadedPhases
    <3>2. ProofsFit(q) /\ q.tool \in DOMAIN q.proofs
      BY <1>0, <3>1, LoadedFacts
    <3>3. ASSUME NEW f \in DOMAIN q.proofs, item = <<f, q.proofs[f]>>
          PROVE  /\ f \in DOMAIN j.used => j.used[f] = q.proofs[f]
                 /\ f = q.tool => j.loaded[q.identity] = q.proofs[f]
      <4>1. kVersion[f] = q.proofs[f] /\ q.proofs[f] \in Nat
        BY <1>1, <3>2, <3>3 DEF ProofsFit, Bootstrap!Versions
      <4>2. f \in DOMAIN j.used => j.used[f] <= kVersion[f] /\ q.proofs[f] <= j.used[f]
                                   /\ j.used[f] \in Nat
        BY <1>f DEF RunInv, Bootstrap!Versions
      <4>3. f = q.tool => /\ j.loaded[q.identity] <= kVersion[f] /\ q.proofs[f] <= j.loaded[q.identity]
                          /\ j.loaded[q.identity] \in Nat
        BY <1>0, <1>f, <3>1 DEF LoadedInv, Bootstrap!Versions
      <4> QED
        BY <4>1, <4>2, <4>3
    <3>4. Bootstrap!Artifacts(p)' = Bootstrap!Artifacts(p)
      BY <1>3, <1>4 DEF Bootstrap!Artifacts
    <3> HIDE DEF q
    <3>5. q = kJob'[p].tool
      BY <1>3, <1>4 DEF q
    <3> QED
      BY <1>2, <1>3, <1>4, <1>f, <2>1, <3>3, <3>4, <3>5 DEF RunInv, q
  <2> QED
    BY <2>4, <2>5
<1> QED
  BY <1>0, <1>1, <1>2, <1>3, <1>4, AcceptedStays, LoadedSteps DEF record, ToolsInv

\* A step of a process that goes on to compare the proofs of one of its tools.
LEMMA ChecksTool ==
  ASSUME ToolsInv, NEW p \in ToolUsers, NEW q \in kJob[p].lock.plugins,
         UNCHANGED <<Bootstrap!written, kSaved, kAccepted, kCommands>>,
         NEW there \in {"opening", "checking"}, there = "opening" => kPc[p] = "loading" /\ kJob[p].todo = {},
         there = "checking" => kPc[p] = "ready",
         Bootstrap!Goes(p, there, [kJob[p] EXCEPT !.tool = q, !.todo = Bootstrap!Proofs(q)])
  PROVE  ToolsInv'
<1> DEFINE j == kJob[p]
<1> DEFINE record == [j EXCEPT !.tool = q, !.todo = Bootstrap!Proofs(q)]
<1>0. kPc[p] \in LoadedPhases /\ there \in LoadedPhases
  BY DEF LoadedPhases
<1>f. DOMAIN j = JobFields /\ LoadedInv(p) /\ LockFits(j.lock)
  BY <1>0, LoadedFacts
<1>2. /\ DOMAIN record = JobFields /\ record.tool = q
      /\ \A x \in JobFields \ {"todo", "tool"} : record[x] = j[x]
  BY <1>f DEF JobFields
<1> HIDE DEF record
<1>3. /\ record.lock = j.lock /\ record.workflow = j.workflow /\ record.began = j.began
      /\ record.loaded = j.loaded
  BY <1>2 DEF JobFields
<1>4. ASSUME kPc'[p] = there, kJob'[p] = record
      PROVE  LoadedInv(p)' /\ RunInv(p)'
  <2>1. UNCHANGED kVersion
    BY DEF Bootstrap!written
  <2>2. kPc[p] \in LoadedPhases \ {"loading", "opening"} \/ there = "opening"
    BY DEF LoadedPhases
  <2>3. LoadedInv(p)'
    BY <1>0, <1>2, <1>3, <1>4, <1>f, <2>1, <2>2 DEF LoadedInv
  <2> QED
    BY <1>4, <2>3 DEF RunInv
<1> QED
  BY <1>0, <1>2, <1>3, <1>4, AcceptedStays, LoadedSteps DEF record, ToolsInv

LEMMA OpenKeeps ==
  ASSUME ToolsInv, NEW p \in ToolUsers, Bootstrap!Open(p) \/ Bootstrap!StartStep(p)
  PROVE  ToolsInv'
<1>1. CASE Bootstrap!Open(p)
  <2>1. PICK q \in kJob[p].lock.plugins :
          /\ kPc[p] = "loading" /\ kJob[p].todo = {}
          /\ Bootstrap!Goes(p, "opening", [kJob[p] EXCEPT !.tool = q, !.todo = Bootstrap!Proofs(q)])
          /\ UNCHANGED <<Bootstrap!written, kSaved, kAccepted, kCommands>>
    BY <1>1, Zenon DEF Bootstrap!Open, Bootstrap!Verified
  <2> QED
    BY <2>1, ChecksTool, Zenon
<1>2. CASE Bootstrap!StartStep(p)
  <2>1. PICK q \in kJob[p].lock.plugins :
          /\ kPc[p] = "ready" /\ Bootstrap!Goes(p, "checking", [kJob[p] EXCEPT !.tool = q, !.todo = Bootstrap!Proofs(q)])
          /\ UNCHANGED <<Bootstrap!written, kSaved, kAccepted, kCommands>>
    BY <1>2, Zenon DEF Bootstrap!StartStep
  <2> QED
    BY <2>1, ChecksTool, Zenon
<1> QED
  BY <1>1, <1>2

\* A tool that has loaded what its lock proves stays so when no version is forgotten.
LEMMA ReadManifestKeeps ==
  ASSUME ToolsInv, NEW p \in ToolUsers, Bootstrap!ReadManifest(p)
  PROVE  ToolsInv'
<1> DEFINE j == kJob[p]
<1> DEFINE q == j.tool
<1>0. /\ kPc[p] = "opening" /\ kPc[p] \in LoadedPhases /\ "loading" \in LoadedPhases
      /\ UNCHANGED <<Bootstrap!written, kSaved, kAccepted, kCommands>>
      /\ Text[q.tool][kVersion[q.tool]] # None
      /\ Bootstrap!Goes(p, "loading", [j EXCEPT !.loaded = Bootstrap!With(@, q.identity, kVersion[q.tool])])
  BY DEF Bootstrap!ReadManifest, Bootstrap!Verified, Bootstrap!Says, LoadedPhases
<1>f. DOMAIN j = JobFields /\ LoadedInv(p) /\ LockFits(j.lock) /\ q \in j.lock.plugins
  BY <1>0, LoadedFacts DEF LoadedInv
<1> DEFINE loaded == Bootstrap!With(j.loaded, q.identity, kVersion[q.tool])
<1> DEFINE record == [j EXCEPT !.loaded = Bootstrap!With(@, q.identity, kVersion[q.tool])]
<1>2. /\ DOMAIN record = JobFields /\ record.loaded = loaded
      /\ \A x \in JobFields \ {"loaded"} : record[x] = j[x]
  BY <1>f DEF JobFields
<1>l. /\ q.identity \in DOMAIN loaded /\ loaded[q.identity] = kVersion[q.tool]
      /\ \A i : i # q.identity =>
           (i \in DOMAIN loaded <=> i \in DOMAIN j.loaded)
           /\ (i \in DOMAIN loaded => loaded[i] = j.loaded[i])
  BY DEF Bootstrap!With
<1> HIDE DEF record, loaded, q
<1>3. /\ record.lock = j.lock /\ record.workflow = j.workflow /\ record.began = j.began
      /\ record.todo = j.todo
  BY <1>2 DEF JobFields
<1>4. ASSUME kPc'[p] = "loading", kJob'[p] = record
      PROVE  LoadedInv(p)' /\ RunInv(p)'
  <2>1. UNCHANGED kVersion
    BY <1>0 DEF Bootstrap!written
  <2>2. ASSUME NEW r \in j.lock.plugins, r.identity \in DOMAIN loaded
        PROVE  /\ loaded[r.identity] \in Bootstrap!Versions /\ r.proofs[r.tool] <= loaded[r.identity]
               /\ loaded[r.identity] <= kVersion[r.tool] /\ Text[r.tool][loaded[r.identity]] # None
    <3>1. CASE r.identity = q.identity
      <4>1. r = q
        BY <1>f, <3>1 DEF LockFits
      <4>2. kVersion[q.tool] \in Bootstrap!Versions /\ q.proofs[q.tool] <= kVersion[q.tool]
        BY <1>0, <1>f, LoadedFacts
      <4> QED
        BY <1>0, <1>l, <4>1, <4>2 DEF Bootstrap!Versions
    <3>2. CASE r.identity # q.identity
      BY <1>0, <1>f, <1>l, <2>2, <3>2 DEF LoadedInv
    <3> QED
      BY <3>1, <3>2
  <2>3. \A item \in AllProofs(j.lock) : item[2] <= j.began[item[1]] /\ j.began[item[1]] = item[2]
    BY <1>0, <1>f DEF LoadedInv
  <2>4. LoadedInv(p)'
    BY <1>2, <1>3, <1>4, <1>0, <1>f, <2>1, <2>2, <2>3 DEF LoadedInv
  <2> QED
    BY <1>4, <2>4 DEF RunInv
<1> QED
  BY <1>0, <1>2, <1>3, <1>4, AcceptedStays, LoadedSteps DEF record, q, ToolsInv

LEMMA ReadyKeeps ==
  ASSUME ToolsInv, NEW p \in ToolUsers, Bootstrap!Ready(p)
  PROVE  ToolsInv'
<1> DEFINE j == kJob[p]
<1>0. /\ kPc[p] = "loading" /\ kPc[p] \in LoadedPhases /\ "ready" \in LoadedPhases /\ j.todo = {}
      /\ UNCHANGED <<Bootstrap!written, kSaved, kAccepted, kCommands>>
      /\ DOMAIN j.loaded = {q.identity : q \in j.lock.plugins} /\ Bootstrap!Goes(p, "ready", j)
  BY DEF Bootstrap!Ready, Bootstrap!Verified, LoadedPhases
<1>f. DOMAIN j = JobFields /\ LoadedInv(p)
  BY <1>0, LoadedFacts
<1>1. \A q \in j.lock.plugins : q.identity \in DOMAIN j.loaded
  BY <1>0
<1>2. ASSUME kPc'[p] = "ready", kJob'[p] = j
      PROVE  LoadedInv(p)' /\ RunInv(p)'
  <2>1. UNCHANGED kVersion
    BY <1>0 DEF Bootstrap!written
  <2> QED
    BY <1>0, <1>1, <1>2, <1>f, <2>1 DEF LoadedInv, RunInv
<1> QED
  BY <1>0, <1>2, <1>f, AcceptedStays, LoadedSteps DEF ToolsInv

\* A process that runs a tool, or goes back to where it may run one, keeps what it has
\* loaded.
LEMMA LoadedGoesOn ==
  ASSUME ToolsInv, NEW p \in ToolUsers, kPc[p] \in {"checking", "running", "rechecking"},
         NEW there \in {"running", "rechecking", "ready"}, NEW record,
         UNCHANGED <<Bootstrap!written, kSaved, kCommands>>, Bootstrap!Goes(p, there, record),
         DOMAIN record = JobFields,
         \A x \in JobFields \ {"todo", "used", "tool"} : record[x] = kJob[p][x],
         there # "ready" => record.tool = kJob[p].tool,
         Bootstrap!AcceptedIsLocked', kPc'[p] = there /\ kJob'[p] = record => RunInv(p)'
  PROVE  ToolsInv'
<1>0. kPc[p] \in LoadedPhases \ {"loading", "opening", "ready"} /\ there \in LoadedPhases
  BY DEF LoadedPhases
<1>1. LoadedInv(p)
  BY <1>0, LoadedFacts
<1>2. /\ record.lock = kJob[p].lock /\ record.workflow = kJob[p].workflow
      /\ record.began = kJob[p].began /\ record.loaded = kJob[p].loaded
  BY DEF JobFields
<1>3. ASSUME kPc'[p] = there, kJob'[p] = record
      PROVE  LoadedInv(p)'
  <2>1. UNCHANGED kVersion
    BY DEF Bootstrap!written
  <2> QED
    BY <1>0, <1>1, <1>2, <1>3, <2>1 DEF LoadedInv
<1> QED
  BY <1>0, <1>2, <1>3, LoadedSteps

LEMMA SpawnKeeps ==
  ASSUME ToolsInv, NEW p \in ToolUsers, Bootstrap!Spawn(p)
  PROVE  ToolsInv'
<1> DEFINE j == kJob[p]
<1> DEFINE q == j.tool
<1> DEFINE used == Bootstrap!With(Bootstrap!Nothing, q.executable, kVersion[q.executable])
<1> DEFINE record == [j EXCEPT !.used = used]
<1>0. /\ kPc[p] = "checking" /\ kPc[p] \in LoadedPhases
      /\ UNCHANGED <<Bootstrap!written, kSaved, kAccepted, kCommands>> /\ Bootstrap!Goes(p, "running", record)
  BY DEF Bootstrap!Spawn, Bootstrap!Verified, LoadedPhases
<1>f. DOMAIN j = JobFields /\ q \in j.lock.plugins /\ kVersion \in [Bootstrap!Paths -> Bootstrap!Versions]
  BY <1>0, LoadedFacts DEF LoadedInv
<1>1. q.executable \in DOMAIN q.proofs /\ ProofsFit(q)
  BY <1>0, <1>f, LoadedFacts
<1>2. /\ DOMAIN record = JobFields /\ record.used = used
      /\ \A x \in JobFields \ {"used"} : record[x] = j[x]
  BY <1>f DEF JobFields
<1>3. DOMAIN used = {q.executable} /\ used[q.executable] = kVersion[q.executable]
  BY DEF Bootstrap!With, Bootstrap!Nothing
<1>t. record.tool = q
  BY <1>2 DEF JobFields
<1> HIDE DEF record, used
<1>4. ASSUME kPc'[p] = "running", kJob'[p] = record
      PROVE  RunInv(p)'
  <2>1. UNCHANGED kVersion
    BY <1>0 DEF Bootstrap!written
  <2>2. kVersion[q.executable] \in Bootstrap!Versions /\ kVersion[q.executable] <= kVersion[q.executable]
        /\ q.executable \in Bootstrap!Paths /\ q.proofs[q.executable] <= kVersion[q.executable]
    BY <1>1, <1>f DEF ProofsFit, Bootstrap!Versions
  <2> HIDE DEF q
  <2> QED
    BY <1>2, <1>3, <1>4, <1>t, <2>1, <2>2 DEF RunInv
<1> QED
  BY <1>0, <1>2, <1>4, <1>t, AcceptedStays, LoadedGoesOn DEF ToolsInv

LEMMA UseArtifactKeeps ==
  ASSUME ToolsInv, NEW p \in ToolUsers, Bootstrap!UseArtifact(p)
  PROVE  ToolsInv'
<1> DEFINE j == kJob[p]
<1> DEFINE q == j.tool
<1>0. /\ kPc[p] = "running" /\ kPc[p] \in LoadedPhases \ {"loading", "opening", "ready"}
      /\ UNCHANGED <<Bootstrap!written, kSaved, kAccepted, kCommands>>
  BY DEF Bootstrap!UseArtifact, LoadedPhases
<1>1. PICK f \in Bootstrap!Artifacts(p) \ DOMAIN j.used :
        Bootstrap!Goes(p, "running", [j EXCEPT !.used = Bootstrap!With(@, f, kVersion[f])])
  BY DEF Bootstrap!UseArtifact
<1> DEFINE used == Bootstrap!With(j.used, f, kVersion[f])
<1> DEFINE record == [j EXCEPT !.used = used]
<1>f. DOMAIN j = JobFields /\ LoadedInv(p) /\ RunInv(p) /\ kVersion \in [Bootstrap!Paths -> Bootstrap!Versions]
  BY <1>0, LoadedFacts
<1>q. /\ q \in j.lock.plugins /\ q.identity \in DOMAIN j.loaded /\ q.tool \in Tools
      /\ ProofsFit(q)
  BY <1>0, <1>f, LoadedFacts DEF LoadedInv
<1>2. f \in Bootstrap!Paths
  <2>1. j.loaded[q.identity] \in Bootstrap!Versions /\ Text[q.tool][j.loaded[q.identity]] # None
    BY <1>0, <1>f, <1>q DEF LoadedInv
  <2>2. Text[q.tool][j.loaded[q.identity]].artifacts \subseteq ToolFiles
    BY <1>q, <2>1, ToolsAssumption, Zenon
  <2> QED
    BY <2>2 DEF Bootstrap!Artifacts, Bootstrap!Paths
<1>3. /\ DOMAIN record = JobFields /\ record.used = used
      /\ \A x \in JobFields \ {"used"} : record[x] = j[x]
  BY <1>f DEF JobFields
<1>4. /\ DOMAIN used = DOMAIN j.used \union {f} /\ used[f] = kVersion[f]
      /\ \A g \in DOMAIN j.used : used[g] = j.used[g]
  BY DEF Bootstrap!With
<1>t. record.tool = q /\ record.lock = j.lock /\ record.loaded = j.loaded
  BY <1>3 DEF JobFields
<1>g. Bootstrap!Goes(p, "running", record)
  BY <1>1
<1> HIDE DEF record, used
<1>5. ASSUME kPc'[p] = "running", kJob'[p] = record
      PROVE  RunInv(p)'
  <2>1. UNCHANGED kVersion
    BY <1>0 DEF Bootstrap!written
  <2>2. Bootstrap!Artifacts(p)' = Bootstrap!Artifacts(p)
    BY <1>t, <1>5 DEF Bootstrap!Artifacts
  <2>3. kVersion[f] \in Bootstrap!Versions /\ kVersion[f] <= kVersion[f]
        /\ (f \in DOMAIN q.proofs => q.proofs[f] <= kVersion[f])
    BY <1>2, <1>f, <1>q DEF ProofsFit, Bootstrap!Versions
  <2>4. /\ \A g \in DOMAIN j.used :
             /\ g \in Bootstrap!Paths /\ j.used[g] \in Bootstrap!Versions /\ j.used[g] <= kVersion[g]
             /\ g \in {q.executable} \union Bootstrap!Artifacts(p)
             /\ g \in DOMAIN q.proofs => q.proofs[g] <= j.used[g]
    BY <1>0, <1>f DEF RunInv
  <2> HIDE DEF q
  <2> QED
    BY <1>1, <1>2, <1>4, <1>3, <1>5, <1>t, <2>1, <2>2, <2>3, <2>4 DEF RunInv
<1> QED
  BY <1>0, <1>3, <1>5, <1>t, <1>g, AcceptedStays, LoadedGoesOn DEF ToolsInv

LEMMA FinishKeeps ==
  ASSUME ToolsInv, NEW p \in ToolUsers, Bootstrap!Finish(p)
  PROVE  ToolsInv'
<1> DEFINE j == kJob[p]
<1> DEFINE q == j.tool
<1> DEFINE record == [j EXCEPT !.todo = Bootstrap!Proofs(q)]
<1>0. /\ kPc[p] = "running" /\ kPc[p] \in LoadedPhases \ {"loading", "opening", "ready"}
      /\ UNCHANGED <<Bootstrap!written, kSaved, kAccepted, kCommands>> /\ Bootstrap!Goes(p, "rechecking", record)
  BY DEF Bootstrap!Finish, LoadedPhases
<1>f. DOMAIN j = JobFields /\ RunInv(p) /\ LoadedInv(p)
  BY <1>0, LoadedFacts
<1>1. \A f \in DOMAIN q.proofs : <<f, q.proofs[f]>> \in Bootstrap!Proofs(q)
  BY <1>0, <1>f, LoadedFacts DEF LoadedInv
<1>2. /\ DOMAIN record = JobFields /\ record.todo = Bootstrap!Proofs(q)
      /\ \A x \in JobFields \ {"todo"} : record[x] = j[x]
  BY <1>f DEF JobFields
<1>t. record.tool = q /\ record.lock = j.lock /\ record.loaded = j.loaded /\ record.used = j.used
  BY <1>2 DEF JobFields
<1> HIDE DEF record
<1>3. ASSUME kPc'[p] = "rechecking", kJob'[p] = record
      PROVE  RunInv(p)'
  <2>1. UNCHANGED kVersion
    BY <1>0 DEF Bootstrap!written
  <2>2. Bootstrap!Artifacts(p)' = Bootstrap!Artifacts(p)
    BY <1>t, <1>3 DEF Bootstrap!Artifacts
  <2>4. /\ \A g \in DOMAIN j.used :
             /\ g \in Bootstrap!Paths /\ j.used[g] \in Bootstrap!Versions /\ j.used[g] <= kVersion[g]
             /\ g \in {q.executable} \union Bootstrap!Artifacts(p)
             /\ g \in DOMAIN q.proofs => q.proofs[g] <= j.used[g]
    BY <1>0, <1>f DEF RunInv
  <2> HIDE DEF q
  <2> QED
    BY <1>1, <1>2, <1>3, <1>t, <2>1, <2>2, <2>4 DEF RunInv
<1> QED
  BY <1>0, <1>2, <1>3, <1>t, AcceptedStays, LoadedGoesOn DEF ToolsInv

LEMMA StepFailsKeeps ==
  ASSUME ToolsInv, NEW p \in ToolUsers, Bootstrap!StepFails(p)
  PROVE  ToolsInv'
<1> DEFINE record == [kJob[p] EXCEPT !.tool = None, !.used = Bootstrap!Nothing, !.todo = {}]
<1>0. /\ kPc[p] \in {"checking", "running", "rechecking"} /\ kPc[p] \in LoadedPhases
      /\ UNCHANGED <<Bootstrap!written, kSaved, kAccepted, kCommands>> /\ Bootstrap!Goes(p, "ready", record)
  BY DEF Bootstrap!StepFails, LoadedPhases
<1>1. DOMAIN kJob[p] = JobFields
  BY ToolFacts
<1>2. DOMAIN record = JobFields /\ \A x \in JobFields \ {"todo", "used", "tool"} : record[x] = kJob[p][x]
  BY <1>1 DEF JobFields
<1>3. kPc'[p] = "ready" => RunInv(p)'
  BY DEF RunInv
<1> HIDE DEF record
<1> QED
  BY <1>0, <1>2, <1>3, AcceptedStays, LoadedGoesOn DEF ToolsInv

LEMMA AcceptKeeps ==
  ASSUME ToolsInv, NEW p \in ToolUsers, Bootstrap!Accept(p)
  PROVE  ToolsInv'
<1> DEFINE j == kJob[p]
<1> DEFINE q == j.tool
<1> DEFINE record == [j EXCEPT !.tool = None, !.used = Bootstrap!Nothing]
<1>0. /\ kPc[p] = "rechecking" /\ kPc[p] \in LoadedPhases \ {"loading", "opening", "ready"}
      /\ j.todo = {} /\ UNCHANGED <<Bootstrap!written, kSaved, kCommands>> /\ Bootstrap!Goes(p, "ready", record)
      /\ kAccepted' = [plugin |-> q, slipped |-> j.lock.slipped,
                      manifest |-> j.loaded[q.identity], used |-> j.used]
  BY DEF Bootstrap!Accept, Bootstrap!Verified, LoadedPhases
<1>f. DOMAIN j = JobFields /\ RunInv(p) /\ LoadedInv(p) /\ LockFits(j.lock)
  BY <1>0, LoadedFacts
<1>q. q \in j.lock.plugins /\ ProofsFit(q) /\ PluginWhole(j.lock, q) /\ j.lock.slipped \in BOOLEAN
  BY <1>0, <1>f, LoadedFacts DEF LoadedInv, LockWhole, LockFits
<1>1. /\ q.tool \in DOMAIN q.proofs /\ j.loaded[q.identity] = q.proofs[q.tool]
      /\ \A f \in DOMAIN q.proofs : f \in DOMAIN j.used => j.used[f] = q.proofs[f]
  BY <1>0, <1>f, <1>q, Zenon DEF RunInv, PluginWhole
<1>2. \A f \in DOMAIN j.used : f \in DOMAIN q.proofs \/ j.lock.slipped
  <2> SUFFICES ASSUME NEW f \in DOMAIN j.used, ~j.lock.slipped
               PROVE  f \in DOMAIN q.proofs
    BY <1>q
  <2>1. f \in {q.executable} \union Bootstrap!Artifacts(p)
    BY <1>0, <1>f DEF RunInv
  <2>2. Bootstrap!Artifacts(p) = Text[q.tool][q.proofs[q.tool]].artifacts
    BY <1>1 DEF Bootstrap!Artifacts
  <2> QED
    BY <1>q, <2>1, <2>2, Zenon DEF PluginWhole, Bootstrap!Owned
<1>3. Bootstrap!AcceptedIsLocked'
  <2> HIDE DEF q, j
  <2> QED
    BY <1>0, <1>1, <1>2 DEF Bootstrap!AcceptedIsLocked
<1>4. DOMAIN record = JobFields /\ \A x \in JobFields \ {"todo", "used", "tool"} : record[x] = j[x]
  BY <1>f DEF JobFields
<1>5. kPc'[p] = "ready" => RunInv(p)'
  BY DEF RunInv
<1> HIDE DEF record
<1> QED
  BY <1>0, <1>3, <1>4, <1>5, LoadedGoesOn

\* An edit makes a file newer than all that was read and proved of it.
LEMMA Newer ==
  ASSUME kVersion \in [Bootstrap!Paths -> Bootstrap!Versions], kVersion' \in [Bootstrap!Paths -> Bootstrap!Versions],
         \A f \in Bootstrap!Paths : kVersion[f] <= kVersion'[f],
         NEW f \in Bootstrap!Paths, NEW v \in Bootstrap!Versions, v <= kVersion[f]
  PROVE  v <= kVersion'[f]
<1>1. kVersion[f] \in Nat /\ kVersion'[f] \in Nat /\ v \in Nat
  BY DEF Bootstrap!Versions
<1> QED
  BY <1>1

LEMMA LockNewer ==
  ASSUME kVersion \in [Bootstrap!Paths -> Bootstrap!Versions], kVersion' \in [Bootstrap!Paths -> Bootstrap!Versions],
         \A f \in Bootstrap!Paths : kVersion[f] <= kVersion'[f],
         NEW l, LockFits(l)
  PROVE  /\ \A w \in DOMAIN l.configuration :
              l.configuration[w] \in Bootstrap!Versions /\ l.configuration[w] <= kVersion'[w]
         /\ \A q \in l.plugins : \A f \in DOMAIN q.proofs : q.proofs[f] <= kVersion'[f]
<1>1. ASSUME NEW w \in DOMAIN l.configuration
      PROVE  l.configuration[w] \in Bootstrap!Versions /\ l.configuration[w] <= kVersion'[w]
  <2>1. w \in Bootstrap!Paths /\ l.configuration[w] \in Bootstrap!Versions /\ l.configuration[w] <= kVersion[w]
    BY DEF LockFits, Bootstrap!Paths
  <2> QED
    BY <2>1, Newer
<1>2. ASSUME NEW q \in l.plugins, NEW f \in DOMAIN q.proofs
      PROVE  q.proofs[f] <= kVersion'[f]
  <2>1. f \in Bootstrap!Paths /\ q.proofs[f] \in Bootstrap!Versions /\ q.proofs[f] <= kVersion[f]
    BY DEF LockFits, ProofsFit
  <2> QED
    BY <2>1, Newer
<1> QED
  BY <1>1, <1>2

LEMMA ProcessNewer ==
  ASSUME ToolsInv, kVersion' \in [Bootstrap!Paths -> Bootstrap!Versions],
         \A f \in Bootstrap!Paths : kVersion[f] <= kVersion'[f],
         UNCHANGED <<kPc, kJob>>, NEW p \in ToolUsers
  PROVE  ProcessInv(p)'
<1> DEFINE j == kJob[p]
<1>0. kVersion \in [Bootstrap!Paths -> Bootstrap!Versions] /\ ProcessInv(p) /\ UNCHANGED <<kPc[p], j>>
  BY ToolFacts DEF ToolsInv
<1>1. LockFits(j.lock)'
  <2>1. LockFits(j.lock) /\ UNCHANGED j.lock
    BY <1>0 DEF ProcessInv
  <2> HIDE DEF j
  <2> QED
    BY <1>0, <2>1, LockNewer DEF LockFits, ProofsFit
<1>2. ComposingInv(p)'
  <2> SUFFICES ASSUME kPc[p] = "composing" PROVE ComposingInv(p)'
    BY <1>0 DEF ComposingInv, ComposingJob
  <2>1. StackInv(j)
    BY <1>0 DEF ProcessInv, ComposingInv, ComposingJob
  <2>2. ASSUME NEW k \in 1..Len(j.stack)
        PROVE  j.stack[k].read <= kVersion'[j.stack[k].path]
    <3>1. j.stack[k] \in Entries /\ j.stack[k].read <= kVersion[j.stack[k].path]
      BY <2>1, ElementOfSeq DEF StackInv
    <3> QED
      BY <1>0, <3>1, Newer DEF Entries, Bootstrap!Paths
  <2>3. StackInv(j)'
    BY <1>0, <2>1, <2>2 DEF StackInv
  <2> QED
    BY <1>0, <2>3 DEF ProcessInv, ComposingInv, ComposingJob
<1>3. FoundInv(p)'
  <2> SUFFICES ASSUME kPc[p] \in {"discovering", "capturing"} PROVE FoundInv(p)'
    BY <1>0 DEF FoundInv
  <2>1. ASSUME NEW i \in DOMAIN j.candidates
        PROVE  CandidateInv(j, i)'
    <3>1. CandidateInv(j, i)
      BY <1>0 DEF ProcessInv, FoundInv
    <3>2. j.candidates[i].read <= kVersion'[j.candidates[i].tool]
      BY <1>0, <3>1, Newer DEF CandidateInv, Bootstrap!Paths
    <3> QED
      BY <1>0, <3>1, <3>2 DEF CandidateInv
  <2> QED
    BY <1>0, <2>1 DEF ProcessInv, FoundInv
<1>4. CapturingInv(p)'
  BY <1>0, Zenon DEF ProcessInv, CapturingInv, CapturingJob
<1>5. LoadedInv(p)'
  <2> SUFFICES ASSUME kPc[p] \in LoadedPhases PROVE LoadedInv(p)'
    BY <1>0 DEF LoadedInv
  <2>1. \A f \in Bootstrap!Paths : j.began[f] <= kVersion'[f]
    <3> SUFFICES ASSUME NEW f \in Bootstrap!Paths PROVE j.began[f] <= kVersion'[f]
      OBVIOUS
    <3>1. j.began[f] \in Bootstrap!Versions /\ j.began[f] <= kVersion[f]
      BY <1>0 DEF ProcessInv, LoadedInv
    <3> QED
      BY <1>0, <3>1, Newer
  <2>2. ASSUME NEW q \in j.lock.plugins, q.identity \in DOMAIN j.loaded
        PROVE  j.loaded[q.identity] <= kVersion'[q.tool]
    <3>1. j.loaded[q.identity] \in Bootstrap!Versions /\ j.loaded[q.identity] <= kVersion[q.tool]
      BY <1>0, <2>2 DEF ProcessInv, LoadedInv
    <3>2. q.tool \in Bootstrap!Paths
      BY LoadedFacts
    <3> QED
      BY <1>0, <3>1, <3>2, Newer
  <2> QED
    BY <1>0, <2>1, <2>2 DEF ProcessInv, LoadedInv
<1>6. RunInv(p)'
  <2> SUFFICES ASSUME kPc[p] \in {"running", "rechecking"} PROVE RunInv(p)'
    BY <1>0 DEF RunInv
  <2>1. ASSUME NEW f \in DOMAIN j.used
        PROVE  j.used[f] <= kVersion'[f]
    <3>1. f \in Bootstrap!Paths /\ j.used[f] \in Bootstrap!Versions /\ j.used[f] <= kVersion[f]
      BY <1>0 DEF ProcessInv, RunInv
    <3> QED
      BY <1>0, <3>1, Newer
  <2>2. UNCHANGED Bootstrap!Artifacts(p)
    BY <1>0 DEF Bootstrap!Artifacts
  <2> QED
    BY <1>0, <2>1, <2>2 DEF ProcessInv, RunInv
<1> QED
  BY <1>1, <1>2, <1>3, <1>4, <1>5, <1>6 DEF ProcessInv

LEMMA EditKeeps ==
  ASSUME ToolsInv, NEW f \in Bootstrap!Paths, Bootstrap!Edit(f)
  PROVE  ToolsInv'
<1>0. /\ kVersion' = [kVersion EXCEPT ![f] = kVersion[f] + 1] /\ kEdits' = kEdits + 1
      /\ kEdits < MaxToolEdits /\ UNCHANGED <<kSaved, kPc, kJob, kAccepted, kCommands>>
  BY DEF Bootstrap!Edit
<1>1. /\ kVersion \in [Bootstrap!Paths -> Bootstrap!Versions] /\ kEdits \in Nat
      /\ \A g \in Bootstrap!Paths : kVersion[g] <= kEdits + 1 /\ kVersion[g] \in Nat
  BY ToolsAssumption DEF ToolsInv, ToolTypes, Bootstrap!Versions
<1>2. /\ kVersion' \in [Bootstrap!Paths -> Bootstrap!Versions] /\ kEdits' \in 0..MaxToolEdits
      /\ \A g \in Bootstrap!Paths : kVersion'[g] <= kEdits' + 1 /\ kVersion[g] <= kVersion'[g]
  <2>1. kEdits' \in 0..MaxToolEdits
    BY <1>0, <1>1, ToolsAssumption
  <2>2. kVersion[f] + 1 \in Bootstrap!Versions
    BY <1>0, <1>1, ToolsAssumption DEF Bootstrap!Versions
  <2>3. kVersion' \in [Bootstrap!Paths -> Bootstrap!Versions]
    BY <1>0, <1>1, <2>2
  <2>4. ASSUME NEW g \in Bootstrap!Paths
        PROVE  kVersion'[g] <= kEdits' + 1 /\ kVersion[g] <= kVersion'[g]
    <3>1. CASE g = f
      BY <1>0, <1>1, <3>1
    <3>2. CASE g # f
      BY <1>0, <1>1, <3>2
    <3> QED
      BY <3>1, <3>2
  <2> QED
    BY <2>1, <2>3, <2>4
<1>3. ToolTypes'
  BY <1>0, <1>2 DEF ToolsInv, ToolTypes
<1>4. Bootstrap!AcceptedIsLocked'
  BY <1>0, AcceptedStays DEF ToolsInv
<1>5. kSaved' # None => LockFits(kSaved)' /\ LockWhole(kSaved)'
  <2> SUFFICES ASSUME kSaved # None PROVE LockFits(kSaved)' /\ LockWhole(kSaved)'
    BY <1>0
  <2>1. LockFits(kSaved) /\ LockWhole(kSaved)
    BY DEF ToolsInv
  <2> QED
    BY <1>0, <1>1, <1>2, <2>1, LockNewer, Zenon DEF LockFits, ProofsFit
<1>6. \A p \in ToolUsers : ProcessInv(p)'
  BY <1>0, <1>2, ProcessNewer
<1> QED
  BY <1>3, <1>4, <1>5, <1>6 DEF ToolsInv

\* A workflow on the stack, and what it says.
LEMMA EntryFacts ==
  ASSUME NEW j, StackInv(j), NEW k \in 1..Len(j.stack)
  PROVE  /\ j.stack \in Seq(Entries) /\ j.stack[k] \in Entries
         /\ j.stack[k].path \in Workflows /\ j.stack[k].read \in Bootstrap!Versions
         /\ j.stack[k].next \in Nat \ {0}
         /\ EntryText(j, k) # None /\ EntryText(j, k).presets \in Seq(Workflows)
         /\ EntryText(j, k).roots \in Seq(DOMAIN Below)
<1>1. j.stack \in Seq(Entries) /\ EntryText(j, k) # None
  BY DEF StackInv
<1>2. j.stack[k] \in Entries
  BY <1>1, ElementOfSeq
<1>3. /\ j.stack[k].path \in Workflows /\ j.stack[k].read \in Bootstrap!Versions
      /\ j.stack[k].next \in Nat \ {0}
  BY <1>2 DEF Entries
<1>4. /\ EntryText(j, k).presets \in Seq(Workflows)
      /\ EntryText(j, k).roots \in Seq(DOMAIN Below)
  BY <1>1, <1>3, ToolsAssumption DEF EntryText
<1> QED
  BY <1>1, <1>2, <1>3, <1>4

LEMMA EnterKeeps ==
  ASSUME ToolsInv, NEW p \in ToolUsers, Bootstrap!Enter(p)
  PROVE  ToolsInv'
<1> DEFINE j == kJob[p]
<1> DEFINE path == IF j.stack = <<>> THEN j.workflow ELSE Bootstrap!NextPreset(j)
<1> DEFINE entry == [path |-> path, read |-> kVersion[path], next |-> 1]
<1> DEFINE record == [j EXCEPT !.visited = @ \union {path}, !.stack = Append(@, entry)]
<1>0. /\ kPc[p] = "composing" /\ (j.stack = <<>> \/ Bootstrap!HasNext(j)) /\ path \notin j.visited
      /\ Text[path][kVersion[path]] # None
      /\ Bootstrap!Goes(p, "composing", record) /\ UNCHANGED <<Bootstrap!written, kSaved, kAccepted, kCommands>>
  BY DEF Bootstrap!Enter, Bootstrap!Says
<1>f. DOMAIN j = JobFields /\ ComposingInv(p) /\ LockFits(j.lock) /\ kVersion \in [Bootstrap!Paths -> Bootstrap!Versions]
      /\ kCommands \in 0..MaxToolCommands
  BY ToolFacts
<1>s. StackInv(j) /\ j.stack \in Seq(Entries) /\ Len(j.stack) \in Nat
  BY <1>0, <1>f, LenProperties, Zenon DEF ComposingInv, ComposingJob, StackInv
<1>1. j.stack # <<>> =>
        LET n == Len(j.stack) IN
        /\ n \in 1..n /\ j.stack[n].next \in 1..Len(EntryText(j, n).presets)
        /\ path = EntryText(j, n).presets[j.stack[n].next]
  <2> SUFFICES ASSUME j.stack # <<>>
               PROVE  LET n == Len(j.stack) IN
                      /\ n \in 1..n /\ j.stack[n].next \in 1..Len(EntryText(j, n).presets)
                      /\ path = EntryText(j, n).presets[j.stack[n].next]
    OBVIOUS
  <2>1. Len(j.stack) \in 1..Len(j.stack)
    BY <1>s, EmptySeq
  <2> DEFINE came == j.stack[Len(j.stack)].next
  <2> DEFINE presets == EntryText(j, Len(j.stack)).presets
  <2>2. came <= Len(presets)
    BY <1>0, Zenon DEF Bootstrap!HasNext, Bootstrap!Last, Bootstrap!Presets, EntryText
  <2>3. came \in Nat \ {0} /\ Len(presets) \in Nat
    <3>1. came \in Nat \ {0} /\ presets \in Seq(Workflows)
      BY <1>s, <2>1, EntryFacts, Zenon
    <3> HIDE DEF came, presets
    <3> QED
      BY <3>1, LenProperties
  <2>4. path = presets[came]
    BY Zenon DEF Bootstrap!NextPreset, Bootstrap!Last, Bootstrap!Presets, EntryText
  <2>5. came \in 1..Len(presets)
    <3> HIDE DEF came, presets
    <3> QED
      BY <2>2, <2>3
  <2> QED
    BY <2>1, <2>4, <2>5
<1>2. path \in Workflows
  <2>1. CASE j.stack = <<>>
    BY <1>0, <1>f, <2>1 DEF ComposingInv, ComposingJob
  <2>2. CASE j.stack # <<>>
    <3> DEFINE n == Len(j.stack)
    <3> DEFINE presets == EntryText(j, n).presets
    <3>1. n \in 1..n /\ j.stack[n].next \in 1..Len(presets)
          /\ path = presets[j.stack[n].next]
      BY <1>1, <2>2, Zenon
    <3>2. presets \in Seq(Workflows)
      BY <1>s, <3>1, EntryFacts, Zenon
    <3> HIDE DEF presets, n, path
    <3> QED
      BY <3>1, <3>2, ElementOfSeq, Zenon
  <2> QED
    BY <2>1, <2>2
<1>3. entry \in Entries /\ entry.path = path /\ entry.read = kVersion[path] /\ entry.next = 1
  BY <1>2, <1>f DEF Entries, Bootstrap!Paths
<1>4. /\ DOMAIN record = JobFields /\ record.visited = j.visited \union {path}
      /\ record.stack = Append(j.stack, entry)
      /\ \A x \in JobFields \ {"visited", "stack"} : record[x] = j[x]
  BY <1>f DEF JobFields
<1>t. /\ record.workflow = j.workflow /\ record.roots = j.roots /\ record.lock = j.lock
      /\ record.selected = j.selected /\ record.candidates = j.candidates
  BY <1>4 DEF JobFields
<1>5. /\ record.stack \in Seq(Entries) /\ record.stack # <<>>
      /\ Len(record.stack) = Len(j.stack) + 1 /\ record.stack[Len(j.stack) + 1] = entry
      /\ \A k \in 1..Len(j.stack) : record.stack[k] = j.stack[k]
  BY <1>3, <1>4, <1>s, AppendProperties
<1>6. \A k \in 1..Len(j.stack) : EntryText(record, k) = EntryText(j, k)
  BY <1>5 DEF EntryText
<1>7. EntryText(record, Len(j.stack) + 1) = Text[path][kVersion[path]]
  BY <1>3, <1>5 DEF EntryText
<1> HIDE DEF record, entry, path
<1>8. StackInv(record)
  <2>1. record.stack[1].path = j.workflow
    <3>1. CASE j.stack = <<>>
      BY <1>3, <1>5, <3>1, EmptySeq DEF path
    <3>2. CASE j.stack # <<>>
      <4>1. 1 \in 1..Len(j.stack)
        BY <1>s, <3>2, EmptySeq
      <4> QED
        BY <1>5, <1>s, <3>2, <4>1 DEF StackInv
    <3> QED
      BY <3>1, <3>2
  <2>2. ASSUME NEW k \in 1..Len(record.stack)
        PROVE  /\ record.stack[k].read <= kVersion[record.stack[k].path] /\ EntryText(record, k) # None
               /\ record.stack[k].path \notin DOMAIN record.lock.configuration
               /\ \A n \in 1..Len(EntryText(record, k).presets) :
                    n < record.stack[k].next =>
                      EntryText(record, k).presets[n] \in DOMAIN record.lock.configuration
    <3>1. CASE k \in 1..Len(j.stack)
      BY <1>5, <1>6, <1>t, <1>s, <3>1 DEF StackInv
    <3>2. CASE k = Len(j.stack) + 1
      <4>1. path \notin DOMAIN j.lock.configuration
        BY <1>0, <1>f DEF ComposingInv, ComposingJob, path
      <4>2. kVersion[path] <= kVersion[path]
        BY <1>2, <1>f DEF Bootstrap!Paths, Bootstrap!Versions
      <4>3. Text[path][kVersion[path]] # None
        BY <1>0 DEF path
      <4> QED
        BY <1>3, <1>5, <1>7, <1>t, <3>2, <4>1, <4>2, <4>3
    <3> QED
      BY <1>5, <1>s, <3>1, <3>2
  <2>3. ASSUME NEW k \in 1..Len(record.stack), NEW n \in 1..Len(record.stack),
               record.stack[k].path = record.stack[n].path
        PROVE  k = n
    <3>1. \A m \in 1..Len(j.stack) : j.stack[m].path # path
      BY <1>0, <1>f DEF ComposingInv, ComposingJob, path
    <3>2. CASE k \in 1..Len(j.stack) /\ n \in 1..Len(j.stack)
      BY <1>5, <1>s, <2>3, <3>2 DEF StackInv
    <3>3. CASE k = Len(j.stack) + 1 /\ n \in 1..Len(j.stack)
      BY <1>3, <1>5, <2>3, <3>1, <3>3
    <3>4. CASE n = Len(j.stack) + 1 /\ k \in 1..Len(j.stack)
      BY <1>3, <1>5, <2>3, <3>1, <3>4
    <3> QED
      BY <1>5, <1>s, <3>2, <3>3, <3>4
  <2>4. ASSUME NEW k \in 1..Len(record.stack), k < Len(record.stack)
        PROVE  EntryText(record, k).presets[record.stack[k].next] = record.stack[k + 1].path
    <3>1. CASE k < Len(j.stack)
      <4>1. k \in 1..Len(j.stack) /\ k + 1 \in 1..Len(j.stack)
        BY <1>s, <3>1
      <4> QED
        BY <1>5, <1>6, <1>s, <3>1, <4>1 DEF StackInv
    <3>2. CASE k = Len(j.stack)
      <4>1. j.stack # <<>> /\ k \in 1..Len(j.stack)
        BY <3>2, EmptySeq
      <4> QED
        BY <1>1, <1>3, <1>5, <1>6, <3>2, <4>1
    <3> QED
      BY <1>5, <1>s, <2>4, <3>1, <3>2
  <2> QED
    BY <1>5, <1>t, <2>1, <2>2, <2>3, <2>4 DEF StackInv
<1>9. record.visited = DOMAIN record.lock.configuration
                         \union {record.stack[k].path : k \in 1..Len(record.stack)}
  <2>1. {record.stack[k].path : k \in 1..Len(record.stack)}
          = {j.stack[k].path : k \in 1..Len(j.stack)} \union {path}
    <3>1. 1..Len(record.stack) = 1..Len(j.stack) \union {Len(j.stack) + 1}
      BY <1>5, <1>s
    <3> QED
      BY <1>3, <1>5, <3>1
  <2> QED
    BY <1>0, <1>4, <1>t, <1>f, <2>1 DEF ComposingInv, ComposingJob
<1>10. ~j.lock.slipped => Needed(record)
  <2> SUFFICES ASSUME ~j.lock.slipped, NEW set \in SUBSET Workflows, j.workflow \in set,
                      \A w \in set \intersect DOMAIN j.lock.configuration :
                        Bootstrap!ToSet(Stated(j.lock, w).presets) \subseteq set,
                      \A k \in 1..Len(record.stack) :
                        record.stack[k].path \in set
                          => Bootstrap!ToSet(EntryText(record, k).presets) \subseteq set
               PROVE  record.visited \subseteq set
    BY <1>t DEF Needed
  <2>0. 1..Len(j.stack) \subseteq 1..Len(record.stack)
    BY <1>5, <1>s
  <2>1. j.visited \subseteq set
    BY <1>0, <1>5, <1>6, <1>f, <2>0 DEF ComposingInv, ComposingJob, Needed
  <2>2. path \in set
    <3>1. CASE j.stack = <<>>
      BY <3>1 DEF path
    <3>2. CASE j.stack # <<>>
      <4> DEFINE n == Len(j.stack)
      <4>1. n \in 1..n
        BY <1>1, <3>2
      <4>2. j.stack[n].path \in set
        BY <1>0, <1>f, <2>1, <4>1 DEF ComposingInv, ComposingJob
      <4>3. Bootstrap!ToSet(EntryText(j, n).presets) \subseteq set
        BY <1>5, <1>6, <2>0, <4>1, <4>2
      <4>4. EntryText(j, n).presets[j.stack[n].next] \in Bootstrap!ToSet(EntryText(j, n).presets)
        <5>1. DOMAIN EntryText(j, n).presets = 1..Len(EntryText(j, n).presets)
          BY <1>s, <4>1, EntryFacts, LenProperties
        <5> QED
          BY <1>1, <3>2, <5>1 DEF Bootstrap!ToSet
      <4> QED
        BY <1>1, <3>2, <4>3, <4>4
    <3> QED
      BY <3>1, <3>2
  <2> QED
    BY <1>4, <2>1, <2>2
<1>11. ASSUME kPc'[p] = "composing", kJob'[p] = record
       PROVE  ProcessInv(p)'
  <2>0. UNCHANGED kVersion
    BY <1>0 DEF Bootstrap!written
  <2>1. LockFits(kJob[p].lock)'
    BY <1>11, <1>f, <1>t, <2>0 DEF LockFits, ProofsFit
  <2>2. StackInv(kJob[p])' /\ (Gathered(j) => Gathered(record))
    BY <1>8, <1>11, <1>t, <2>0 DEF StackInv, Gathered
  <2>3. ComposingInv(p)'
    BY <1>0, <1>11, <1>f, <1>t, <1>5, <1>9, <1>10, <2>2 DEF ComposingInv, ComposingJob
  <2>4. FoundInv(p)' /\ CapturingInv(p)' /\ LoadedInv(p)' /\ RunInv(p)'
    BY <1>11 DEF FoundInv, CapturingInv, LoadedInv, RunInv, LoadedPhases
  <2> QED
    BY <2>1, <2>3, <2>4 DEF ProcessInv
<1>12. "composing" \in LocalPhasesOfTools
  BY DEF LocalPhasesOfTools
<1> QED
  BY <1>0, <1>f, <1>4, <1>11, <1>12, ToolSteps DEF record

\* The stack without its top; the workflow below it goes on with its next preset.
LEMMA RestFacts ==
  ASSUME NEW stack \in Seq(Entries), stack # <<>>
  PROVE  LET rest == Bootstrap!Rest(stack) IN
         /\ rest \in Seq(Entries) /\ Len(rest) = Len(stack) - 1
         /\ \A k \in 1..(Len(stack) - 1) :
              /\ rest[k].path = stack[k].path /\ rest[k].read = stack[k].read
              /\ rest[k].next = IF k = Len(stack) - 1 THEN stack[k].next + 1 ELSE stack[k].next
<1> DEFINE front == Bootstrap!Front(stack)
<1> DEFINE n == Len(stack)
<1>1. n \in Nat \ {0}
  BY EmptySeq
<1>2. \A k \in 1..(n - 1) : stack[k] \in Entries
  BY <1>1, ElementOfSeq
<1>3. front \in Seq(Entries) /\ Len(front) = n - 1 /\ \A k \in 1..(n - 1) : front[k] = stack[k]
  <2>1. front = SubSeq(stack, 1, n - 1)
    BY DEF Bootstrap!Front
  <2>2. \A k \in 1..(n - 1) : stack[k] \in Entries /\ stack[1 + k - 1] = stack[k]
    BY <1>2
  <2>3. \A k \in 1..(n - 1) : k \in 1..n
    BY <1>1
  <2>4. /\ SubSeq(stack, 1, n - 1) \in Seq(Entries) /\ Len(SubSeq(stack, 1, n - 1)) = n - 1
        /\ \A k \in 1..(n - 1) : SubSeq(stack, 1, n - 1)[k] = stack[1 + k - 1]
    <3> DEFINE m == n - 1
    <3>1. m \in Int /\ 1 \in Int /\ m \in Nat
      BY <1>1
    <3>2. \A k \in 1..m : stack[k] \in Entries
      BY <2>2
    <3> HIDE DEF m, n
    <3>3. /\ SubSeq(stack, 1, m) \in Seq(Entries)
          /\ Len(SubSeq(stack, 1, m)) = IF 1 <= m THEN m - 1 + 1 ELSE 0
          /\ \A k \in 1..(m - 1 + 1) : SubSeq(stack, 1, m)[k] = stack[1 + k - 1]
      BY <3>1, <3>2, SubSeqProperties
    <3>4. (IF 1 <= m THEN m - 1 + 1 ELSE 0) = m /\ m - 1 + 1 = m
      BY <3>1
    <3> QED
      BY <3>3, <3>4 DEF m
  <2> QED
    BY <2>1, <2>2, <2>4
<1>4. CASE front = <<>>
  <2>1. n - 1 = 0 /\ 1..(n - 1) = {}
    <3>1. Len(front) = 0
      BY <1>4, EmptySeq
    <3>2. n - 1 = 0
      BY <1>3, <3>1
    <3> HIDE DEF n
    <3> QED
      BY <1>1, <3>2
  <2>2. Bootstrap!Rest(stack) = front
    BY <1>4 DEF Bootstrap!Rest
  <2> QED
    BY <1>3, <2>1, <2>2
<1>5. CASE front # <<>>
  <2> DEFINE entry == [front[n - 1] EXCEPT !.next = front[n - 1].next + 1]
  <2>1. n - 1 \in 1..Len(front) /\ front[n - 1] \in Entries
    BY <1>1, <1>2, <1>3, <1>5, EmptySeq
  <2>2. /\ entry \in Entries /\ entry.path = front[n - 1].path /\ entry.read = front[n - 1].read
        /\ entry.next = front[n - 1].next + 1
    BY <2>1 DEF Entries
  <2>3. Bootstrap!Rest(stack) = [front EXCEPT ![n - 1] = entry]
    BY <1>3, <1>5 DEF Bootstrap!Rest
  <2> HIDE DEF entry, front
  <2>4. /\ Bootstrap!Rest(stack) \in Seq(Entries) /\ Len(Bootstrap!Rest(stack)) = n - 1
        /\ \A k \in 1..(n - 1) : Bootstrap!Rest(stack)[k] = IF k = n - 1 THEN entry ELSE front[k]
    BY <1>3, <2>1, <2>2, <2>3, ExceptSeq
  <2> QED
    BY <1>3, <2>1, <2>2, <2>4
<1> QED
  BY <1>4, <1>5

\* A job whose topmost workflow is left, its presets being left.
Leaves(j, left) ==
  LET n == Len(j.stack)
      top == j.stack[n]
      says == EntryText(j, n)
  IN
  /\ DOMAIN left = JobFields /\ left.stack = Bootstrap!Rest(j.stack) /\ left.workflow = j.workflow
  /\ left.roots = j.roots \o says.roots /\ left.roots \in Seq(DOMAIN Below)
  /\ left.selected = j.selected \union says.plugins /\ left.visited = j.visited
  /\ left.candidates = j.candidates
  /\ LockFits(left.lock)
  /\ left.lock.plugins = j.lock.plugins
  /\ left.lock.sources = j.lock.sources \union says.sources
  /\ DOMAIN left.lock.configuration = DOMAIN j.lock.configuration \union {top.path}
  /\ ~left.lock.slipped =>
       /\ ~j.lock.slipped /\ Stated(left.lock, top.path) = says
       /\ \A w \in DOMAIN j.lock.configuration : Stated(left.lock, w) = Stated(j.lock, w)

\* What Leave makes of the job.
IsLeft(j, left) ==
  LET top == j.stack[Len(j.stack)]
      says == EntryText(j, Len(j.stack))
  IN left = [j EXCEPT
       !.stack = Bootstrap!Rest(@), !.roots = j.roots \o says.roots, !.selected = @ \union says.plugins,
       !.lock.sources = @ \union says.sources,
       !.lock.configuration = Bootstrap!With(@, top.path, kVersion[top.path]),
       !.lock.slipped = @ \/ kVersion[top.path] # top.read]

\* What a workflow says joins what was gathered, once its presets are left.
LEMMA LeftFacts ==
  ASSUME NEW j, DOMAIN j = JobFields, LockFits(j.lock), StackInv(j), j.stack # <<>>,
         kVersion \in [Bootstrap!Paths -> Bootstrap!Versions], j.roots \in Seq(DOMAIN Below),
         NEW left, IsLeft(j, left)
  PROVE  Leaves(j, left)
<1> DEFINE n == Len(j.stack)
<1> DEFINE top == j.stack[n]
<1> DEFINE says == EntryText(j, n)
<1>1. n \in 1..n
  BY EmptySeq DEF StackInv
<1>2. top.path \in Workflows /\ says.roots \in Seq(DOMAIN Below) /\ top.path \in Bootstrap!Paths
  BY <1>1, EntryFacts DEF Bootstrap!Paths
<1>3. top.path \notin DOMAIN j.lock.configuration
  BY <1>1 DEF StackInv
<1>4. says = Text[top.path][top.read]
  BY Zenon DEF EntryText
<1>5. kVersion[top.path] \in Bootstrap!Versions /\ kVersion[top.path] <= kVersion[top.path]
  BY <1>2 DEF Bootstrap!Versions
<1>6. /\ DOMAIN left = JobFields /\ left.stack = Bootstrap!Rest(j.stack) /\ left.workflow = j.workflow
      /\ left.roots = j.roots \o says.roots
      /\ left.selected = j.selected \union says.plugins /\ left.visited = j.visited
      /\ left.candidates = j.candidates /\ left.todo = j.todo
  BY DEF JobFields, IsLeft
<1> DEFINE l == j.lock
<1>7. left.lock = [l EXCEPT
        !.sources = @ \union says.sources,
        !.configuration = Bootstrap!With(@, top.path, kVersion[top.path]),
        !.slipped = @ \/ kVersion[top.path] # top.read]
  BY DEF JobFields, IsLeft
<1> HIDE DEF top, says
<1>8. DOMAIN l = LockFields
  BY DEF LockFits
<1>9. /\ DOMAIN left.lock = LockFields /\ left.lock.plugins = l.plugins
      /\ left.lock.sources = l.sources \union says.sources
      /\ left.lock.configuration = Bootstrap!With(l.configuration, top.path, kVersion[top.path])
      /\ left.lock.slipped = (l.slipped \/ kVersion[top.path] # top.read)
  <2> DEFINE slips == l.slipped \/ kVersion[top.path] # top.read
  <2> DEFINE more == l.sources \union says.sources
  <2> DEFINE found == Bootstrap!With(l.configuration, top.path, kVersion[top.path])
  <2>1. left.lock = [l EXCEPT !.sources = more, !.configuration = found, !.slipped = slips]
    BY <1>7
  <2> HIDE DEF slips, more, found, l
  <2> DEFINE one == [l EXCEPT !.sources = more]
  <2> DEFINE two == [one EXCEPT !.configuration = found]
  <2>2. DOMAIN one = LockFields /\ one.sources = more /\ one.plugins = l.plugins
    BY <1>8 DEF LockFields
  <2>3. left.lock = [two EXCEPT !.slipped = slips]
    BY <2>1
  <2> HIDE DEF one
  <2>4. /\ DOMAIN two = LockFields /\ two.sources = more /\ two.plugins = l.plugins
        /\ two.configuration = found
    BY <2>2 DEF LockFields
  <2> HIDE DEF two
  <2>5. left.lock.slipped = slips
    BY <2>3, <2>4, Zenon DEF LockFields
  <2>6. /\ DOMAIN left.lock = LockFields /\ left.lock.plugins = l.plugins
        /\ left.lock.sources = more /\ left.lock.configuration = found
    BY <2>3, <2>4 DEF LockFields
  <2> QED
    BY <2>5, <2>6, Zenon DEF slips, more, found
<1> DEFINE conf == left.lock.configuration
<1>10. /\ DOMAIN conf = DOMAIN l.configuration \union {top.path}
       /\ conf = [w \in DOMAIN conf |-> conf[w]]
       /\ conf[top.path] = kVersion[top.path]
       /\ \A w \in DOMAIN l.configuration : conf[w] = l.configuration[w]
  <2> DEFINE c == l.configuration
  <2>1. c = [w \in DOMAIN c |-> c[w]]
    BY DEF LockFits
  <2>2. conf = [w \in DOMAIN c \union {top.path} |-> IF w = top.path THEN kVersion[top.path] ELSE c[w]]
    BY <1>9 DEF Bootstrap!With
  <2> HIDE DEF c, conf
  <2>3. /\ DOMAIN conf = DOMAIN c \union {top.path} /\ conf = [w \in DOMAIN conf |-> conf[w]]
        /\ conf[top.path] = kVersion[top.path]
        /\ \A w \in DOMAIN c : w # top.path => conf[w] = c[w]
    BY <2>2
  <2> QED
    BY <1>3, <2>3 DEF c
<1>11. left.lock.slipped \in BOOLEAN
  BY <1>9 DEF LockFits
<1> HIDE DEF conf
<1>12. LockFits(left.lock)
  <2>1. \A w \in DOMAIN conf : conf[w] \in Bootstrap!Versions /\ conf[w] <= kVersion[w]
    BY <1>5, <1>10 DEF LockFits
  <2>2. DOMAIN conf \subseteq Workflows
    BY <1>2, <1>10 DEF LockFits
  <2> QED
    BY <1>9, <1>10, <1>11, <2>1, <2>2 DEF LockFits, conf
<1>13. left.roots \in Seq(DOMAIN Below)
  BY <1>2, <1>6, ConcatProperties
<1>14. ~left.lock.slipped =>
         /\ ~j.lock.slipped /\ Stated(left.lock, top.path) = says
         /\ \A w \in DOMAIN j.lock.configuration : Stated(left.lock, w) = Stated(j.lock, w)
  <2>1. l.slipped \in BOOLEAN
    BY DEF LockFits
  <2> QED
    BY <1>4, <1>9, <1>10, <2>1 DEF Stated, conf
<1> QED
  BY <1>6, <1>9, <1>10, <1>12, <1>13, <1>14, Zenon DEF conf, Leaves, top, says

\* All its presets are left.
LEMMA PresetsLeft ==
  ASSUME NEW j, StackInv(j), j.stack # <<>>, ~Bootstrap!HasNext(j)
  PROVE  LET n == Len(j.stack) IN
         /\ n \in Nat \ {0} /\ n \in 1..n
         /\ Bootstrap!ToSet(EntryText(j, n).presets) \subseteq DOMAIN j.lock.configuration
<1> DEFINE n == Len(j.stack)
<1> DEFINE presets == EntryText(j, n).presets
<1>1. n \in Nat \ {0} /\ n \in 1..n
  BY EmptySeq DEF StackInv
<1>2. Len(presets) \in Nat /\ DOMAIN presets = 1..Len(presets) /\ j.stack[n].next \in Nat
  BY <1>1, EntryFacts, LenProperties
<1>3. ~(j.stack[n].next <= Len(presets))
  BY DEF Bootstrap!HasNext, Bootstrap!Last, Bootstrap!Presets, EntryText
<1>4. \A k \in 1..Len(presets) : k < j.stack[n].next
  <2> HIDE DEF presets
  <2> QED
    BY <1>2, <1>3
<1>5. \A k \in 1..Len(presets) : presets[k] \in DOMAIN j.lock.configuration
  BY <1>1, <1>4 DEF StackInv
<1> QED
  BY <1>1, <1>2, <1>5 DEF Bootstrap!ToSet

\* The entries that stay on the stack.
LEMMA StaysOnStack ==
  ASSUME NEW j, StackInv(j), j.stack # <<>>, NEW left, left.stack = Bootstrap!Rest(j.stack)
  PROVE  /\ left.stack \in Seq(Entries) /\ Len(left.stack) = Len(j.stack) - 1
         /\ Len(j.stack) \in Nat \ {0}
         /\ \A k \in 1..Len(left.stack) :
              /\ k \in 1..Len(j.stack) /\ k # Len(j.stack)
              /\ left.stack[k].path = j.stack[k].path /\ left.stack[k].read = j.stack[k].read
              /\ left.stack[k].next = IF k = Len(j.stack) - 1 THEN j.stack[k].next + 1
                                      ELSE j.stack[k].next
              /\ EntryText(left, k) = EntryText(j, k)
<1>1. j.stack \in Seq(Entries) /\ Len(j.stack) \in Nat \ {0}
  BY EmptySeq DEF StackInv
<1>2. /\ left.stack \in Seq(Entries) /\ Len(left.stack) = Len(j.stack) - 1
      /\ \A k \in 1..(Len(j.stack) - 1) :
           /\ left.stack[k].path = j.stack[k].path /\ left.stack[k].read = j.stack[k].read
           /\ left.stack[k].next = IF k = Len(j.stack) - 1 THEN j.stack[k].next + 1
                                   ELSE j.stack[k].next
  BY <1>1, RestFacts
<1> QED
  BY <1>1, <1>2 DEF EntryText

LEMMA LeftStack ==
  ASSUME NEW j, StackInv(j), j.stack # <<>>, ~Bootstrap!HasNext(j), NEW left, Leaves(j, left)
  PROVE  StackInv(left)
<1> DEFINE n == Len(j.stack)
<1>0. left.stack = Bootstrap!Rest(j.stack) /\ left.workflow = j.workflow
  BY DEF Leaves
<1>1. /\ left.stack \in Seq(Entries) /\ Len(left.stack) = n - 1 /\ n \in Nat \ {0}
      /\ \A k \in 1..Len(left.stack) :
           /\ k \in 1..n /\ k # n
           /\ left.stack[k].path = j.stack[k].path /\ left.stack[k].read = j.stack[k].read
           /\ left.stack[k].next = IF k = n - 1 THEN j.stack[k].next + 1 ELSE j.stack[k].next
           /\ EntryText(left, k) = EntryText(j, k)
  BY <1>0, StaysOnStack
<1>2. DOMAIN left.lock.configuration = DOMAIN j.lock.configuration \union {j.stack[n].path}
  BY DEF Leaves
<1>s. /\ \A k \in 1..n : /\ j.stack[k].read <= kVersion[j.stack[k].path] /\ EntryText(j, k) # None
                        /\ j.stack[k].path \notin DOMAIN j.lock.configuration
                        /\ \A m \in 1..n : j.stack[k].path = j.stack[m].path => k = m
      /\ \A k \in 1..n : k < n => EntryText(j, k).presets[j.stack[k].next] = j.stack[k + 1].path
      /\ n \in 1..n
  <2>1. n \in 1..n
    BY <1>1
  <2>2. \A k \in 1..n : /\ j.stack[k].read <= kVersion[j.stack[k].path] /\ EntryText(j, k) # None
                        /\ j.stack[k].path \notin DOMAIN j.lock.configuration
    BY DEF StackInv
  <2>3. \A k \in 1..n : \A m \in 1..n : j.stack[k].path = j.stack[m].path => k = m
    BY DEF StackInv
  <2>4. \A k \in 1..n : k < n => EntryText(j, k).presets[j.stack[k].next] = j.stack[k + 1].path
    BY DEF StackInv
  <2> QED
    BY <2>1, <2>2, <2>3, <2>4
<1>3. left.stack # <<>> => left.stack[1].path = left.workflow
  <2> SUFFICES ASSUME left.stack # <<>> PROVE left.stack[1].path = left.workflow
    OBVIOUS
  <2>1. 1 \in 1..Len(left.stack)
    BY <1>1, EmptySeq
  <2> QED
    BY <1>0, <1>1, <2>1 DEF StackInv
<1>4. ASSUME NEW k \in 1..Len(left.stack)
      PROVE  /\ left.stack[k].read <= kVersion[left.stack[k].path] /\ EntryText(left, k) # None
             /\ left.stack[k].path \notin DOMAIN left.lock.configuration
             /\ \A m \in 1..Len(left.stack) : left.stack[k].path = left.stack[m].path => k = m
  <2>1. j.stack[k].path # j.stack[n].path
    BY <1>1, <1>s
  <2>2. /\ j.stack[k].read <= kVersion[j.stack[k].path] /\ EntryText(j, k) # None
        /\ j.stack[k].path \notin DOMAIN j.lock.configuration
    BY <1>1, <1>s
  <2>3. ASSUME NEW m \in 1..Len(left.stack), left.stack[k].path = left.stack[m].path
        PROVE  k = m
    <3>1. k \in 1..n /\ m \in 1..n /\ j.stack[k].path = j.stack[m].path
      BY <1>1, <2>3
    <3> QED
      BY <1>s, <3>1
  <2>4. left.stack[k].path = j.stack[k].path /\ left.stack[k].read = j.stack[k].read
        /\ EntryText(left, k) = EntryText(j, k)
    BY <1>1
  <2> QED
    BY <1>2, <2>1, <2>2, <2>3, <2>4
<1>5. ASSUME NEW k \in 1..Len(left.stack), k < Len(left.stack)
      PROVE  EntryText(left, k).presets[left.stack[k].next] = left.stack[k + 1].path
  <2>1. k + 1 \in 1..Len(left.stack) /\ k # n - 1 /\ k < n
    BY <1>1, <1>5
  <2>2. left.stack[k].next = j.stack[k].next /\ EntryText(left, k) = EntryText(j, k)
        /\ left.stack[k + 1].path = j.stack[k + 1].path /\ k \in 1..n
    BY <1>1, <2>1
  <2> QED
    BY <1>s, <2>1, <2>2
<1>6. ASSUME NEW k \in 1..Len(left.stack), NEW m \in 1..Len(EntryText(left, k).presets),
             m < left.stack[k].next
      PROVE  EntryText(left, k).presets[m] \in DOMAIN left.lock.configuration
  <2>0. k \in 1..n /\ EntryText(left, k) = EntryText(j, k) /\ j.stack[k].next \in Nat
        /\ Len(EntryText(j, k).presets) \in Nat
    BY <1>1, EntryFacts, LenProperties
  <2>1. CASE m < j.stack[k].next
    BY <1>2, <2>0, <2>1 DEF StackInv
  <2>2. CASE ~(m < j.stack[k].next)
    <3>1. k = n - 1 /\ m = j.stack[k].next
      <4>1. left.stack[k].next = IF k = n - 1 THEN j.stack[k].next + 1 ELSE j.stack[k].next
        BY <1>1
      <4>2. m \in Nat
        BY <2>0
      <4> HIDE DEF n
      <4> QED
        BY <1>6, <2>0, <2>2, <4>1, <4>2
    <3>2. EntryText(j, k).presets[m] = j.stack[n].path
      <4>1. k < n /\ k + 1 = n
        BY <1>1, <3>1
      <4> QED
        BY <1>s, <2>0, <3>1, <4>1
    <3> QED
      BY <1>2, <2>0, <3>2
  <2> QED
    BY <2>1, <2>2
<1> QED
  BY <1>1, <1>3, <1>4, <1>5, <1>6 DEF StackInv

LEMMA LeftNeeded ==
  ASSUME NEW j, StackInv(j), j.stack # <<>>, NEW left, Leaves(j, left), ~left.lock.slipped,
         Needed(j)
  PROVE  Needed(left)
<1> DEFINE n == Len(j.stack)
<1>0. /\ left.stack = Bootstrap!Rest(j.stack) /\ left.workflow = j.workflow /\ left.visited = j.visited
      /\ DOMAIN left.lock.configuration = DOMAIN j.lock.configuration \union {j.stack[n].path}
      /\ Stated(left.lock, j.stack[n].path) = EntryText(j, n)
      /\ \A w \in DOMAIN j.lock.configuration : Stated(left.lock, w) = Stated(j.lock, w)
  BY DEF Leaves
<1>1. /\ Len(left.stack) = n - 1 /\ n \in Nat \ {0}
      /\ \A k \in 1..Len(left.stack) :
           left.stack[k].path = j.stack[k].path /\ EntryText(left, k) = EntryText(j, k)
  BY <1>0, StaysOnStack
<1> SUFFICES ASSUME NEW set \in SUBSET Workflows, j.workflow \in set,
                    \A w \in set \intersect DOMAIN left.lock.configuration :
                      Bootstrap!ToSet(Stated(left.lock, w).presets) \subseteq set,
                    \A k \in 1..Len(left.stack) :
                      left.stack[k].path \in set => Bootstrap!ToSet(EntryText(left, k).presets) \subseteq set
             PROVE  j.visited \subseteq set
  BY <1>0 DEF Needed
<1>2. \A w \in set \intersect DOMAIN j.lock.configuration :
        Bootstrap!ToSet(Stated(j.lock, w).presets) \subseteq set
  BY <1>0
<1>3. ASSUME NEW k \in 1..n, j.stack[k].path \in set
      PROVE  Bootstrap!ToSet(EntryText(j, k).presets) \subseteq set
  <2>1. CASE k = n
    BY <1>0, <1>3, <2>1
  <2>2. CASE k # n
    <3>1. k \in 1..Len(left.stack)
      BY <1>1, <2>2
    <3> QED
      BY <1>1, <1>3, <3>1
  <2> QED
    BY <2>1, <2>2
<1> QED
  BY <1>2, <1>3 DEF Needed

LEMMA LeftGathered ==
  ASSUME NEW j, StackInv(j), j.stack # <<>>, NEW left, Leaves(j, left), Gathered(j),
         j.roots \in Seq(DOMAIN Below)
  PROVE  Gathered(left)
<1> SUFFICES ASSUME ~left.lock.slipped
             PROVE  /\ left.lock.sources = StatedSources(left.lock) /\ left.selected = StatedPlugins(left.lock)
                    /\ \A k \in 1..Len(left.roots) : IsRoot(left.lock, left.roots[k])
  BY DEF Gathered
<1> DEFINE n == Len(j.stack)
<1> DEFINE says == EntryText(j, n)
<1> DEFINE path == j.stack[n].path
<1>0. /\ left.roots = j.roots \o says.roots /\ left.selected = j.selected \union says.plugins
      /\ left.lock.sources = j.lock.sources \union says.sources /\ ~j.lock.slipped
      /\ DOMAIN left.lock.configuration = DOMAIN j.lock.configuration \union {path}
      /\ Stated(left.lock, path) = says
      /\ \A w \in DOMAIN j.lock.configuration : Stated(left.lock, w) = Stated(j.lock, w)
  BY DEF Leaves
<1>1. /\ j.lock.sources = StatedSources(j.lock) /\ j.selected = StatedPlugins(j.lock)
      /\ \A k \in 1..Len(j.roots) : IsRoot(j.lock, j.roots[k])
  BY <1>0 DEF Gathered
<1>r. says.roots \in Seq(DOMAIN Below)
  <2>1. n \in 1..n
    BY EmptySeq DEF StackInv
  <2> QED
    BY <2>1, EntryFacts
<1> HIDE DEF says, path
<1>2. left.lock.sources = StatedSources(left.lock)
  BY <1>0, <1>1 DEF StatedSources
<1>3. left.selected = StatedPlugins(left.lock)
  BY <1>0, <1>1 DEF StatedPlugins
<1>4. ASSUME NEW k \in 1..Len(left.roots)
      PROVE  IsRoot(left.lock, left.roots[k])
  <2>1. /\ Len(left.roots) = Len(j.roots) + Len(says.roots)
        /\ left.roots[k] = IF k <= Len(j.roots) THEN j.roots[k] ELSE says.roots[k - Len(j.roots)]
        /\ Len(j.roots) \in Nat /\ Len(says.roots) \in Nat
        /\ DOMAIN says.roots = 1..Len(says.roots)
    BY <1>0, <1>r, ConcatProperties, LenProperties
  <2>2. CASE k <= Len(j.roots)
    <3>1. IsRoot(j.lock, left.roots[k])
      BY <1>1, <2>1, <2>2
    <3> QED
      BY <1>0, <3>1 DEF IsRoot
  <2>3. CASE ~(k <= Len(j.roots))
    <3>0. left.roots[k] = says.roots[k - Len(j.roots)]
      BY <2>1, <2>3
    <3>1. k - Len(j.roots) \in DOMAIN says.roots
      <4> DEFINE a == Len(j.roots)
      <4> DEFINE b == Len(says.roots)
      <4>1. a \in Nat /\ b \in Nat /\ k \in 1..(a + b) /\ ~(k <= a) /\ DOMAIN says.roots = 1..b
        BY <2>1, <2>3, Zenon
      <4> HIDE DEF a, b
      <4>2. k - a \in 1..b
        BY <4>1
      <4> QED
        BY <4>1, <4>2 DEF a
    <3>2. left.roots[k] \in Bootstrap!ToSet(Stated(left.lock, path).roots)
      BY <1>0, <3>0, <3>1 DEF Bootstrap!ToSet
    <3> QED
      BY <1>0, <3>2 DEF IsRoot
  <2> QED
    BY <2>2, <2>3
<1> QED
  BY <1>2, <1>3, <1>4

LEMMA LeaveKeeps ==
  ASSUME ToolsInv, NEW p \in ToolUsers, Bootstrap!Leave(p)
  PROVE  ToolsInv'
<1> DEFINE j == kJob[p]
<1> DEFINE n == Len(j.stack)
<1> DEFINE top == Bootstrap!Last(j.stack)
<1> DEFINE says == Text[top.path][top.read]
<1> DEFINE left == [j EXCEPT
      !.stack = Bootstrap!Rest(@), !.roots = j.roots \o says.roots, !.selected = @ \union says.plugins,
      !.lock.sources = @ \union says.sources,
      !.lock.configuration = Bootstrap!With(@, top.path, kVersion[top.path]),
      !.lock.slipped = @ \/ kVersion[top.path] # top.read]
<1> DEFINE final == [left EXCEPT !.todo = Bootstrap!Found(j.roots \o says.roots)]
<1>0. /\ kPc[p] = "composing" /\ j.stack # <<>> /\ ~Bootstrap!HasNext(j)
      /\ IF Len(j.stack) > 1 THEN Bootstrap!Goes(p, "composing", left) ELSE Bootstrap!Goes(p, "discovering", final)
      /\ UNCHANGED <<Bootstrap!written, kSaved, kAccepted, kCommands>>
  BY Zenon DEF Bootstrap!Leave
<1>f. DOMAIN j = JobFields /\ ComposingInv(p) /\ LockFits(j.lock) /\ kVersion \in [Bootstrap!Paths -> Bootstrap!Versions]
      /\ kCommands \in 0..MaxToolCommands
  BY ToolFacts
<1>c. /\ j.workflow \in Workflows /\ j.roots \in Seq(DOMAIN Below)
      /\ j.lock.plugins = {} /\ DOMAIN j.candidates = {} /\ StackInv(j) /\ Gathered(j)
      /\ j.visited = DOMAIN j.lock.configuration \union {j.stack[k].path : k \in 1..Len(j.stack)}
      /\ ~j.lock.slipped =>
           /\ \A w \in DOMAIN j.lock.configuration :
                /\ Stated(j.lock, w) # None
                /\ Bootstrap!ToSet(Stated(j.lock, w).presets) \subseteq DOMAIN j.lock.configuration
           /\ Needed(j)
  BY <1>0, <1>f, Zenon DEF ComposingInv, ComposingJob
<1>1. Leaves(j, left)
  <2>1. IsLeft(j, left)
    BY DEF IsLeft, Bootstrap!Last, EntryText
  <2> HIDE DEF left, j
  <2> QED
    BY <1>0, <1>c, <1>f, <2>1, LeftFacts
<1> HIDE DEF left
<1>2. n \in Nat \ {0} /\ n \in 1..n /\ Bootstrap!ToSet(EntryText(j, n).presets) \subseteq DOMAIN j.lock.configuration
      /\ EntryText(j, n) # None
  BY <1>0, <1>c, PresetsLeft, EntryFacts
<1>3. /\ DOMAIN left = JobFields /\ left.stack = Bootstrap!Rest(j.stack) /\ left.workflow = j.workflow
      /\ left.roots = j.roots \o says.roots /\ left.roots \in Seq(DOMAIN Below)
      /\ left.visited = j.visited /\ left.candidates = j.candidates
      /\ LockFits(left.lock) /\ left.lock.plugins = {}
      /\ DOMAIN left.lock.configuration = DOMAIN j.lock.configuration \union {j.stack[n].path}
      /\ ~left.lock.slipped =>
           /\ ~j.lock.slipped /\ Stated(left.lock, j.stack[n].path) = EntryText(j, n)
           /\ \A w \in DOMAIN j.lock.configuration : Stated(left.lock, w) = Stated(j.lock, w)
  BY <1>1, <1>c, Zenon DEF Leaves, Bootstrap!Last, EntryText
<1>4. StackInv(left) /\ Gathered(left) /\ (~left.lock.slipped => Needed(left))
  BY <1>0, <1>1, <1>3, <1>c, LeftStack, LeftGathered, LeftNeeded, Zenon
<1>5. ~left.lock.slipped =>
        \A w \in DOMAIN left.lock.configuration :
          /\ Stated(left.lock, w) # None
          /\ Bootstrap!ToSet(Stated(left.lock, w).presets) \subseteq DOMAIN left.lock.configuration
  BY <1>2, <1>3, <1>c, Zenon
<1>b. /\ Len(left.stack) = n - 1 /\ left.stack \in Seq(Entries)
      /\ \A k \in 1..Len(left.stack) : left.stack[k].path = j.stack[k].path
  <2> HIDE DEF j
  <2>1. left.stack = Bootstrap!Rest(j.stack)
    BY <1>3, Zenon
  <2> QED
    BY <1>0, <1>c, <2>1, StaysOnStack
<1>6. left.visited = DOMAIN left.lock.configuration
                       \union {left.stack[k].path : k \in 1..Len(left.stack)}
  <2>2. 1..n = 1..Len(left.stack) \union {n}
    BY <1>2, <1>b
  <2>3. {j.stack[k].path : k \in 1..n}
          = {left.stack[k].path : k \in 1..Len(left.stack)} \union {j.stack[n].path}
    <3> DEFINE m == Len(left.stack)
    <3>1. 1..n = 1..m \union {n} /\ \A k \in 1..m : left.stack[k].path = j.stack[k].path
      BY <1>b, <2>2
    <3> HIDE DEF m, n, j
    <3>2. {j.stack[k].path : k \in 1..n} = {j.stack[k].path : k \in 1..m} \union {j.stack[n].path}
      BY <3>1
    <3>3. {j.stack[k].path : k \in 1..m} = {left.stack[k].path : k \in 1..m}
      BY <3>1
    <3> QED
      BY <3>2, <3>3 DEF m
  <2> HIDE DEF n
  <2> QED
    BY <1>3, <1>c, <2>3, Zenon DEF n
<1>7. UNCHANGED kVersion
  BY <1>0 DEF Bootstrap!written
<1>8. CASE Len(j.stack) > 1
  <2>1. left.stack # <<>>
    <3>1. n > 1
      BY <1>8
    <3> HIDE DEF n
    <3>2. Len(left.stack) # 0
      BY <1>2, <1>b, <3>1
    <3> QED
      BY <3>2, EmptySeq
  <2>2. ASSUME kPc'[p] = "composing", kJob'[p] = left
        PROVE  ProcessInv(p)'
    <3>1. LockFits(kJob[p].lock)'
      BY <1>3, <1>7, <2>2, Zenon DEF LockFits, ProofsFit
    <3>2. StackInv(kJob[p])'
      BY <1>4, <1>7, <2>2 DEF StackInv
    <3>3. ComposingJob(left)
      <4>1. left.workflow \in Workflows /\ DOMAIN left.candidates = {}
        BY <1>3, <1>c, Zenon
      <4> HIDE DEF j
      <4> QED
        BY <1>3, <1>4, <1>5, <1>6, <2>1, <4>1, Zenon DEF ComposingJob
    <3>4. FoundInv(p)' /\ CapturingInv(p)' /\ LoadedInv(p)' /\ RunInv(p)'
      BY <2>2 DEF FoundInv, CapturingInv, LoadedInv, RunInv, LoadedPhases
    <3> QED
      BY <2>2, <3>1, <3>2, <3>3, <3>4 DEF ProcessInv, ComposingInv
  <2>3. Bootstrap!Goes(p, "composing", left) /\ "composing" \in LocalPhasesOfTools
    BY <1>0, <1>8 DEF LocalPhasesOfTools
  <2> QED
    BY <1>0, <1>3, <1>f, <2>2, <2>3, ToolSteps, Zenon
<1>9. CASE ~(Len(j.stack) > 1)
  <2>1. left.stack = <<>> /\ Len(left.stack) = 0 /\ 1..Len(left.stack) = {} /\ n = 1
    <3>1. ~(n > 1)
      BY <1>9
    <3> HIDE DEF n
    <3>2. n - 1 = 0 /\ n = 1
      BY <1>2, <3>1
    <3>3. left.stack = <<>>
      BY <1>b, <3>2, EmptySeq
    <3> QED
      BY <1>b, <3>2, <3>3
  <2>2. j.workflow = j.stack[n].path
    BY <1>0, <1>c, <2>1 DEF StackInv
  <2>3. ~left.lock.slipped => IsComposed(left.lock, j.workflow)
    <3> SUFFICES ASSUME ~left.lock.slipped PROVE IsComposed(left.lock, j.workflow)
      OBVIOUS
    <3>1. j.workflow \in DOMAIN left.lock.configuration
      BY <1>3, <2>2, Zenon
    <3>2. left.visited = DOMAIN left.lock.configuration
      BY <1>6, <2>1
    <3>3. ASSUME NEW set \in SUBSET Workflows, j.workflow \in set,
                 \A w \in set \intersect DOMAIN left.lock.configuration :
                   Bootstrap!ToSet(Stated(left.lock, w).presets) \subseteq set
          PROVE  DOMAIN left.lock.configuration \subseteq set
      BY <1>3, <1>4, <2>1, <3>2, <3>3, Zenon DEF Needed
    <3> QED
      BY <1>5, <3>1, <3>3 DEF IsComposed
  <2>4. /\ DOMAIN final = JobFields /\ final.todo = Bootstrap!Found(left.roots)
        /\ final.roots = left.roots /\ final.lock = left.lock /\ final.selected = left.selected
        /\ final.candidates = left.candidates
    BY <1>3, Zenon DEF JobFields
  <2> HIDE DEF final
  <2>5. ASSUME kPc'[p] = "discovering", kJob'[p] = final
        PROVE  ProcessInv(p)'
    <3>1. LockFits(kJob[p].lock)'
      BY <1>3, <1>7, <2>4, <2>5, Zenon DEF LockFits, ProofsFit
    <3>2. Gathered(final)
      BY <1>4, <2>4 DEF Gathered
    <3>3. FoundInv(p)'
      BY <1>3, <1>c, <2>3, <2>4, <2>5, <3>2, Zenon DEF FoundInv
    <3>4. ComposingInv(p)' /\ CapturingInv(p)' /\ LoadedInv(p)' /\ RunInv(p)'
      BY <2>5 DEF ComposingInv, CapturingInv, LoadedInv, RunInv, LoadedPhases
    <3> QED
      BY <3>1, <3>3, <3>4 DEF ProcessInv
  <2>6. Bootstrap!Goes(p, "discovering", final) /\ "discovering" \in LocalPhasesOfTools
    BY <1>0, <1>9 DEF LocalPhasesOfTools
  <2> QED
    BY <1>0, <1>f, <2>4, <2>5, <2>6, ToolSteps
<1> QED
  BY <1>8, <1>9

LEMMA DiscoverKeeps ==
  ASSUME ToolsInv, NEW p \in ToolUsers, Bootstrap!Discover(p)
  PROVE  ToolsInv'
<1> DEFINE j == kJob[p]
<1>0. kPc[p] = "discovering" /\ UNCHANGED <<Bootstrap!written, kSaved, kAccepted, kCommands>>
  BY DEF Bootstrap!Discover
<1>f. DOMAIN j = JobFields /\ FoundInv(p) /\ LockFits(j.lock) /\ kVersion \in [Bootstrap!Paths -> Bootstrap!Versions]
      /\ kCommands \in 0..MaxToolCommands
  BY ToolFacts
<1>c. /\ j.roots \in Seq(DOMAIN Below) /\ Gathered(j)
      /\ ~j.lock.slipped => \E top \in Workflows : IsComposed(j.lock, top)
      /\ \A i \in DOMAIN j.candidates : CandidateInv(j, i)
      /\ j.lock.plugins = {} /\ j.todo \subseteq Bootstrap!Found(j.roots)
  BY <1>0, <1>f DEF FoundInv
<1>1. PICK item \in j.todo :
        LET t == item[2]
            rest == [j EXCEPT !.todo = @ \ {item}]
            found == [tool |-> t, read |-> kVersion[t]]
        IN IF Bootstrap!Says(t) = None THEN Bootstrap!Goes(p, "discovering", rest)
           ELSE /\ Bootstrap!Says(t).identity \notin DOMAIN j.candidates
                /\ Bootstrap!Goes(p, "discovering",
                        [rest EXCEPT !.candidates = Bootstrap!With(@, Bootstrap!Says(t).identity, found)])
  BY Zenon DEF Bootstrap!Discover
<1> DEFINE t == item[2]
<1> DEFINE rest == [j EXCEPT !.todo = @ \ {item}]
<1> DEFINE found == [tool |-> t, read |-> kVersion[t]]
<1>7. UNCHANGED kVersion /\ "discovering" \in LocalPhasesOfTools
  BY <1>0 DEF Bootstrap!written, LocalPhasesOfTools
<1>2. ASSUME NEW record, DOMAIN record = JobFields, record.roots = j.roots, record.lock = j.lock,
             record.selected = j.selected, record.todo = j.todo \ {item},
             \A i \in DOMAIN record.candidates : CandidateInv(record, i),
             Bootstrap!Goes(p, "discovering", record)
      PROVE  ToolsInv'
  <2>1. ASSUME kPc'[p] = "discovering", kJob'[p] = record
        PROVE  ProcessInv(p)'
    <3>1. LockFits(kJob[p].lock)'
      BY <1>2, <1>7, <1>f, <2>1 DEF LockFits, ProofsFit
    <3>2. Gathered(record)
      BY <1>2, <1>c DEF Gathered
    <3>3. \A i \in DOMAIN record.candidates : CandidateInv(record, i)'
      BY <1>2, <1>7 DEF CandidateInv
    <3>4. FoundInv(p)'
      BY <1>2, <1>c, <2>1, <3>2, <3>3 DEF FoundInv
    <3>5. ComposingInv(p)' /\ CapturingInv(p)' /\ LoadedInv(p)' /\ RunInv(p)'
      BY <2>1 DEF ComposingInv, CapturingInv, LoadedInv, RunInv, LoadedPhases
    <3> QED
      BY <3>1, <3>4, <3>5 DEF ProcessInv
  <2> QED
    BY <1>0, <1>2, <1>7, <1>f, <2>1, ToolSteps
<1>3. /\ DOMAIN rest = JobFields /\ rest.roots = j.roots /\ rest.lock = j.lock
      /\ rest.selected = j.selected /\ rest.todo = j.todo \ {item} /\ rest.candidates = j.candidates
  BY <1>f DEF JobFields
<1>4. CASE Bootstrap!Says(t) = None
  <2> HIDE DEF rest
  <2>1. \A i \in DOMAIN rest.candidates : CandidateInv(rest, i)
    BY <1>3, <1>c DEF CandidateInv
  <2> QED
    BY <1>1, <1>2, <1>3, <1>4, <2>1 DEF rest
<1>5. CASE Bootstrap!Says(t) # None
  <2> DEFINE i0 == Bootstrap!Says(t).identity
  <2> DEFINE record == [rest EXCEPT !.candidates = Bootstrap!With(j.candidates, i0, found)]
  <2>1. Bootstrap!Goes(p, "discovering", record)
    BY <1>1, <1>3, <1>5
  <2> HIDE DEF rest
  <2>2. /\ DOMAIN record = JobFields /\ record.roots = j.roots /\ record.lock = j.lock
        /\ record.selected = j.selected /\ record.todo = j.todo \ {item}
        /\ record.candidates = Bootstrap!With(j.candidates, i0, found)
    BY <1>3 DEF JobFields
  <2> HIDE DEF record
  <2>3. PICK k \in DOMAIN j.roots : t \in Below[j.roots[k]]
    <3>1. item \in Bootstrap!Found(j.roots)
      BY <1>c
    <3> QED
      BY <3>1 DEF Bootstrap!Found
  <2>4. k \in 1..Len(j.roots) /\ j.roots[k] \in DOMAIN Below
    BY <1>c, LenProperties, ElementOfSeq
  <2>5. t \in Tools /\ kVersion[t] \in Bootstrap!Versions /\ kVersion[t] <= kVersion[t]
    <3>1. t \in Tools
      BY <2>3, <2>4, ToolsAssumption
    <3> QED
      BY <1>f, <3>1 DEF Bootstrap!Paths, Bootstrap!Versions
  <2>6. ASSUME NEW i \in DOMAIN record.candidates
        PROVE  CandidateInv(record, i)
    <3>1. CASE i = i0
      <4>1. record.candidates[i] = found /\ found.tool = t /\ found.read = kVersion[t]
        BY <2>2, <3>1 DEF Bootstrap!With
      <4> HIDE DEF found
      <4> QED
        BY <1>5, <2>2, <2>3, <2>4, <2>5, <3>1, <4>1 DEF CandidateInv, Bootstrap!Says
    <3>2. CASE i # i0
      <4>1. i \in DOMAIN j.candidates /\ record.candidates[i] = j.candidates[i]
        BY <2>2, <2>6, <3>2 DEF Bootstrap!With
      <4> QED
        BY <1>c, <2>2, <4>1, Zenon DEF CandidateInv
    <3> QED
      BY <3>1, <3>2
  <2> QED
    BY <1>2, <2>1, <2>2, <2>6
<1> QED
  BY <1>4, <1>5

\* What is known of the configuration of a lock, whatever tools it has.
LEMMA SameConfiguration ==
  ASSUME NEW l, NEW m, m.configuration = l.configuration
  PROVE  /\ StatedSources(m) = StatedSources(l) /\ StatedPlugins(m) = StatedPlugins(l)
         /\ \A top : IsComposed(l, top) => IsComposed(m, top)
         /\ \A r : IsRoot(l, r) => IsRoot(m, r)
BY DEF StatedSources, StatedPlugins, IsComposed, IsRoot, Stated

\* What is proved of a candidate are files.
LEMMA OwnedFacts ==
  ASSUME NEW j, NEW i, CandidateInv(j, i)
  PROVE  LET from == j.candidates[i]
             text == Text[from.tool][from.read]
         IN /\ Bootstrap!Owned(from.tool, text) \subseteq Bootstrap!Paths
            /\ from.tool \in Bootstrap!Owned(from.tool, text) /\ text.program \in Bootstrap!Owned(from.tool, text)
<1> DEFINE from == j.candidates[i]
<1> DEFINE text == Text[from.tool][from.read]
<1>1. from.tool \in Tools /\ text.program \in ToolFiles /\ text.artifacts \subseteq ToolFiles
  BY ToolsAssumption DEF CandidateInv
<1> QED
  BY <1>1 DEF Bootstrap!Owned, Bootstrap!Paths

\* A job that goes on with other tools in its lock.
Replaces(j, record, todo, plugins) ==
  /\ DOMAIN record = JobFields /\ record.roots = j.roots /\ record.selected = j.selected
  /\ record.candidates = j.candidates /\ record.todo = todo
  /\ DOMAIN record.lock = LockFields /\ record.lock.plugins = plugins
  /\ record.lock.configuration = j.lock.configuration /\ record.lock.sources = j.lock.sources

LEMMA CaptureGoesOn ==
  ASSUME ToolsInv, NEW p \in ToolUsers, kPc[p] \in {"discovering", "capturing"},
         NEW record, NEW todo, NEW plugins,
         Replaces(kJob[p], record, todo, plugins), Bootstrap!Goes(p, "capturing", record),
         UNCHANGED <<Bootstrap!written, kSaved, kAccepted, kCommands>>,
         record.lock.slipped \in BOOLEAN, ~record.lock.slipped => ~kJob[p].lock.slipped,
         \A q \in plugins : ProofsFit(q),
         \A q, r \in plugins : q.identity = r.identity => q = r,
         CapturingJob(record)
  PROVE  ToolsInv'
<1> DEFINE j == kJob[p]
<1>1. /\ DOMAIN record = JobFields /\ record.roots = j.roots /\ record.selected = j.selected
      /\ record.candidates = j.candidates
      /\ DOMAIN record.lock = LockFields /\ record.lock.plugins = plugins
      /\ record.lock.configuration = j.lock.configuration
      /\ record.lock.sources = j.lock.sources
  BY DEF Replaces
<1>2. FoundInv(p) /\ LockFits(j.lock) /\ UNCHANGED kVersion /\ kCommands' \in 0..MaxToolCommands
  BY ToolFacts DEF Bootstrap!written
<1>3. LockFits(record.lock)
  BY <1>1, <1>2 DEF LockFits
<1>4. Gathered(record)
  <2>1. Gathered(j)
    BY <1>2 DEF FoundInv
  <2> QED
    BY <1>1, <2>1, SameConfiguration DEF Gathered
<1>5. ~record.lock.slipped => \E top \in Workflows : IsComposed(record.lock, top)
  <2>1. ~j.lock.slipped => \E top \in Workflows : IsComposed(j.lock, top)
    BY <1>2 DEF FoundInv
  <2> QED
    BY <1>1, <2>1, SameConfiguration
<1>6. \A i \in DOMAIN record.candidates : CandidateInv(record, i)
  <2>1. \A i \in DOMAIN j.candidates : CandidateInv(j, i)
    BY <1>2 DEF FoundInv
  <2> QED
    BY <1>1, <2>1, Zenon DEF CandidateInv
<1>7. record.roots \in Seq(DOMAIN Below)
  BY <1>1, <1>2 DEF FoundInv
<1>8. ASSUME kPc'[p] = "capturing", kJob'[p] = record
      PROVE  ProcessInv(p)'
  <2>1. LockFits(kJob[p].lock)'
    BY <1>2, <1>3, <1>8 DEF LockFits, ProofsFit
  <2>2. \A i \in DOMAIN record.candidates : CandidateInv(record, i)'
    BY <1>2, <1>6 DEF CandidateInv
  <2>3. FoundInv(p)'
    BY <1>4, <1>5, <1>7, <1>8, <2>2 DEF FoundInv
  <2>4. ComposingInv(p)' /\ LoadedInv(p)' /\ RunInv(p)'
    BY <1>8 DEF ComposingInv, LoadedInv, RunInv, LoadedPhases
  <2> QED
    BY <1>8, <2>1, <2>3, <2>4 DEF ProcessInv, CapturingInv
<1>9. "capturing" \in LocalPhasesOfTools
  BY DEF LocalPhasesOfTools
<1> QED
  BY <1>1, <1>2, <1>8, <1>9, ToolSteps

LEMMA ChooseKeeps ==
  ASSUME ToolsInv, NEW p \in ToolUsers, Bootstrap!Choose(p)
  PROVE  ToolsInv'
<1> DEFINE j == kJob[p]
<1> DEFINE text(i) == Text[j.candidates[i].tool][j.candidates[i].read]
<1> DEFINE plugin(i) == [tool |-> j.candidates[i].tool, identity |-> i,
                         executable |-> text(i).program, proofs |-> Bootstrap!Nothing]
<1> DEFINE files(i) == {<<i, f>> : f \in Bootstrap!Owned(j.candidates[i].tool, text(i))}
<1> DEFINE plugins == {plugin(i) : i \in j.selected}
<1> DEFINE todo == UNION {files(i) : i \in j.selected}
<1> DEFINE record == [j EXCEPT !.todo = todo, !.lock.plugins = plugins]
<1>0. /\ kPc[p] = "discovering" /\ j.selected \subseteq DOMAIN j.candidates
      /\ Bootstrap!Goes(p, "capturing", record) /\ UNCHANGED <<Bootstrap!written, kSaved, kAccepted, kCommands>>
  BY Zenon DEF Bootstrap!Choose
<1>f. DOMAIN j = JobFields /\ FoundInv(p) /\ LockFits(j.lock)
  BY ToolFacts
<1>c. \A i \in DOMAIN j.candidates : CandidateInv(j, i)
  BY <1>0, <1>f, Zenon DEF FoundInv
<1>1. Replaces(j, record, todo, plugins) /\ record.lock.slipped = j.lock.slipped
  <2> HIDE DEF todo, plugins
  <2>1. DOMAIN j.lock = LockFields
    BY <1>f DEF LockFits
  <2>2. record.lock = [j.lock EXCEPT !.plugins = plugins]
    BY <1>f DEF JobFields
  <2>3. /\ DOMAIN record.lock = LockFields /\ record.lock.plugins = plugins
        /\ record.lock.configuration = j.lock.configuration
        /\ record.lock.sources = j.lock.sources /\ record.lock.slipped = j.lock.slipped
    BY <2>1, <2>2 DEF LockFields
  <2>4. /\ DOMAIN record = JobFields /\ record.roots = j.roots /\ record.selected = j.selected
        /\ record.candidates = j.candidates /\ record.todo = todo
    BY <1>f DEF JobFields
  <2> QED
    BY <2>3, <2>4 DEF Replaces
<1> HIDE DEF record
<1>2. ASSUME NEW i \in j.selected
      PROVE  /\ ProofsFit(plugin(i)) /\ plugin(i).identity = i
             /\ plugin(i).tool = j.candidates[i].tool /\ plugin(i).executable = text(i).program
             /\ DOMAIN plugin(i).proofs = {} /\ i \in DOMAIN j.candidates
             /\ Bootstrap!Owned(j.candidates[i].tool, text(i)) \subseteq Bootstrap!Paths
  <2>1. CandidateInv(j, i) /\ i \in DOMAIN j.candidates
    BY <1>0, <1>c
  <2>2. ProofsFit(plugin(i))
    BY <2>1 DEF CandidateInv, ProofsFit, PluginFields, Bootstrap!Nothing
  <2> QED
    BY <2>1, <2>2, OwnedFacts, Zenon DEF Bootstrap!Nothing
<1>3. \A q \in plugins : \E i \in j.selected : q = plugin(i)
  OBVIOUS
<1>4. /\ \A q \in plugins : ProofsFit(q)
      /\ \A q, r \in plugins : q.identity = r.identity => q = r
  <2> HIDE DEF plugin, plugins
  <2> QED
    BY <1>2, <1>3
<1>5. {q.identity : q \in plugins} = j.selected
  <2>1. \A i \in j.selected : plugin(i) \in plugins /\ plugin(i).identity = i
    BY <1>2, Zenon
  <2> HIDE DEF plugin, plugins
  <2> QED
    BY <1>2, <1>3, <2>1
<1>6. CapturingJob(record)
  <2>1. /\ record.selected = j.selected /\ record.candidates = j.candidates /\ record.todo = todo
        /\ record.lock.plugins = plugins
    BY <1>1 DEF Replaces
  <2>2. ASSUME NEW q \in plugins
        PROVE  LET from == j.candidates[q.identity]
                   said == Text[from.tool][from.read]
               IN /\ q.identity \in DOMAIN j.candidates
                  /\ q.tool = from.tool /\ q.executable = said.program
                  /\ DOMAIN q.proofs = {}
                  /\ \A f \in Bootstrap!Owned(q.tool, said) : <<q.identity, f>> \in todo
    <3>1. PICK i \in j.selected : q = plugin(i)
      BY <1>3, Zenon
    <3>2. files(i) \subseteq todo
      OBVIOUS
    <3>3. \A f \in Bootstrap!Owned(j.candidates[i].tool, text(i)) : <<i, f>> \in files(i)
      BY Zenon
    <3> HIDE DEF plugin, plugins, files, todo
    <3> QED
      BY <1>2, <3>1, <3>2, <3>3, Zenon
  <2>3. ASSUME NEW item \in todo
        PROVE  \E q \in plugins : \E f \in Bootstrap!Paths :
                 /\ item = <<q.identity, f>>
                 /\ f \in Bootstrap!Owned(q.tool, Text[q.tool][j.candidates[q.identity].read])
    <3>1. PICK i \in j.selected : item \in files(i)
      OBVIOUS
    <3>2. PICK f \in Bootstrap!Owned(j.candidates[i].tool, text(i)) : item = <<i, f>>
      BY <3>1
    <3>3. plugin(i) \in plugins
      BY Zenon
    <3> HIDE DEF plugin, plugins, files, todo
    <3>4. f \in Bootstrap!Paths /\ item = <<plugin(i).identity, f>>
      BY <1>2, <3>2, Zenon
    <3>5. f \in Bootstrap!Owned(plugin(i).tool, Text[plugin(i).tool][j.candidates[plugin(i).identity].read])
      BY <1>2, <3>2, Zenon
    <3> QED
      BY <3>3, <3>4, <3>5, Zenon
  <2> HIDE DEF plugins, todo
  <2> QED
    BY <1>5, <2>1, <2>2, <2>3, Zenon DEF CapturingJob
<1>7. j.lock.slipped \in BOOLEAN
  BY <1>f DEF LockFits
<1> QED
  <2> HIDE DEF plugins, todo
  <2> QED
    BY <1>0, <1>1, <1>4, <1>6, <1>7, CaptureGoesOn

LEMMA CaptureKeeps ==
  ASSUME ToolsInv, NEW p \in ToolUsers, Bootstrap!Capture(p)
  PROVE  ToolsInv'
<1> DEFINE j == kJob[p]
<1>0. kPc[p] = "capturing" /\ UNCHANGED <<Bootstrap!written, kSaved, kAccepted, kCommands>>
  BY DEF Bootstrap!Capture
<1>f. DOMAIN j = JobFields /\ FoundInv(p) /\ CapturingInv(p) /\ LockFits(j.lock)
      /\ kVersion \in [Bootstrap!Paths -> Bootstrap!Versions]
  BY ToolFacts
<1>c. /\ {q.identity : q \in j.lock.plugins} = j.selected
      /\ \A q \in j.lock.plugins :
           LET from == j.candidates[q.identity]
               text == Text[from.tool][from.read]
           IN /\ q.identity \in DOMAIN j.candidates
              /\ q.tool = from.tool /\ q.executable = text.program
              /\ DOMAIN q.proofs \subseteq Bootstrap!Owned(q.tool, text)
              /\ \A f \in Bootstrap!Owned(q.tool, text) : f \in DOMAIN q.proofs \/ <<q.identity, f>> \in j.todo
              /\ ~j.lock.slipped /\ q.tool \in DOMAIN q.proofs => q.proofs[q.tool] = from.read
      /\ \A item \in j.todo : \E q \in j.lock.plugins : \E f \in Bootstrap!Paths :
           /\ item = <<q.identity, f>>
           /\ f \in Bootstrap!Owned(q.tool, Text[q.tool][j.candidates[q.identity].read])
  BY <1>0, <1>f, Zenon DEF CapturingInv, CapturingJob
<1>1. PICK item \in j.todo :
        LET from == j.candidates[item[1]]
            f == item[2]
        IN Bootstrap!Goes(p, "capturing",
             [j EXCEPT !.todo = @ \ {item}, !.lock.plugins = Bootstrap!Proved(@, item[1], f),
                       !.lock.slipped = @ \/ (f = from.tool /\ kVersion[f] # from.read)])
  BY Zenon DEF Bootstrap!Capture
<1>2. PICK q0 \in j.lock.plugins : \E f \in Bootstrap!Paths :
        /\ item = <<q0.identity, f>>
        /\ f \in Bootstrap!Owned(q0.tool, Text[q0.tool][j.candidates[q0.identity].read])
  BY <1>c, Zenon
<1>3. PICK f0 \in Bootstrap!Paths :
        /\ item = <<q0.identity, f0>>
        /\ f0 \in Bootstrap!Owned(q0.tool, Text[q0.tool][j.candidates[q0.identity].read])
  BY <1>2, Zenon
<1> DEFINE i0 == q0.identity
<1> DEFINE from0 == j.candidates[i0]
<1> DEFINE slips == j.lock.slipped \/ (f0 = from0.tool /\ kVersion[f0] # from0.read)
<1> DEFINE todo == j.todo \ {item}
<1> DEFINE plugins == Bootstrap!Proved(j.lock.plugins, i0, f0)
<1> DEFINE record == [j EXCEPT !.todo = @ \ {item}, !.lock.plugins = Bootstrap!Proved(@, i0, f0),
                               !.lock.slipped = @ \/ (f0 = from0.tool /\ kVersion[f0] # from0.read)]
<1>4. Bootstrap!Goes(p, "capturing", record)
  <2>1. item[1] = i0 /\ item[2] = f0
    BY <1>3
  <2> HIDE DEF i0
  <2> QED
    BY <1>1, <2>1
<1>5. /\ Replaces(j, record, todo, plugins) /\ record.lock.slipped \in BOOLEAN
      /\ record.lock.slipped <=> slips
  <2>1. DOMAIN j.lock = LockFields /\ j.lock.slipped \in BOOLEAN
    BY <1>f DEF LockFits
  <2>2. record.lock = [j.lock EXCEPT !.plugins = plugins, !.slipped = slips]
    BY <1>f DEF JobFields
  <2>3. /\ DOMAIN record = JobFields /\ record.roots = j.roots /\ record.selected = j.selected
        /\ record.candidates = j.candidates /\ record.todo = todo
    BY <1>f DEF JobFields
  <2>4. slips \in BOOLEAN
    BY <2>1
  <2> HIDE DEF plugins, slips, todo, record
  <2> DEFINE one == [j.lock EXCEPT !.plugins = plugins]
  <2>5. /\ DOMAIN one = LockFields /\ one.plugins = plugins
        /\ one.configuration = j.lock.configuration /\ one.sources = j.lock.sources
    BY <2>1 DEF LockFields
  <2>6. record.lock = [one EXCEPT !.slipped = slips]
    BY <2>2
  <2> HIDE DEF one
  <2>7. record.lock.slipped = slips
    BY <2>5, <2>6, Zenon DEF LockFields
  <2>8. /\ DOMAIN record.lock = LockFields /\ record.lock.plugins = plugins
        /\ record.lock.configuration = j.lock.configuration /\ record.lock.sources = j.lock.sources
    BY <2>5, <2>6 DEF LockFields
  <2> QED
    BY <2>3, <2>4, <2>7, <2>8 DEF Replaces
<1> HIDE DEF record
<1>6. /\ \A q \in j.lock.plugins : ProofsFit(q)
      /\ \A q, r \in j.lock.plugins : q.identity = r.identity => q = r
  BY <1>f DEF LockFits
<1> DEFINE proved == [q0 EXCEPT !.proofs = Bootstrap!With(@, f0, kVersion[f0])]
<1>7. /\ DOMAIN proved = PluginFields /\ proved.identity = i0 /\ proved.tool = q0.tool
      /\ proved.executable = q0.executable /\ proved.proofs = Bootstrap!With(q0.proofs, f0, kVersion[f0])
  BY <1>6 DEF ProofsFit, PluginFields
<1> HIDE DEF proved
<1>8. /\ DOMAIN proved.proofs = DOMAIN q0.proofs \union {f0}
      /\ proved.proofs[f0] = kVersion[f0]
      /\ \A f \in DOMAIN q0.proofs : f # f0 => proved.proofs[f] = q0.proofs[f]
      /\ proved.proofs = [f \in DOMAIN proved.proofs |-> proved.proofs[f]]
  <2> DEFINE found == proved.proofs
  <2>1. found = [f \in DOMAIN q0.proofs \union {f0} |-> IF f = f0 THEN kVersion[f0] ELSE q0.proofs[f]]
    BY <1>7 DEF Bootstrap!With
  <2> HIDE DEF found
  <2>2. /\ DOMAIN found = DOMAIN q0.proofs \union {f0} /\ found[f0] = kVersion[f0]
        /\ \A f \in DOMAIN q0.proofs : f # f0 => found[f] = q0.proofs[f]
        /\ found = [f \in DOMAIN found |-> found[f]]
    BY <2>1
  <2> QED
    BY <2>2 DEF found
<1>9. ProofsFit(proved)
  <2>1. kVersion[f0] \in Bootstrap!Versions /\ kVersion[f0] <= kVersion[f0]
    BY <1>f DEF Bootstrap!Versions
  <2> QED
    BY <1>6, <1>7, <1>8, <2>1 DEF ProofsFit
<1>10. \A q : q \in plugins <=> q = proved \/ (q \in j.lock.plugins /\ q # q0)
  <2>1. \A q \in j.lock.plugins : q.identity = i0 <=> q = q0
    BY <1>6
  <2> QED
    BY <2>1 DEF Bootstrap!Proved, proved
<1> HIDE DEF plugins
<1>11. \A q \in plugins : ProofsFit(q)
  BY <1>6, <1>9, <1>10
<1>12. \A q, r \in plugins : q.identity = r.identity => q = r
  BY <1>6, <1>7, <1>10
<1>13. {q.identity : q \in plugins} = j.selected
  <2>1. \A q \in plugins : \E r \in j.lock.plugins : r.identity = q.identity
    BY <1>7, <1>10
  <2>2. \A r \in j.lock.plugins : \E q \in plugins : r.identity = q.identity
    BY <1>7, <1>10
  <2>3. {q.identity : q \in plugins} = {q.identity : q \in j.lock.plugins}
    BY <2>1, <2>2
  <2> QED
    BY <1>c, <2>3, Zenon
<1>14. ASSUME NEW q \in plugins
       PROVE  LET from == j.candidates[q.identity]
                  text == Text[from.tool][from.read]
              IN /\ q.identity \in DOMAIN j.candidates
                 /\ q.tool = from.tool /\ q.executable = text.program
                 /\ DOMAIN q.proofs \subseteq Bootstrap!Owned(q.tool, text)
                 /\ \A f \in Bootstrap!Owned(q.tool, text) : f \in DOMAIN q.proofs \/ <<q.identity, f>> \in todo
                 /\ ~slips /\ q.tool \in DOMAIN q.proofs => q.proofs[q.tool] = from.read
  <2>1. CASE q = proved
    <3> DEFINE said == Text[from0.tool][from0.read]
    <3>1. /\ i0 \in DOMAIN j.candidates /\ q0.tool = from0.tool /\ q0.executable = said.program
          /\ DOMAIN q0.proofs \subseteq Bootstrap!Owned(q0.tool, said)
          /\ \A f \in Bootstrap!Owned(q0.tool, said) : f \in DOMAIN q0.proofs \/ <<i0, f>> \in j.todo
          /\ ~j.lock.slipped /\ q0.tool \in DOMAIN q0.proofs => q0.proofs[q0.tool] = from0.read
      BY <1>c, Zenon
    <3>2. f0 \in Bootstrap!Owned(q0.tool, said)
      BY <1>3, <3>1, Zenon
    <3>3. item = <<i0, f0>>
      BY <1>3
    <3> HIDE DEF i0, from0, said
    <3>4. \A f \in Bootstrap!Owned(q0.tool, said) : f \in DOMAIN proved.proofs \/ <<i0, f>> \in todo
      BY <1>8, <3>1, <3>3
    <3>5. ~slips /\ q0.tool \in DOMAIN proved.proofs => proved.proofs[q0.tool] = from0.read
      BY <1>8, <3>1
    <3> QED
      BY <1>7, <1>8, <2>1, <3>1, <3>2, <3>4, <3>5, Zenon DEF said, from0
  <2>2. CASE q \in j.lock.plugins /\ q # q0
    <3> DEFINE from == j.candidates[q.identity]
    <3> DEFINE text == Text[from.tool][from.read]
    <3>1. /\ q.identity \in DOMAIN j.candidates
          /\ q.tool = from.tool /\ q.executable = text.program
          /\ DOMAIN q.proofs \subseteq Bootstrap!Owned(q.tool, text)
          /\ \A f \in Bootstrap!Owned(q.tool, text) : f \in DOMAIN q.proofs \/ <<q.identity, f>> \in j.todo
          /\ ~j.lock.slipped /\ q.tool \in DOMAIN q.proofs => q.proofs[q.tool] = from.read
      BY <1>c, <2>2, Zenon
    <3>2. \A f : <<q.identity, f>> # item
      BY <1>3, <1>6, <2>2
    <3> HIDE DEF from, text
    <3> QED
      BY <3>1, <3>2, Zenon DEF from, text
  <2> QED
    BY <1>10, <2>1, <2>2, Zenon
<1>15. ASSUME NEW one \in todo
       PROVE  \E q \in plugins : \E f \in Bootstrap!Paths :
                /\ one = <<q.identity, f>>
                /\ f \in Bootstrap!Owned(q.tool, Text[q.tool][j.candidates[q.identity].read])
  <2>1. PICK q \in j.lock.plugins : \E f \in Bootstrap!Paths :
          /\ one = <<q.identity, f>>
          /\ f \in Bootstrap!Owned(q.tool, Text[q.tool][j.candidates[q.identity].read])
    BY <1>c, Zenon
  <2>2. CASE q = q0
    BY <1>7, <1>10, <2>1, <2>2, Zenon
  <2>3. CASE q # q0
    BY <1>10, <2>1, <2>3, Zenon
  <2> QED
    BY <2>2, <2>3
<1>16. CapturingJob(record)
  <2>1. /\ record.selected = j.selected /\ record.candidates = j.candidates /\ record.todo = todo
        /\ record.lock.plugins = plugins
    BY <1>5 DEF Replaces
  <2> HIDE DEF todo, slips
  <2> QED
    BY <1>5, <1>13, <1>14, <1>15, <2>1, Zenon DEF CapturingJob
<1>17. ~record.lock.slipped => ~j.lock.slipped
  BY <1>5
<1> QED
  <2> HIDE DEF todo
  <2> QED
    BY <1>0, <1>4, <1>5, <1>11, <1>12, <1>16, <1>17, CaptureGoesOn, Zenon

LEMMA SaveKeeps ==
  ASSUME ToolsInv, NEW p \in ToolUsers, Bootstrap!Save(p)
  PROVE  ToolsInv'
<1> DEFINE j == kJob[p]
<1> DEFINE l == j.lock
<1>0. /\ kPc[p] = "capturing" /\ j.todo = {} /\ kSaved' = l /\ Bootstrap!Goes(p, "idle", Bootstrap!NoJob)
      /\ UNCHANGED <<Bootstrap!written, kAccepted, kCommands>>
  BY DEF Bootstrap!Save
<1>f. FoundInv(p) /\ CapturingInv(p) /\ LockFits(l) /\ kCommands \in 0..MaxToolCommands
  BY ToolFacts
<1>c. /\ Gathered(j) /\ j.roots \in Seq(DOMAIN Below)
      /\ ~l.slipped => \E top \in Workflows : IsComposed(l, top)
      /\ \A i \in DOMAIN j.candidates : CandidateInv(j, i)
  BY <1>0, <1>f DEF FoundInv
<1>1. ASSUME NEW q \in l.plugins
      PROVE  PluginWhole(l, q)
  <2> DEFINE from == j.candidates[q.identity]
  <2> DEFINE text == Text[from.tool][from.read]
  <2>1. /\ q.identity \in DOMAIN j.candidates
        /\ q.tool = from.tool /\ q.executable = text.program
        /\ DOMAIN q.proofs \subseteq Bootstrap!Owned(q.tool, text)
        /\ \A f \in Bootstrap!Owned(q.tool, text) : f \in DOMAIN q.proofs \/ <<q.identity, f>> \in j.todo
        /\ ~l.slipped /\ q.tool \in DOMAIN q.proofs => q.proofs[q.tool] = from.read
    BY <1>0, <1>f, Zenon DEF CapturingInv, CapturingJob
  <2>2. CandidateInv(j, q.identity)
    BY <1>c, <2>1, Zenon
  <2>3. from.tool \in Bootstrap!Owned(from.tool, text) /\ text.program \in Bootstrap!Owned(from.tool, text)
    BY <2>2, OwnedFacts
  <2>4. DOMAIN q.proofs = Bootstrap!Owned(q.tool, text)
    BY <1>0, <2>1, Zenon
  <2>5. text # None /\ text.identity = q.identity
    BY <2>2 DEF CandidateInv
  <2>6. PICK k \in 1..Len(j.roots) : from.tool \in Below[j.roots[k]]
    BY <2>2, Zenon DEF CandidateInv
  <2>7. j.roots[k] \in DOMAIN Below /\ (~l.slipped => IsRoot(l, j.roots[k]))
    <3>1. j.roots[k] \in DOMAIN Below
      BY <1>c, ElementOfSeq
    <3>2. ~l.slipped => IsRoot(l, j.roots[k])
      BY <1>c DEF Gathered
    <3> QED
      BY <3>1, <3>2
  <2> HIDE DEF from, l
  <2>8. ~l.slipped => Text[q.tool][q.proofs[q.tool]] = text
    BY <2>1, <2>3, <2>4
  <2> HIDE DEF text
  <2> QED
    BY <2>1, <2>3, <2>4, <2>5, <2>6, <2>7, <2>8 DEF PluginWhole
<1>2. LockWhole(l)
  <2>1. {q.identity : q \in l.plugins} = j.selected
    BY <1>0, <1>f, Zenon DEF CapturingInv, CapturingJob
  <2> QED
    BY <1>1, <1>c, <2>1 DEF LockWhole, Gathered
<1>3. LockFits(kSaved)' /\ LockWhole(kSaved)'
  <2>1. UNCHANGED kVersion /\ LockFits(l) /\ LockWhole(l)
    BY <1>0, <1>2, <1>f DEF Bootstrap!written
  <2> HIDE DEF l
  <2> QED
    BY <1>0, <2>1 DEF LockFits, ProofsFit
<1>4. kPc'[p] = "idle" /\ kJob'[p] = Bootstrap!NoJob
  BY <1>0, Arrived
<1>5. ProcessInv(p)'
  BY <1>4, EmptyLockFits
  DEF ProcessInv, ComposingInv, FoundInv, CapturingInv, LoadedInv, RunInv, LoadedPhases
<1>6. Bootstrap!AcceptedIsLocked' /\ kCommands' \in 0..MaxToolCommands /\ "idle" \in LocalPhasesOfTools
  BY <1>0, <1>f, AcceptedStays DEF ToolsInv, LocalPhasesOfTools
<1> QED
  BY <1>0, <1>3, <1>5, <1>6, EmptyLockFits, ToolWorks

LEMMA InitTools == Bootstrap!Init => ToolsInv
<1> SUFFICES ASSUME Bootstrap!Init PROVE ToolsInv
  OBVIOUS
<1>1. ToolTypes
  BY ToolsAssumption, EmptyLockFits
  DEF Bootstrap!Init, ToolTypes, Bootstrap!Versions, LocalPhasesOfTools, Bootstrap!NoJob,
      JobFields
<1>2. ASSUME NEW p \in ToolUsers
      PROVE  ProcessInv(p)
  <2>1. kJob[p] = Bootstrap!NoJob /\ kPc[p] = "idle"
    BY DEF Bootstrap!Init
  <2>2. LockFits(Bootstrap!NoJob.lock)
    BY DEF LockFits, Bootstrap!NoLock, Bootstrap!Nothing, LockFields, Bootstrap!NoJob
  <2> QED
    BY <2>1, <2>2
    DEF ProcessInv, ComposingInv, FoundInv, CapturingInv, LoadedInv, RunInv, LoadedPhases
<1>3. Bootstrap!AcceptedIsLocked /\ kSaved = None
  BY DEF Bootstrap!Init, Bootstrap!AcceptedIsLocked
<1> QED
  BY <1>1, <1>2, <1>3 DEF ToolsInv

LEMMA NextTools == ToolsInv /\ [Bootstrap!Next]_Bootstrap!vars => ToolsInv'
<1> SUFFICES ASSUME ToolsInv, [Bootstrap!Next]_Bootstrap!vars PROVE ToolsInv'
  OBVIOUS
<1>1. ASSUME NEW p \in ToolUsers, Bootstrap!Step(p)
      PROVE  ToolsInv'
  <2>1. CASE \E w \in Workflows : Bootstrap!BeginLock(p, w) \/ Bootstrap!Load(p, w)
    BY <2>1, LockBegins, LoadKeeps
  <2>2. CASE Bootstrap!Enter(p)
    BY <2>2, EnterKeeps
  <2>3. CASE Bootstrap!Leave(p)
    BY <2>3, LeaveKeeps
  <2>4. CASE Bootstrap!Discover(p)
    BY <2>4, DiscoverKeeps
  <2>5. CASE Bootstrap!Choose(p)
    BY <2>5, ChooseKeeps
  <2>6. CASE Bootstrap!Capture(p)
    BY <2>6, CaptureKeeps
  <2>7. CASE Bootstrap!Save(p)
    BY <2>7, SaveKeeps
  <2>8. CASE Bootstrap!Verify(p)
    BY <2>8, VerifyKeeps
  <2>9. CASE Bootstrap!Open(p) \/ Bootstrap!StartStep(p)
    BY <2>9, OpenKeeps
  <2>10. CASE Bootstrap!ReadManifest(p)
    BY <2>10, ReadManifestKeeps
  <2>11. CASE Bootstrap!Ready(p)
    BY <2>11, ReadyKeeps
  <2>12. CASE Bootstrap!Spawn(p)
    BY <2>12, SpawnKeeps
  <2>13. CASE Bootstrap!UseArtifact(p)
    BY <2>13, UseArtifactKeeps
  <2>14. CASE Bootstrap!Finish(p)
    BY <2>14, FinishKeeps
  <2>15. CASE Bootstrap!Accept(p)
    BY <2>15, AcceptKeeps
  <2>16. CASE Bootstrap!StepFails(p)
    BY <2>16, StepFailsKeeps
  <2>17. CASE Bootstrap!Fail(p)
    BY <2>17, FailKeeps
  <2> QED
    BY <1>1, <2>1, <2>2, <2>3, <2>4, <2>5, <2>6, <2>7, <2>8, <2>9, <2>10, <2>11, <2>12, <2>13,
       <2>14, <2>15, <2>16, <2>17 DEF Bootstrap!Step
<1>2. CASE UNCHANGED Bootstrap!vars
  <2>1. UNCHANGED kVersion /\ \A p \in ToolUsers : kPc'[p] = kPc[p] /\ kJob'[p] = kJob[p]
    BY <1>2 DEF Bootstrap!vars
  <2>2. \A p \in ToolUsers : ProcessInv(p)'
    BY <2>1, ProcessStays DEF ToolsInv
  <2>3. ToolTypes' /\ Bootstrap!AcceptedIsLocked'
    BY <1>2, AcceptedStays DEF ToolsInv, ToolTypes, Bootstrap!vars
  <2>4. kSaved' # None => LockFits(kSaved)' /\ LockWhole(kSaved)'
    BY <1>2 DEF ToolsInv, LockFits, ProofsFit, Bootstrap!vars
  <2> QED
    BY <2>2, <2>3, <2>4 DEF ToolsInv
<1> QED
  BY <1>1, <1>2, EditKeeps DEF Bootstrap!Next

\* The workflows that a lock has proofs of are the ones that the workflow at its top is
\* composed of, as the files were when the proofs were of them.
LEMMA ComposedOfTop ==
  ASSUME NEW l, NEW at, NEW top \in Workflows, IsComposed(l, top),
         DOMAIN l.configuration \subseteq Workflows,
         \A w \in DOMAIN l.configuration : at[w] = l.configuration[w]
  PROVE  DOMAIN l.configuration = Bootstrap!Composed(top, at)
<1> DEFINE all == DOMAIN l.configuration
<1>1. \A w \in all : Text[w][at[w]] = Stated(l, w)
  BY DEF Stated
<1>2. ASSUME NEW w \in all
      PROVE  w \in Bootstrap!Composed(top, at)
  <2>1. ASSUME NEW set \in SUBSET Workflows, top \in set, Bootstrap!Closed(set, at)
        PROVE  w \in set
    <3>1. \A x \in set \intersect all : Bootstrap!ToSet(Stated(l, x).presets) \subseteq set
      BY <1>1, <2>1 DEF Bootstrap!Closed, IsComposed
    <3> QED
      BY <2>1, <3>1 DEF IsComposed
  <2> QED
    BY <2>1 DEF Bootstrap!Composed
<1>3. ASSUME NEW w \in Bootstrap!Composed(top, at)
      PROVE  w \in all
  <2>1. top \in all /\ Bootstrap!Closed(all, at)
    BY <1>1 DEF IsComposed, Bootstrap!Closed
  <2> QED
    BY <2>1 DEF Bootstrap!Composed
<1> QED
  BY <1>2, <1>3

LEMMA LoadedFromCurrent == ToolsInv => Bootstrap!LoadedIsCurrent
<1> SUFFICES ASSUME ToolsInv, NEW p \in ToolUsers,
                    kPc[p] \in {"opening", "ready", "checking", "running", "rechecking"},
                    ~kJob[p].lock.slipped
             PROVE  LET l == kJob[p].lock
                        at == kJob[p].began
                        text(f) == Text[f][at[f]]
                    IN
                    /\ \E top \in Workflows :
                         LET all == Bootstrap!Composed(top, at) IN
                         /\ kJob[p].workflow \in all
                         /\ l.configuration = [w \in all |-> at[w]]
                         /\ l.sources = UNION {text(w).sources : w \in all}
                         /\ {q.identity : q \in l.plugins} = UNION {text(w).plugins : w \in all}
                         /\ \A q \in l.plugins :
                              \E w \in all : \E r \in Bootstrap!ToSet(text(w).roots) : q.tool \in Below[r]
                    /\ \A q \in l.plugins :
                         /\ text(q.tool).identity = q.identity /\ text(q.tool).program = q.executable
                         /\ q.proofs = [f \in Bootstrap!Owned(q.tool, text(q.tool)) |-> at[f]]
  BY DEF Bootstrap!LoadedIsCurrent
<1> DEFINE l == kJob[p].lock
<1> DEFINE at == kJob[p].began
<1> DEFINE text(f) == Text[f][at[f]]
<1> DEFINE conf == l.configuration
<1>1. LockWhole(l) /\ LockFits(l) /\ kJob[p].workflow \in DOMAIN conf
      /\ \A item \in AllProofs(l) : at[item[1]] = item[2]
  BY ToolFacts DEF LoadedInv, LoadedPhases
<1>2. \A w \in DOMAIN conf : at[w] = conf[w]
  <2>1. \A w \in DOMAIN conf : <<w, conf[w]>> \in AllProofs(l)
    BY DEF AllProofs, Bootstrap!ProofsIn
  <2> HIDE DEF conf, at, l
  <2> QED
    BY <1>1, <2>1
<1>3. \A q \in l.plugins : \A f \in DOMAIN q.proofs : at[f] = q.proofs[f]
  <2>1. \A q \in l.plugins : \A f \in DOMAIN q.proofs : <<f, q.proofs[f]>> \in AllProofs(l)
    BY DEF AllProofs, Bootstrap!Proofs, Bootstrap!ProofsIn
  <2> HIDE DEF at, l
  <2> QED
    BY <1>1, <2>1
<1>4. PICK top \in Workflows : IsComposed(l, top)
  BY <1>1 DEF LockWhole
<1>5. DOMAIN conf = Bootstrap!Composed(top, at)
  BY <1>1, <1>2, <1>4, ComposedOfTop DEF LockFits
<1> DEFINE all == Bootstrap!Composed(top, at)
<1>6. conf = [w \in all |-> at[w]]
  <2>1. conf = [w \in DOMAIN conf |-> conf[w]]
    BY <1>1 DEF LockFits
  <2> HIDE DEF conf, at, all
  <2>2. [w \in DOMAIN conf |-> conf[w]] = [w \in DOMAIN conf |-> at[w]]
    BY <1>2
  <2> QED
    BY <1>5, <2>1, <2>2 DEF all
<1>7. \A w \in all : Stated(l, w) = text(w)
  <2> HIDE DEF at, all
  <2> QED
    BY <1>2, <1>5 DEF Stated, all
<1>8. l.sources = StatedSources(l) /\ {q.identity : q \in l.plugins} = StatedPlugins(l)
  BY <1>1 DEF LockWhole
<1>9. /\ l.sources = UNION {text(w).sources : w \in all}
      /\ {q.identity : q \in l.plugins} = UNION {text(w).plugins : w \in all}
  <2>1. StatedSources(l) = UNION {Stated(l, w).sources : w \in all}
        /\ StatedPlugins(l) = UNION {Stated(l, w).plugins : w \in all}
    BY <1>5 DEF StatedSources, StatedPlugins
  <2> HIDE DEF text, all, l
  <2> QED
    BY <1>7, <1>8, <2>1
<1>10. ASSUME NEW q \in l.plugins
       PROVE  /\ \E w \in all : \E r \in Bootstrap!ToSet(text(w).roots) : q.tool \in Below[r]
              /\ text(q.tool).identity = q.identity /\ text(q.tool).program = q.executable
              /\ q.proofs = [f \in Bootstrap!Owned(q.tool, text(q.tool)) |-> at[f]]
  <2> DEFINE said == Text[q.tool][q.proofs[q.tool]]
  <2>1. /\ q.tool \in DOMAIN q.proofs /\ said.identity = q.identity /\ said.program = q.executable
        /\ DOMAIN q.proofs = Bootstrap!Owned(q.tool, said)
        /\ \E r \in DOMAIN Below : IsRoot(l, r) /\ q.tool \in Below[r]
    BY <1>1 DEF LockWhole, PluginWhole
  <2>2. said = text(q.tool)
    BY <1>3, <2>1
  <2>3. \E w \in all : \E r \in Bootstrap!ToSet(text(w).roots) : q.tool \in Below[r]
    <3>1. PICK r \in DOMAIN Below : IsRoot(l, r) /\ q.tool \in Below[r]
      BY <2>1
    <3>2. PICK w \in DOMAIN conf : r \in Bootstrap!ToSet(Stated(l, w).roots)
      BY <3>1 DEF IsRoot
    <3> HIDE DEF text, all, l
    <3> QED
      BY <1>5, <1>7, <3>1, <3>2 DEF all
  <2>4. q.proofs = [f \in DOMAIN q.proofs |-> at[f]]
    <3>1. q.proofs = [f \in DOMAIN q.proofs |-> q.proofs[f]]
      BY <1>1 DEF LockFits, ProofsFit
    <3> HIDE DEF at, l
    <3>2. [f \in DOMAIN q.proofs |-> q.proofs[f]] = [f \in DOMAIN q.proofs |-> at[f]]
      BY <1>3
    <3> QED
      BY <3>1, <3>2
  <2> HIDE DEF said, text, at
  <2> QED
    BY <2>1, <2>2, <2>3, <2>4
<1> HIDE DEF text, all, l, at, conf
<1> QED
  BY <1>1, <1>4, <1>5, <1>6, <1>9, <1>10, Zenon DEF text, all, l, at, conf

LEMMA ToolsTyped == ToolsInv => Bootstrap!TypeOK
<1> SUFFICES ASSUME ToolsInv PROVE Bootstrap!TypeOK
  OBVIOUS
<1>1. \A p \in ToolUsers : \A q \in kJob[p].lock.plugins : DOMAIN q.proofs \subseteq Bootstrap!Paths
  BY ToolFacts DEF LockFits, ProofsFit
<1> QED
  BY <1>1 DEF ToolsInv, ToolTypes, Bootstrap!TypeOK, Bootstrap!Verifying, LocalPhasesOfTools

-----------------------------------------------------------------------------
(* ContractSync.                                                            *)

\* What a builder can have read, staged and saved.
Partial(S, T) == UNION {[D -> T] : D \in SUBSET S}
SyncJobs ==
  [digests : Partial(Sync!Described, Sync!Versions), staged : Partial(Contracts, Sync!Versions),
   kept : SUBSET Contracts, compared : SUBSET Sync!Described, saved : Partial(Sync!Generated, Sync!Contents),
   todo : SUBSET Sync!Generated, recorded : SUBSET Contracts]

\* Until the end nothing is older than what was read before.
SyncTypes ==
  /\ Sync!TypeOK /\ gJob \in [Processes -> SyncJobs]
  /\ \A d \in Sync!Described : gSource[d] <= gEdits + 1
  /\ gMoments \subseteq [Sync!Described -> Sync!Versions]
  /\ gLock # None => gSource \in gMoments /\ \A m \in gMoments, d \in Sync!Described : m[d] <= gSource[d]

\* Who works has the lock; nobody else has read anything, or reports.
SyncLock ==
  /\ \A b \in Processes : (gPc[b] # "idle" <=> gLock = b) /\ (gPc[b] = "idle" => gJob[b] = Sync!NoJob)
  /\ gLock # None => gReport \in {"none", "mixed"}

\* How far a builder is.
ReadInv(b) ==
  LET j == gJob[b] IN
  gPc[b] # "idle" =>
    /\ \A d \in DOMAIN j.digests : j.digests[d] <= gSource[d]
    /\ gPc[b] # "reading" => gAsked \intersect Sync!Described \subseteq DOMAIN j.digests
    /\ gPc[b] \in {"reading", "staging", "comparing"} => gDisk = gFound /\ j.recorded = {}
    /\ gPc[b] \in {"reading", "staging"} => j.compared = {}
    /\ gPc[b] = "reading" => DOMAIN j.staged = {} /\ j.kept = {}
    /\ DOMAIN j.staged \subseteq gAsked
    /\ gPc[b] \notin {"reading", "staging"} => DOMAIN j.staged = gAsked
    /\ \A c \in j.kept : c \in gAsked \ OwnedContracts /\ gFound[Sync!Projection(c)] = TornFile

\* A contract that is generated from a descriptor that an earlier run extracted; the
\* others are staged between their digest and the comparison, and thus of one moment.
Extracted(c) == Uses[c] \in OwnedContracts \ gAsked
Between(j, c, now) ==
  Uses[c] \in DOMAIN j.digests /\ j.digests[Uses[c]] <= j.staged[c] /\ j.staged[c] <= now[Uses[c]]
StagedInv(b) ==
  LET j == gJob[b] IN
  gPc[b] # "idle" =>
    /\ \A c \in DOMAIN j.staged : Extracted(c) => j.staged[c] = gFound[Sync!Descriptor(Uses[c])]
    /\ gPc[b] = "staging" => \A c \in DOMAIN j.staged : ~Extracted(c) => Between(j, c, gSource)
    /\ gPc[b] = "comparing" =>
         \E m \in gMoments :
           /\ \A d \in DOMAIN j.digests :
                j.digests[d] <= m[d] /\ (d \in j.compared => m[d] = j.digests[d])
           /\ \A c \in gAsked : ~Extracted(c) => Between(j, c, m)
    /\ gPc[b] \in {"installing", "restoring"} =>
         \E m \in gMoments : \A c \in gAsked : ~Extracted(c) => j.staged[c] = m[Uses[c]]

\* Which files are as they were, and which are as they were staged.
InstallInv(b) ==
  LET j == gJob[b] IN
  gPc[b] \in {"installing", "restoring"} =>
    /\ DOMAIN j.saved = Sync!Changes(b) /\ \A f \in Sync!Changes(b) : j.saved[f] = gFound[f]
    /\ j.todo \subseteq Sync!Changes(b)
    /\ \A f \in Sync!Generated \ Sync!Changes(b) : gDisk[f] = gFound[f]
    /\ gPc[b] = "installing" =>
         /\ \A f \in Sync!Changes(b) : gDisk[f] = IF f \in j.todo THEN gFound[f] ELSE Sync!Made(b, f)
         /\ \A c \in j.recorded : c \in gAsked /\ gBaseline[Uses[c]] = j.staged[c]
    /\ gPc[b] = "restoring" /\ gReport # "mixed" =>
         \A f \in Sync!Changes(b) \ j.todo : gDisk[f] = gFound[f]

\* What a contract may be compared with, and what is staged, may come after what was
\* accepted last.
MayFollow(d, x) == (x \in Sync!Versions => Sync!Compatible(gAccepted[d], x)) /\ (gBaseline[d] = None => x # None)
CompatInv ==
  \A d \in Sync!Described \ gDoubted : gAccepted[d] # None =>
    /\ gBaseline[d] \in Sync!Versions => Sync!Compatible(gAccepted[d], gBaseline[d])
    /\ gBaseline[d] = None => d \in OwnedContracts
    /\ d \in OwnedContracts => /\ MayFollow(d, gDisk[Sync!Descriptor(d)])
                               /\ gLock # None => MayFollow(d, gFound[Sync!Descriptor(d)])
    /\ \A b \in Processes : \A c \in DOMAIN gJob[b].staged :
         Uses[c] = d => Sync!Compatible(gAccepted[d], gJob[b].staged[c])

SyncInv ==
  /\ SyncTypes /\ SyncLock /\ CompatInv /\ Sync!GeneratedTogether
  /\ \A b \in Processes : ReadInv(b) /\ StagedInv(b) /\ InstallInv(b)

LEMMA PartialElim ==
  ASSUME NEW S, NEW T, NEW fn \in Partial(S, T)
  PROVE  DOMAIN fn \subseteq S /\ \A x \in DOMAIN fn : fn[x] \in T
BY DEF Partial

LEMMA NothingIsPartial ==
  ASSUME NEW S, NEW T
  PROVE  Sync!Nothing \in Partial(S, T) /\ DOMAIN Sync!Nothing = {}
<1>1. Sync!Nothing \in [{} -> T]
  BY DEF Sync!Nothing
<1>2. {} \in SUBSET S
  OBVIOUS
<1> QED
  BY <1>1, <1>2 DEF Partial

LEMMA WithIsPartial ==
  ASSUME NEW S, NEW T, NEW fn \in Partial(S, T), NEW x \in S, NEW v \in T
  PROVE  Sync!With(fn, x, v) \in Partial(S, T)
<1>1. DOMAIN fn \subseteq S /\ \A y \in DOMAIN fn : fn[y] \in T
  BY PartialElim
<1>2. DOMAIN fn \union {x} \in SUBSET S
  BY <1>1
<1>3. Sync!With(fn, x, v) \in [DOMAIN fn \union {x} -> T]
  BY <1>1 DEF Sync!With
<1> QED
  BY <1>2, <1>3 DEF Partial

LEMMA NoJobType == Sync!NoJob \in SyncJobs /\ DOMAIN Sync!NoJob.staged = {} /\ DOMAIN Sync!NoJob.digests = {}
  /\ Sync!NoJob.kept = {} /\ Sync!NoJob.compared = {} /\ Sync!NoJob.recorded = {} /\ Sync!NoJob.todo = {}
BY NothingIsPartial DEF Sync!NoJob, SyncJobs

\* What is known of the builder that works.
LEMMA BuilderFacts ==
  ASSUME SyncInv, NEW b \in Processes
  PROVE  /\ gJob \in [Processes -> SyncJobs] /\ gJob[b] \in SyncJobs
         /\ gPc \in [Processes -> {"idle", "reading", "staging", "comparing", "installing", "restoring"}]
         /\ gSource \in [Sync!Described -> Sync!Versions] /\ gBaseline \in [Sync!Described -> Sync!Contents]
         /\ gDisk \in [Sync!Generated -> Sync!Contents] /\ gFound \in [Sync!Generated -> Sync!Contents]
         /\ ReadInv(b) /\ StagedInv(b) /\ InstallInv(b)
         /\ (gPc[b] # "idle" <=> gLock = b) /\ (gPc[b] = "idle" => gJob[b] = Sync!NoJob)
         /\ b # None /\ gAsked \subseteq Contracts
         /\ DOMAIN gJob[b].digests \subseteq Sync!Described
         /\ \A d \in DOMAIN gJob[b].digests : gJob[b].digests[d] \in Sync!Versions
         /\ DOMAIN gJob[b].staged \subseteq Contracts
         /\ \A c \in DOMAIN gJob[b].staged : gJob[b].staged[c] \in Sync!Versions
<1>1. gJob[b] \in SyncJobs
  BY DEF SyncInv, SyncTypes
<1>2. /\ gJob[b].digests \in Partial(Sync!Described, Sync!Versions)
      /\ gJob[b].staged \in Partial(Contracts, Sync!Versions)
  BY <1>1 DEF SyncJobs
<1>3. /\ DOMAIN gJob[b].digests \subseteq Sync!Described
      /\ \A d \in DOMAIN gJob[b].digests : gJob[b].digests[d] \in Sync!Versions
      /\ DOMAIN gJob[b].staged \subseteq Contracts
      /\ \A c \in DOMAIN gJob[b].staged : gJob[b].staged[c] \in Sync!Versions
  BY <1>2, PartialElim, Zenon
<1>4. gAsked \subseteq Contracts
  BY ContractsAssumption DEF SyncInv, SyncTypes, Sync!TypeOK
<1> QED
  BY <1>1, <1>3, <1>4, ContractsAssumption DEF SyncInv, SyncTypes, SyncLock, Sync!TypeOK

\* The other builders have nothing before and after a step of the one that works.
LEMMA OthersRest ==
  ASSUME SyncInv, NEW b \in Processes, gLock \in {b, None}, NEW there, NEW record,
         gPc' = [gPc EXCEPT ![b] = there], gJob' = [gJob EXCEPT ![b] = record]
  PROVE  /\ gPc'[b] = there /\ gJob'[b] = record
         /\ \A a \in Processes \ {b} :
              /\ gPc[a] = "idle" /\ gPc'[a] = "idle" /\ gJob[a] = Sync!NoJob /\ gJob'[a] = Sync!NoJob
              /\ ReadInv(a)' /\ StagedInv(a)' /\ InstallInv(a)'
<1>1. gPc'[b] = there /\ gJob'[b] = record
  BY BuilderFacts
<1>2. ASSUME NEW a \in Processes \ {b}
      PROVE  gPc[a] = "idle" /\ gPc'[a] = "idle" /\ gJob[a] = Sync!NoJob /\ gJob'[a] = Sync!NoJob
  BY <1>2, BuilderFacts
<1> QED
  BY <1>1, <1>2 DEF ReadInv, StagedInv, InstallInv

\* A step of the builder that works, before its end.
LEMMA BuilderStep ==
  ASSUME SyncInv, NEW b \in Processes, gPc[b] # "idle",
         NEW there \in {"reading", "staging", "comparing", "installing", "restoring"},
         NEW record \in SyncJobs,
         gPc' = [gPc EXCEPT ![b] = there], gJob' = [gJob EXCEPT ![b] = record],
         UNCHANGED <<Sync!inputVars, gLock, gAsked, gAccepted, gFound>>,
         gDisk' \in [Sync!Generated -> Sync!Contents], gBaseline' \in [Sync!Described -> Sync!Contents],
         gDoubted' \subseteq Sync!Described, gFaults' \in 0..MaxFailures, gReport' \in {gReport, "mixed"},
         gPc'[b] = there /\ gJob'[b] = record => ReadInv(b)' /\ StagedInv(b)' /\ InstallInv(b)',
         gJob'[b] = record /\ (\A a \in Processes \ {b} : gJob'[a] = Sync!NoJob) => CompatInv'
  PROVE  SyncInv'
<1>1. gLock = b /\ gLock' = b /\ gLock # None
  BY BuilderFacts
<1>2. /\ gPc'[b] = there /\ gJob'[b] = record
      /\ \A a \in Processes \ {b} :
           /\ gPc'[a] = "idle" /\ gJob'[a] = Sync!NoJob
           /\ ReadInv(a)' /\ StagedInv(a)' /\ InstallInv(a)'
  BY <1>1, OthersRest
<1>3. SyncTypes'
  <2>1. gJob' \in [Processes -> SyncJobs] /\ gPc' \in [Processes ->
           {"idle", "reading", "staging", "comparing", "installing", "restoring"}]
    BY BuilderFacts
  <2>2. Sync!TypeOK'
    BY <2>1 DEF SyncInv, SyncTypes, Sync!TypeOK, Sync!inputVars
  <2> QED
    BY <2>1, <2>2, <1>1 DEF SyncInv, SyncTypes, Sync!inputVars
<1>4. SyncLock'
  BY <1>1, <1>2 DEF SyncInv, SyncLock
<1>5. Sync!GeneratedTogether'
  BY <1>1, <1>4 DEF SyncLock, Sync!GeneratedTogether
<1> QED
  BY <1>2, <1>3, <1>4, <1>5 DEF SyncInv

\* The end of a builder.
LEMMA BuilderEnds ==
  ASSUME SyncInv, NEW b \in Processes, gPc[b] # "idle", NEW result, Sync!End(b, result),
         UNCHANGED <<Sync!inputVars, gAsked, gFound>>,
         gDisk' \in [Sync!Generated -> Sync!Contents], gBaseline' \in [Sync!Described -> Sync!Contents],
         gAccepted' \in [Sync!Described -> Sync!Versions \union {None}],
         gDoubted' \subseteq Sync!Described, gFaults' \in 0..MaxFailures,
         Sync!GeneratedTogether', (\A a \in Processes : gJob'[a] = Sync!NoJob) => CompatInv'
  PROVE  SyncInv'
<1>1. gLock = b /\ gLock' = None
  BY BuilderFacts DEF Sync!End
<1>2. gPc' = [gPc EXCEPT ![b] = "idle"] /\ gJob' = [gJob EXCEPT ![b] = Sync!NoJob]
  BY DEF Sync!End, Sync!Goto
<1>3. \A a \in Processes : /\ gPc'[a] = "idle" /\ gJob'[a] = Sync!NoJob
                           /\ ReadInv(a)' /\ StagedInv(a)' /\ InstallInv(a)'
  <2>1. /\ gPc'[b] = "idle" /\ gJob'[b] = Sync!NoJob
        /\ \A a \in Processes \ {b} :
             /\ gPc'[a] = "idle" /\ gJob'[a] = Sync!NoJob
             /\ ReadInv(a)' /\ StagedInv(a)' /\ InstallInv(a)'
    BY <1>1, <1>2, OthersRest
  <2>2. ReadInv(b)' /\ StagedInv(b)' /\ InstallInv(b)'
    BY <2>1 DEF ReadInv, StagedInv, InstallInv
  <2> QED
    BY <2>1, <2>2
<1>4. SyncTypes'
  <2>1. gJob' \in [Processes -> SyncJobs] /\ gPc' \in [Processes ->
           {"idle", "reading", "staging", "comparing", "installing", "restoring"}]
    BY <1>2, BuilderFacts, NoJobType
  <2>2. Sync!TypeOK'
    BY <2>1, <1>1 DEF SyncInv, SyncTypes, Sync!TypeOK, Sync!inputVars
  <2> QED
    BY <2>1, <2>2, <1>1 DEF SyncInv, SyncTypes, Sync!inputVars
<1>5. SyncLock'
  BY <1>1, <1>3, ContractsAssumption DEF SyncLock
<1> QED
  BY <1>3, <1>4, <1>5 DEF SyncInv

\* Only what the builder has read, or where it is, changes.
LEMMA JobStep ==
  ASSUME SyncInv, NEW b \in Processes, gPc[b] # "idle",
         NEW there \in {"reading", "staging", "comparing", "installing", "restoring"},
         NEW record \in SyncJobs, record.staged = gJob[b].staged,
         gPc' = [gPc EXCEPT ![b] = there], gJob' = [gJob EXCEPT ![b] = record],
         UNCHANGED <<Sync!inputVars, gDisk, gBaseline, gLock, gAsked, Sync!historyVars, gFaults>>,
         gPc'[b] = there /\ gJob'[b] = record => ReadInv(b)' /\ StagedInv(b)' /\ InstallInv(b)'
  PROVE  SyncInv'
<1>1. UNCHANGED <<gLock, gAsked, gAccepted, gFound, gDisk, gBaseline, gDoubted, gFaults, gReport>>
  BY DEF Sync!historyVars
<1>2. /\ gDisk' \in [Sync!Generated -> Sync!Contents] /\ gBaseline' \in [Sync!Described -> Sync!Contents]
      /\ gDoubted' \subseteq Sync!Described /\ gFaults' \in 0..MaxFailures /\ gReport' \in {gReport, "mixed"}
  BY <1>1 DEF SyncInv, SyncTypes, Sync!TypeOK
<1>3. ASSUME gJob'[b] = record, \A a \in Processes \ {b} : gJob'[a] = Sync!NoJob
      PROVE  CompatInv'
  <2>1. \A a \in Processes : gJob'[a].staged = gJob[a].staged \/ DOMAIN gJob'[a].staged = {}
    BY <1>3, NoJobType
  <2> QED
    BY <1>1, <2>1 DEF SyncInv, CompatInv, MayFollow
<1> QED
  BY <1>1, <1>2, <1>3, BuilderStep

LEMMA InitSync == Sync!Init => SyncInv
<1> SUFFICES ASSUME Sync!Init PROVE SyncInv
  OBVIOUS
<1>1. \A b \in Processes : gPc[b] = "idle" /\ gJob[b] = Sync!NoJob
  BY DEF Sync!Init
<1>2. PICK old \in {None, 1} :
        /\ gDisk = [f \in Sync!Generated |-> old]
        /\ \E base \in {None, old} : gBaseline = [c \in Sync!Described |-> base]
        /\ gAccepted = [c \in Sync!Described |->
             IF gBaseline[c] = None /\ c \notin OwnedContracts THEN None ELSE old]
  BY DEF Sync!Init
<1>3. 1 \in Sync!Versions
  BY ContractsAssumption DEF Sync!Versions
<1>4. SyncTypes
  <2>1. gJob \in [Processes -> SyncJobs]
    BY NoJobType DEF Sync!Init
  <2>2. Sync!TypeOK
    BY <1>2, <1>3, ContractsAssumption DEF Sync!Init, Sync!TypeOK, Sync!Contents
  <2>3. \A d \in Sync!Described : gSource[d] <= gEdits + 1
    BY DEF Sync!Init
  <2> QED
    BY <2>1, <2>2, <2>3 DEF Sync!Init, SyncTypes
<1>5. SyncLock
  BY <1>1, ContractsAssumption DEF Sync!Init, SyncLock
<1>6. CompatInv
  <2> SUFFICES ASSUME NEW d \in Sync!Described \ gDoubted, gAccepted[d] # None
               PROVE  /\ gBaseline[d] \in Sync!Versions => Sync!Compatible(gAccepted[d], gBaseline[d])
                      /\ gBaseline[d] = None => d \in OwnedContracts
                      /\ d \in OwnedContracts => MayFollow(d, gDisk[Sync!Descriptor(d)])
                      /\ \A b \in Processes : DOMAIN gJob[b].staged = {}
    BY DEF CompatInv, Sync!Init
  <2>1. old = 1 /\ gAccepted[d] = 1 /\ gBaseline[d] \in {None, 1}
    BY <1>2
  <2>2. gBaseline[d] = None => d \in OwnedContracts
    BY <1>2
  <2>3. d \in OwnedContracts => gDisk[Sync!Descriptor(d)] = 1
    BY <1>2, <2>1 DEF Sync!Generated
  <2>4. None \notin Sync!Versions
    BY ContractsAssumption
  <2> QED
    BY <1>1, <1>3, <2>1, <2>2, <2>3, <2>4, NoJobType DEF MayFollow, Sync!Compatible
<1>7. Sync!GeneratedTogether
  BY DEF Sync!Init, Sync!GeneratedTogether
<1>8. \A b \in Processes : ReadInv(b) /\ StagedInv(b) /\ InstallInv(b)
  BY <1>1 DEF ReadInv, StagedInv, InstallInv
<1> QED
  BY <1>4, <1>5, <1>6, <1>7, <1>8 DEF SyncInv

\* A builder takes the lock.
LEMMA LockKeeps ==
  ASSUME SyncInv, NEW b \in Processes, Sync!Lock(b)
  PROVE  SyncInv'
<1>0. /\ gPc[b] = "idle" /\ gLock = None /\ gLock' = b /\ gAsked' \in Asks /\ gMoments' = {gSource}
      /\ gPc' = [gPc EXCEPT ![b] = "reading"] /\ gFound' = gDisk /\ gReport' = "none"
      /\ UNCHANGED <<gSource, gDisk, gBaseline, gJob, gAccepted, gDoubted, gEdits, gFaults>>
  BY DEF Sync!Lock, Sync!Goto
<1>1. gJob' = [gJob EXCEPT ![b] = Sync!NoJob]
  BY <1>0, BuilderFacts
<1>2. /\ gPc'[b] = "reading" /\ gJob'[b] = Sync!NoJob
      /\ \A a \in Processes \ {b} :
           /\ gPc'[a] = "idle" /\ gJob'[a] = Sync!NoJob
           /\ ReadInv(a)' /\ StagedInv(a)' /\ InstallInv(a)'
  BY <1>0, <1>1, OthersRest
<1>3. ReadInv(b)' /\ StagedInv(b)' /\ InstallInv(b)'
  BY <1>0, <1>2, NoJobType DEF ReadInv, StagedInv, InstallInv
<1>4. SyncTypes'
  <2>1. gPc' \in [Processes -> {"idle", "reading", "staging", "comparing", "installing", "restoring"}]
    BY <1>0, BuilderFacts
  <2>2. Sync!TypeOK'
    BY <1>0, <2>1 DEF SyncInv, SyncTypes, Sync!TypeOK
  <2>3. \A d \in Sync!Described : gSource[d] <= gSource[d]
    BY BuilderFacts DEF Sync!Versions
  <2> QED
    BY <1>0, <2>2, <2>3 DEF SyncInv, SyncTypes, Sync!TypeOK
<1>5. SyncLock'
  BY <1>0, <1>2, BuilderFacts DEF SyncLock
<1>6. CompatInv'
  <2> SUFFICES ASSUME NEW d \in Sync!Described \ gDoubted, gAccepted[d] # None
               PROVE  /\ gBaseline[d] \in Sync!Versions => Sync!Compatible(gAccepted[d], gBaseline[d])
                      /\ gBaseline[d] = None => d \in OwnedContracts
                      /\ d \in OwnedContracts => MayFollow(d, gDisk[Sync!Descriptor(d)])
                      /\ \A a \in Processes : DOMAIN gJob'[a].staged = {}
    BY <1>0 DEF CompatInv, MayFollow
  <2>1. \A a \in Processes : DOMAIN gJob'[a].staged = {}
    BY <1>2, NoJobType
  <2> QED
    BY <2>1 DEF SyncInv, CompatInv
<1>7. Sync!GeneratedTogether'
  BY <1>0 DEF Sync!GeneratedTogether
<1> QED
  BY <1>2, <1>3, <1>4, <1>5, <1>6, <1>7 DEF SyncInv

\* People only ever write newer versions.
LEMMA SourcesEdited ==
  ASSUME SyncInv, NEW c \in Sync!Described, Sync!Edit(c)
  PROVE  SyncInv'
<1>0. /\ gEdits < MaxContractEdits /\ gEdits' = gEdits + 1 /\ gSource' = [gSource EXCEPT ![c] = @ + 1]
      /\ gMoments' = IF gLock = None THEN gMoments ELSE gMoments \union {gSource'}
      /\ UNCHANGED <<gDisk, gBaseline, gLock, gAsked, gPc, gJob, gAccepted, gDoubted, gFound, gReport, gFaults>>
  BY DEF Sync!Edit, Sync!historyVars
<1>1. gEdits \in Nat /\ MaxContractEdits \in Nat /\ gSource \in [Sync!Described -> Sync!Versions]
      /\ \A d \in Sync!Described : gSource[d] <= gEdits + 1
  BY ContractsAssumption DEF SyncInv, SyncTypes, Sync!TypeOK
<1>2. \A d \in Sync!Described : gSource'[d] \in Sync!Versions /\ gSource[d] <= gSource'[d] /\ gSource'[d] <= gEdits' + 1
  BY <1>0, <1>1 DEF Sync!Versions
<1>3. gSource' \in [Sync!Described -> Sync!Versions]
  BY <1>0, <1>1, <1>2
<1>4. SyncTypes'
  <2>1. Sync!TypeOK'
    BY <1>0, <1>1, <1>3 DEF SyncInv, SyncTypes, Sync!TypeOK
  <2>2. gMoments' \subseteq [Sync!Described -> Sync!Versions]
    BY <1>0, <1>3 DEF SyncInv, SyncTypes
  <2>3. ASSUME gLock # None, NEW m \in gMoments', NEW d \in Sync!Described
        PROVE  m[d] <= gSource'[d]
    <3>1. CASE m \in gMoments
      <4>1. m[d] <= gSource[d] /\ m[d] \in Sync!Versions
        BY <2>3, <3>1 DEF SyncInv, SyncTypes
      <4> QED
        BY <1>1, <1>2, <4>1 DEF Sync!Versions
    <3>2. CASE m = gSource'
      BY <1>2, <3>2 DEF Sync!Versions
    <3> QED
      BY <1>0, <2>3, <3>1, <3>2
  <2> QED
    BY <1>0, <1>2, <2>1, <2>2, <2>3 DEF SyncInv, SyncTypes
<1>5. SyncLock' /\ CompatInv' /\ Sync!GeneratedTogether'
  <2>1. SyncLock'
    BY <1>0 DEF SyncInv, SyncLock
  <2>2. CompatInv'
    BY <1>0 DEF SyncInv, CompatInv, MayFollow
  <2>3. Sync!GeneratedTogether'
    BY <1>0, <2>1, Zenon DEF SyncInv, SyncLock, Sync!GeneratedTogether, Sync!FollowsTheSources
  <2> QED
    BY <2>1, <2>2, <2>3
<1>6. ASSUME NEW b \in Processes
      PROVE  ReadInv(b)' /\ StagedInv(b)' /\ InstallInv(b)'
  <2> DEFINE j == gJob[b]
  <2>1. \A d \in DOMAIN j.digests : j.digests[d] <= gSource[d] => j.digests[d] <= gSource'[d]
    BY <1>1, <1>2, BuilderFacts DEF Sync!Versions
  <2>2. ReadInv(b)'
    BY <1>0, <2>1, BuilderFacts DEF ReadInv
  <2>3. \A k \in DOMAIN j.staged : Between(j, k, gSource) => Between(j, k, gSource')
    <3> SUFFICES ASSUME NEW k \in DOMAIN j.staged, Between(j, k, gSource)
                 PROVE  j.staged[k] <= gSource'[Uses[k]]
      BY DEF Between
    <3>1. Uses[k] \in Sync!Described /\ j.staged[k] \in Sync!Versions /\ j.staged[k] <= gSource[Uses[k]]
      BY BuilderFacts, ContractsAssumption DEF Between
    <3> QED
      BY <1>1, <1>2, <3>1 DEF Sync!Versions
  <2>4. gMoments \subseteq gMoments'
    BY <1>0
  <2>5. StagedInv(b)'
    <3>1. \A k : Extracted(k)' = Extracted(k)
      BY <1>0 DEF Extracted
    <3>2. StagedInv(b)
      BY BuilderFacts
    <3>3. gPc[b] = "staging" =>
            \A k \in DOMAIN j.staged : ~Extracted(k) => Between(j, k, gSource')
      BY <2>3, <3>2 DEF StagedInv
    <3> QED
      BY <1>0, <2>4, <3>1, <3>2, <3>3 DEF StagedInv, Between
  <2>6. InstallInv(b)'
    BY <1>0, BuilderFacts DEF InstallInv, Sync!Changes, Sync!Made
  <2> QED
    BY <2>2, <2>5, <2>6
<1> QED
  BY <1>4, <1>5, <1>6 DEF SyncInv

\* A package is digested.
LEMMA SourceDigested ==
  ASSUME SyncInv, NEW b \in Processes, NEW c \in Contracts, Sync!Digest(b, c)
  PROVE  SyncInv'
<1> DEFINE j == gJob[b]
<1> DEFINE digests == Sync!With(j.digests, c, gSource[c])
<1> DEFINE record == [j EXCEPT !.digests = digests]
<1>0. /\ gPc[b] = "reading" /\ c \in Sync!Described \ DOMAIN j.digests
      /\ gJob' = [gJob EXCEPT ![b] = record]
      /\ UNCHANGED <<Sync!inputVars, gDisk, gBaseline, gLock, gAsked, gPc, Sync!historyVars, gFaults>>
  BY DEF Sync!Digest
<1>1. j \in SyncJobs /\ gSource \in [Sync!Described -> Sync!Versions] /\ gSource[c] \in Sync!Versions
  BY <1>0, BuilderFacts
<1>2. /\ digests \in Partial(Sync!Described, Sync!Versions) /\ digests[c] = gSource[c]
      /\ DOMAIN digests = DOMAIN j.digests \union {c}
      /\ \A d \in DOMAIN j.digests : digests[d] = j.digests[d]
  <2>1. j.digests \in Partial(Sync!Described, Sync!Versions) /\ c \in Sync!Described
    BY <1>0, <1>1 DEF SyncJobs
  <2>2. digests \in Partial(Sync!Described, Sync!Versions)
    BY <1>1, <2>1, WithIsPartial
  <2> QED
    BY <1>0, <2>2 DEF Sync!With
<1> HIDE DEF digests
<1>3. /\ record \in SyncJobs /\ record.digests = digests /\ record.staged = j.staged
      /\ record.kept = j.kept /\ record.compared = j.compared /\ record.recorded = j.recorded
  BY <1>1, <1>2 DEF SyncJobs
<1> HIDE DEF record
<1>4. ASSUME gPc'[b] = "reading", gJob'[b] = record
      PROVE  ReadInv(b)' /\ StagedInv(b)' /\ InstallInv(b)'
  <2>1. UNCHANGED <<gSource, gDisk, gFound, gAsked>>
    BY <1>0 DEF Sync!inputVars, Sync!historyVars
  <2>2. \A d \in DOMAIN digests : digests[d] <= gSource[d]
    BY <1>0, <1>1, <1>2, BuilderFacts DEF ReadInv, Sync!Versions
  <2> QED
    BY <1>0, <1>3, <1>4, <2>1, <2>2, BuilderFacts DEF ReadInv, StagedInv, InstallInv
<1>5. gPc' = [gPc EXCEPT ![b] = "reading"]
  BY <1>0, BuilderFacts
<1> QED
  BY <1>0, <1>3, <1>4, <1>5, JobStep

LEMMA AllDigestedKeeps ==
  ASSUME SyncInv, NEW b \in Processes, Sync!AllDigested(b)
  PROVE  SyncInv'
<1> DEFINE j == gJob[b]
<1>0. /\ gPc[b] = "reading" /\ gAsked \intersect Sync!Described \subseteq DOMAIN j.digests
      /\ gPc' = [gPc EXCEPT ![b] = "staging"]
      /\ UNCHANGED <<Sync!inputVars, gDisk, gBaseline, gLock, gAsked, gJob, Sync!historyVars, gFaults>>
  BY DEF Sync!AllDigested, Sync!Goto
<1>1. j \in SyncJobs /\ gJob' = [gJob EXCEPT ![b] = j]
  BY <1>0, BuilderFacts
<1>2. ASSUME gPc'[b] = "staging", gJob'[b] = j
      PROVE  ReadInv(b)' /\ StagedInv(b)' /\ InstallInv(b)'
  <2>1. UNCHANGED <<gSource, gDisk, gFound, gAsked>>
    BY <1>0 DEF Sync!inputVars, Sync!historyVars
  <2> QED
    BY <1>0, <1>2, <2>1, BuilderFacts DEF ReadInv, StagedInv, InstallInv
<1> QED
  BY <1>0, <1>1, <1>2, JobStep

\* Everything is staged: what was read is of the moment it is.
LEMMA AllStagedKeeps ==
  ASSUME SyncInv, NEW b \in Processes, Sync!AllStaged(b)
  PROVE  SyncInv'
<1> DEFINE j == gJob[b]
<1>0. /\ gPc[b] = "staging" /\ DOMAIN j.staged = gAsked /\ gPc' = [gPc EXCEPT ![b] = "comparing"]
      /\ UNCHANGED <<Sync!inputVars, gDisk, gBaseline, gLock, gAsked, gJob, Sync!historyVars, gFaults>>
  BY DEF Sync!AllStaged, Sync!Goto
<1>1. j \in SyncJobs /\ gJob' = [gJob EXCEPT ![b] = j]
  BY <1>0, BuilderFacts
<1>2. ASSUME gPc'[b] = "comparing", gJob'[b] = j
      PROVE  ReadInv(b)' /\ StagedInv(b)' /\ InstallInv(b)'
  <2>1. UNCHANGED <<gSource, gMoments, gDisk, gFound, gAsked>>
    BY <1>0 DEF Sync!inputVars, Sync!historyVars
  <2>2. ReadInv(b)' /\ InstallInv(b)'
    BY <1>0, <1>2, <2>1, BuilderFacts DEF ReadInv, InstallInv
  <2>3. gSource \in gMoments
    BY <1>0, BuilderFacts DEF SyncInv, SyncTypes
  <2>4. /\ \A d \in DOMAIN j.digests : j.digests[d] <= gSource[d]
        /\ j.compared = {}
        /\ \A c \in gAsked : ~Extracted(c) => Between(j, c, gSource)
        /\ \A c \in DOMAIN j.staged : Extracted(c) => j.staged[c] = gFound[Sync!Descriptor(Uses[c])]
    BY <1>0, BuilderFacts DEF ReadInv, StagedInv
  <2>5. StagedInv(b)'
    BY <1>2, <2>1, <2>3, <2>4 DEF StagedInv, Extracted, Between
  <2> QED
    BY <2>2, <2>5
<1> QED
  BY <1>0, <1>1, <1>2, JobStep

\* An input that is what it was has been that at the moment of staging, too.
LEMMA CompareKeeps ==
  ASSUME SyncInv, NEW b \in Processes, NEW c \in Contracts, Sync!CompareInput(b, c)
  PROVE  SyncInv'
<1> DEFINE j == gJob[b]
<1> DEFINE record == [j EXCEPT !.compared = @ \union {c}]
<1>0. /\ gPc[b] = "comparing" /\ c \in DOMAIN j.digests \ j.compared /\ gSource[c] = j.digests[c]
      /\ gJob' = [gJob EXCEPT ![b] = record]
      /\ UNCHANGED <<Sync!inputVars, gDisk, gBaseline, gLock, gAsked, gPc, Sync!historyVars, gFaults>>
  BY DEF Sync!CompareInput
<1>1. j \in SyncJobs /\ c \in Sync!Described /\ j.digests[c] \in Sync!Versions
  BY <1>0, BuilderFacts
<1>3. /\ record \in SyncJobs /\ record.digests = j.digests /\ record.staged = j.staged
      /\ record.kept = j.kept /\ record.compared = j.compared \union {c}
      /\ record.recorded = j.recorded
  BY <1>1 DEF SyncJobs
<1> HIDE DEF record
<1>4. ASSUME gPc'[b] = "comparing", gJob'[b] = record
      PROVE  ReadInv(b)' /\ StagedInv(b)' /\ InstallInv(b)'
  <2>1. UNCHANGED <<gSource, gMoments, gDisk, gFound, gAsked>>
    BY <1>0 DEF Sync!inputVars, Sync!historyVars
  <2>2. ReadInv(b)' /\ InstallInv(b)'
    BY <1>0, <1>3, <1>4, <2>1, BuilderFacts DEF ReadInv, InstallInv
  <2>3. /\ \A k \in DOMAIN j.staged : Extracted(k) => j.staged[k] = gFound[Sync!Descriptor(Uses[k])]
        /\ \E m \in gMoments :
             /\ \A d \in DOMAIN j.digests :
                  j.digests[d] <= m[d] /\ (d \in j.compared => m[d] = j.digests[d])
             /\ \A k \in gAsked : ~Extracted(k) => Between(j, k, m)
    BY <1>0, BuilderFacts DEF StagedInv
  <2>4. PICK m \in gMoments :
             /\ \A d \in DOMAIN j.digests :
                  j.digests[d] <= m[d] /\ (d \in j.compared => m[d] = j.digests[d])
             /\ \A k \in gAsked : ~Extracted(k) => Between(j, k, m)
    BY <2>3
  <2>5. m[c] = j.digests[c]
    <3>1. m[c] \in Sync!Versions /\ m[c] <= gSource[c]
      BY <1>0, <1>1, BuilderFacts DEF SyncInv, SyncTypes
    <3>2. j.digests[c] <= m[c]
      BY <1>0, <2>4
    <3> QED
      BY <1>0, <1>1, <3>1, <3>2 DEF Sync!Versions
  <2>6. /\ \A d \in DOMAIN record.digests :
             record.digests[d] <= m[d] /\ (d \in record.compared => m[d] = record.digests[d])
        /\ \A k \in gAsked : ~Extracted(k) => Between(record, k, m)
    BY <1>3, <2>4, <2>5 DEF Between
  <2>7. StagedInv(b)'
    BY <1>3, <1>4, <2>1, <2>3, <2>6 DEF StagedInv, Extracted, Between
  <2> QED
    BY <2>2, <2>7
<1>5. gPc' = [gPc EXCEPT ![b] = "comparing"]
  BY <1>0, BuilderFacts
<1> QED
  BY <1>0, <1>3, <1>4, <1>5, JobStep

\* A contract is staged: from what was read since its digest, and compatible with what
\* was accepted last.
LEMMA StageKeeps ==
  ASSUME SyncInv, NEW b \in Processes, NEW c \in Contracts, Sync!Stage(b, c)
  PROVE  SyncInv'
<1> DEFINE j == gJob[b]
<1> DEFINE d == Uses[c]
<1> DEFINE input == Sync!Input(b, c)
<1>0. /\ gPc[b] = "staging" /\ Sync!Turn(b, c) /\ input \in Sync!Versions /\ Sync!MayReplace(Sync!Previous(c), input)
      /\ gDoubted' = IF Sync!Previous(c) = TornFile THEN gDoubted \union {d} ELSE gDoubted
      /\ UNCHANGED <<Sync!inputVars, gDisk, gBaseline, gLock, gAsked, gPc, gAccepted, gFound, gReport, gFaults>>
  BY DEF Sync!Stage
<1>1. PICK kept \in Sync!LeftAlone(c) :
        gJob' = [gJob EXCEPT ![b].staged = Sync!With(@, c, input), ![b].kept = @ \union kept,
                 ![b].digests = IF d \in DOMAIN @ \union OwnedContracts THEN @ ELSE Sync!With(@, d, gSource[d])]
  BY DEF Sync!Stage
<1> DEFINE staged == Sync!With(j.staged, c, input)
<1> DEFINE digests == IF d \in DOMAIN j.digests \union OwnedContracts THEN j.digests
                      ELSE Sync!With(j.digests, d, gSource[d])
<1> DEFINE record == [j EXCEPT !.staged = staged, !.kept = @ \union kept, !.digests = digests]
<1>2. j \in SyncJobs /\ gSource \in [Sync!Described -> Sync!Versions] /\ d \in Sync!Described /\ gSource[d] \in Sync!Versions
  BY BuilderFacts, ContractsAssumption
<1>3. gJob' = [gJob EXCEPT ![b] = record]
  BY <1>1, <1>2, BuilderFacts DEF SyncJobs
<1>4. /\ c \in gAsked \ DOMAIN j.staged /\ c \in Contracts
      /\ c \notin OwnedContracts => gAsked \intersect OwnedContracts \subseteq DOMAIN j.staged
  BY <1>0 DEF Sync!Turn
<1>5. kept \subseteq {c} /\ (kept # {} => c \notin OwnedContracts /\ gDisk[Sync!Projection(c)] = TornFile)
  BY <1>1 DEF Sync!LeftAlone
<1>6. /\ staged \in Partial(Contracts, Sync!Versions) /\ DOMAIN staged = DOMAIN j.staged \union {c}
      /\ staged[c] = input /\ \A k \in DOMAIN j.staged : staged[k] = j.staged[k]
  <2>1. j.staged \in Partial(Contracts, Sync!Versions)
    BY <1>2 DEF SyncJobs
  <2>2. staged \in Partial(Contracts, Sync!Versions)
    BY <1>0, <2>1, WithIsPartial
  <2> QED
    BY <1>4, <2>2 DEF Sync!With
<1>7. /\ digests \in Partial(Sync!Described, Sync!Versions)
      /\ DOMAIN digests = IF d \in OwnedContracts THEN DOMAIN j.digests ELSE DOMAIN j.digests \union {d}
      /\ \A k \in DOMAIN j.digests : digests[k] = j.digests[k]
      /\ d \in DOMAIN digests \ DOMAIN j.digests => digests[d] = gSource[d]
  <2>1. j.digests \in Partial(Sync!Described, Sync!Versions)
    BY <1>2 DEF SyncJobs
  <2>2. CASE d \in OwnedContracts
    <3>1. digests = j.digests
      BY <2>2
    <3> QED
      BY <2>1, <2>2, <3>1
  <2>3. CASE d \notin OwnedContracts /\ d \in DOMAIN j.digests
    <3>1. digests = j.digests
      BY <2>3
    <3> QED
      BY <2>1, <2>3, <3>1
  <2>4. CASE d \notin OwnedContracts /\ d \notin DOMAIN j.digests
    <3>1. digests = Sync!With(j.digests, d, gSource[d])
      BY <2>4
    <3>2. digests \in Partial(Sync!Described, Sync!Versions)
      BY <1>2, <2>1, <3>1, WithIsPartial
    <3> QED
      BY <2>4, <3>1, <3>2 DEF Sync!With
  <2> QED
    BY <2>2, <2>3, <2>4
<1> HIDE DEF staged, digests
<1>8. /\ record \in SyncJobs /\ record.staged = staged /\ record.digests = digests
      /\ record.kept = j.kept \union kept /\ record.compared = j.compared
      /\ record.recorded = j.recorded
  BY <1>2, <1>5, <1>6, <1>7 DEF SyncJobs
<1> HIDE DEF record
<1>9. /\ ReadInv(b) /\ StagedInv(b) /\ gDisk = gFound
      /\ gAsked \intersect Sync!Described \subseteq DOMAIN j.digests
  BY <1>0, BuilderFacts DEF ReadInv
\* What it is staged from.
<1>10. /\ ~Extracted(c) => d \in DOMAIN digests /\ digests[d] <= input /\ input <= gSource[d]
       /\ Extracted(c) => input = gFound[Sync!Descriptor(d)]
  <2>1. CASE c \in OwnedContracts \/ d \notin OwnedContracts
    <3>1. input = gSource[d] /\ ~Extracted(c)
      BY <1>4, <2>1, ContractsAssumption DEF Sync!Input, Extracted, Sync!Described
    <3>2. d \in DOMAIN digests
      BY <1>4, <1>7, <1>9, <2>1, ContractsAssumption DEF Sync!Described
    <3>3. digests[d] <= gSource[d]
      <4>1. CASE d \in DOMAIN j.digests
        BY <1>0, <1>7, <1>9, <4>1 DEF ReadInv
      <4>2. CASE d \notin DOMAIN j.digests
        BY <1>2, <1>7, <3>2, <4>2 DEF Sync!Versions
      <4> QED
        BY <4>1, <4>2
    <3> QED
      BY <1>2, <3>1, <3>2, <3>3 DEF Sync!Versions
  <2>2. CASE c \notin OwnedContracts /\ d \in OwnedContracts /\ d \in gAsked
    <3>1. input = j.staged[d] /\ d \in DOMAIN j.staged /\ Uses[d] = d
      BY <1>2, <1>4, <2>2 DEF Sync!Input, Sync!Described
    <3>2. Between(j, d, gSource)
      BY <1>0, <1>9, <2>2, <3>1 DEF StagedInv, Extracted
    <3> QED
      BY <1>7, <2>2, <3>1, <3>2 DEF Between, Extracted
  <2>3. CASE c \notin OwnedContracts /\ d \in OwnedContracts /\ d \notin gAsked
    BY <1>9, <2>3 DEF Sync!Input, Extracted
  <2> QED
    BY <2>1, <2>2, <2>3
<1>11. gAccepted[d] # None /\ d \notin gDoubted' => Sync!Compatible(gAccepted[d], input)
  <2> SUFFICES ASSUME gAccepted[d] # None, d \notin gDoubted'
               PROVE  Sync!Compatible(gAccepted[d], input)
    OBVIOUS
  <2>1. d \notin gDoubted /\ Sync!Previous(c) # TornFile
    BY <1>0
  <2>2. /\ gBaseline[d] \in Sync!Versions => Sync!Compatible(gAccepted[d], gBaseline[d])
        /\ gBaseline[d] = None => d \in OwnedContracts
        /\ d \in OwnedContracts => MayFollow(d, gDisk[Sync!Descriptor(d)])
        /\ \A k \in DOMAIN j.staged : Uses[k] = d => Sync!Compatible(gAccepted[d], j.staged[k])
    BY <1>2, <2>1 DEF SyncInv, CompatInv
  <2>3. gBaseline[d] \in Sync!Versions \union {None, TornFile}
    BY <1>2, BuilderFacts DEF Sync!Contents
  <2>4. CASE gBaseline[d] # None
    <3>1. Sync!Previous(c) = gBaseline[d] /\ gBaseline[d] \in Sync!Versions
      BY <2>1, <2>3, <2>4 DEF Sync!Previous
    <3> QED
      BY <1>0, <2>2, <3>1 DEF Sync!MayReplace, Sync!Compatible
  <2>5. CASE gBaseline[d] = None /\ c \in OwnedContracts
    <3>1. Sync!Previous(c) = gDisk[Sync!Descriptor(d)] /\ gDisk[Sync!Descriptor(d)] \in Sync!Contents
      <4>1. d = c
        BY <2>5, ContractsAssumption DEF Sync!Described
      <4>2. Sync!Descriptor(c) \in Sync!Generated
        BY <2>5 DEF Sync!Generated
      <4> QED
        BY <2>5, <4>1, <4>2, BuilderFacts DEF Sync!Previous
    <3>2. Sync!Previous(c) \in Sync!Versions /\ Sync!Compatible(gAccepted[d], Sync!Previous(c))
      BY <2>1, <2>2, <2>5, <3>1 DEF MayFollow, Sync!Contents
    <3> QED
      BY <1>0, <3>2 DEF Sync!MayReplace, Sync!Compatible
  <2>6. CASE gBaseline[d] = None /\ c \notin OwnedContracts /\ d \in gAsked
    <3>1. input = j.staged[d] /\ d \in DOMAIN j.staged /\ Uses[d] = d
      BY <1>2, <1>4, <2>2, <2>6 DEF Sync!Input, Sync!Described
    <3> QED
      BY <2>2, <3>1
  <2>7. CASE gBaseline[d] = None /\ c \notin OwnedContracts /\ d \notin gAsked
    <3>1. input = gDisk[Sync!Descriptor(d)]
      BY <2>2, <2>7 DEF Sync!Input
    <3> QED
      BY <1>0, <2>2, <2>7, <3>1 DEF MayFollow
  <2> QED
    BY <2>4, <2>5, <2>6, <2>7
<1> HIDE DEF input
<1>12. ASSUME gPc'[b] = "staging", gJob'[b] = record
       PROVE  ReadInv(b)' /\ StagedInv(b)' /\ InstallInv(b)'
  <2>1. UNCHANGED <<gSource, gMoments, gDisk, gFound, gAsked>>
    BY <1>0 DEF Sync!inputVars
  <2>2. \A k \in DOMAIN digests : digests[k] <= gSource[k]
    BY <1>0, <1>2, <1>7, <1>9 DEF ReadInv, Sync!Versions
  <2>3. ReadInv(b)'
    BY <1>0, <1>4, <1>5, <1>6, <1>7, <1>8, <1>9, <1>12, <2>1, <2>2 DEF ReadInv
  <2>4. ASSUME NEW k \in DOMAIN staged
        PROVE  /\ Extracted(k) => staged[k] = gFound[Sync!Descriptor(Uses[k])]
               /\ ~Extracted(k) => Between(record, k, gSource)
    <3>1. CASE k = c
      BY <1>6, <1>8, <1>10, <3>1 DEF Between
    <3>2. CASE k # c
      <4>1. k \in DOMAIN j.staged /\ staged[k] = j.staged[k]
        BY <1>6, <2>4, <3>2
      <4> QED
        BY <1>0, <1>7, <1>8, <1>9, <4>1 DEF StagedInv, Between
    <3> QED
      BY <3>1, <3>2
  <2>5. StagedInv(b)'
    BY <1>8, <1>12, <2>1, <2>4 DEF StagedInv, Extracted, Between
  <2> QED
    BY <1>12, <2>3, <2>5 DEF InstallInv
<1>13. ASSUME gJob'[b] = record, \A a \in Processes \ {b} : gJob'[a] = Sync!NoJob
       PROVE  CompatInv'
  <2> SUFFICES ASSUME NEW e \in Sync!Described \ gDoubted', gAccepted[e] # None
               PROVE  /\ gBaseline[e] \in Sync!Versions => Sync!Compatible(gAccepted[e], gBaseline[e])
                      /\ gBaseline[e] = None => e \in OwnedContracts
                      /\ e \in OwnedContracts => /\ MayFollow(e, gDisk[Sync!Descriptor(e)])
                                                 /\ gLock # None => MayFollow(e, gFound[Sync!Descriptor(e)])
                      /\ \A a \in Processes : \A k \in DOMAIN gJob'[a].staged :
                           Uses[k] = e => Sync!Compatible(gAccepted[e], gJob'[a].staged[k])
    BY <1>0 DEF CompatInv, MayFollow
  <2>1. e \notin gDoubted
    BY <1>0
  <2>2. ASSUME NEW a \in Processes, NEW k \in DOMAIN gJob'[a].staged, Uses[k] = e
        PROVE  Sync!Compatible(gAccepted[e], gJob'[a].staged[k])
    <3>1. a = b
      BY <1>13, <2>2, NoJobType
    <3>2. CASE k = c
      BY <1>6, <1>8, <1>11, <1>13, <2>2, <3>1, <3>2
    <3>3. CASE k # c
      <4>1. k \in DOMAIN j.staged /\ staged[k] = j.staged[k] /\ gJob'[a].staged = staged
        BY <1>6, <1>8, <1>13, <2>2, <3>1, <3>3
      <4> QED
        BY <2>1, <2>2, <4>1 DEF SyncInv, CompatInv
    <3> QED
      BY <3>2, <3>3
  <2> QED
    BY <2>1, <2>2 DEF SyncInv, CompatInv
<1>14. /\ gPc' = [gPc EXCEPT ![b] = "staging"] /\ gDoubted' \subseteq Sync!Described
       /\ gDisk' \in [Sync!Generated -> Sync!Contents] /\ gBaseline' \in [Sync!Described -> Sync!Contents]
       /\ gFaults' \in 0..MaxFailures /\ gReport' \in {gReport, "mixed"}
  BY <1>0, <1>2, BuilderFacts DEF SyncInv, SyncTypes, Sync!TypeOK
<1> QED
  BY <1>0, <1>3, <1>8, <1>12, <1>13, <1>14, BuilderStep

\* Every input was compared: what is staged is of one moment.
LEMMA BackupKeeps ==
  ASSUME SyncInv, NEW b \in Processes, Sync!Backup(b)
  PROVE  SyncInv'
<1> DEFINE j == gJob[b]
<1> DEFINE saved == [f \in Sync!Changes(b) |-> gDisk[f]]
<1> DEFINE record == [j EXCEPT !.saved = saved, !.todo = Sync!Differing(b)]
<1>0. /\ gPc[b] = "comparing" /\ j.compared = DOMAIN j.digests
      /\ gJob' = [gJob EXCEPT ![b].saved = saved, ![b].todo = Sync!Differing(b)]
      /\ gPc' = [gPc EXCEPT ![b] = "installing"]
      /\ UNCHANGED <<Sync!inputVars, gDisk, gBaseline, gLock, gAsked, Sync!historyVars, gFaults>>
  BY DEF Sync!Backup, Sync!Goto
<1>1. j \in SyncJobs /\ gDisk \in [Sync!Generated -> Sync!Contents] /\ Sync!Changes(b) \subseteq Sync!Generated
      /\ Sync!Differing(b) \subseteq Sync!Changes(b)
  BY BuilderFacts DEF Sync!Changes, Sync!Differing
<1>2. gJob' = [gJob EXCEPT ![b] = record]
  BY <1>0, <1>1, BuilderFacts DEF SyncJobs
<1>3. saved \in Partial(Sync!Generated, Sync!Contents) /\ DOMAIN saved = Sync!Changes(b)
      /\ \A f \in Sync!Changes(b) : saved[f] = gDisk[f]
  <2>1. saved \in [Sync!Changes(b) -> Sync!Contents]
    BY <1>1
  <2> QED
    BY <1>1, <2>1 DEF Partial
<1> HIDE DEF saved
<1>4. /\ record \in SyncJobs /\ record.digests = j.digests /\ record.staged = j.staged
      /\ record.kept = j.kept /\ record.compared = j.compared /\ record.recorded = j.recorded
      /\ record.saved = saved /\ record.todo = Sync!Differing(b)
  BY <1>1, <1>3 DEF SyncJobs
<1> HIDE DEF record
<1>5. ASSUME gPc'[b] = "installing", gJob'[b] = record
      PROVE  ReadInv(b)' /\ StagedInv(b)' /\ InstallInv(b)'
  <2>1. UNCHANGED <<gSource, gMoments, gDisk, gFound, gAsked, gBaseline>>
    BY <1>0 DEF Sync!inputVars, Sync!historyVars
  <2>2. ReadInv(b) /\ StagedInv(b) /\ gDisk = gFound /\ j.recorded = {} /\ DOMAIN j.staged = gAsked
    BY <1>0, BuilderFacts DEF ReadInv
  <2>3. ReadInv(b)'
    BY <1>0, <1>4, <1>5, <2>1, <2>2 DEF ReadInv
  <2>4. PICK m \in gMoments :
          /\ \A d \in DOMAIN j.digests :
               j.digests[d] <= m[d] /\ (d \in j.compared => m[d] = j.digests[d])
          /\ \A c \in gAsked : ~Extracted(c) => Between(j, c, m)
    BY <1>0, <2>2 DEF StagedInv
  <2>5. ASSUME NEW c \in gAsked, ~Extracted(c)
        PROVE  j.staged[c] = m[Uses[c]]
    <3>1. /\ Uses[c] \in DOMAIN j.digests /\ j.digests[Uses[c]] <= j.staged[c]
          /\ j.staged[c] <= m[Uses[c]]
      BY <2>4, <2>5 DEF Between
    <3>2. m[Uses[c]] = j.digests[Uses[c]]
      BY <1>0, <2>4, <3>1
    <3>3. j.staged[c] \in Sync!Versions /\ j.digests[Uses[c]] \in Sync!Versions
      BY <2>2, <3>1, BuilderFacts
    <3> QED
      BY <3>1, <3>2, <3>3 DEF Sync!Versions
  <2>6. StagedInv(b)'
    BY <1>4, <1>5, <2>1, <2>2, <2>5, <1>0 DEF StagedInv, Extracted
  <2>7. Sync!Changes(b)' = Sync!Changes(b) /\ \A f : Sync!Made(b, f)' = Sync!Made(b, f)
    BY <1>4, <1>5, <2>1
    DEF Sync!Changes, Sync!Made, Sync!Generated, Sync!Projection, Sync!Descriptor
  <2>8. \A f \in Sync!Changes(b) : gDisk[f] = IF f \in Sync!Differing(b) THEN gFound[f] ELSE Sync!Made(b, f)
    BY <2>2 DEF Sync!Differing
  <2>9. InstallInv(b)'
    BY <1>1, <1>3, <1>4, <1>5, <2>1, <2>2, <2>7, <2>8 DEF InstallInv
  <2> QED
    BY <2>3, <2>6, <2>9
<1> QED
  BY <1>0, <1>2, <1>4, <1>5, JobStep

\* One file is written while the builder installs or restores, or its writing fails.
LEMMA WriteKeeps ==
  ASSUME SyncInv, NEW b \in Processes, gPc[b] \in {"installing", "restoring"},
         NEW f \in gJob[b].todo, NEW content \in Sync!Contents,
         NEW there \in {"installing", "restoring"}, NEW record \in SyncJobs,
         gPc' = [gPc EXCEPT ![b] = there], gJob' = [gJob EXCEPT ![b] = record],
         gDisk' = [gDisk EXCEPT ![f] = content],
         \A x \in {"digests", "staged", "kept", "compared", "saved", "recorded"} :
           record[x] = gJob[b][x],
         UNCHANGED <<Sync!inputVars, gBaseline, gLock, gAsked, gAccepted, gDoubted, gFound>>,
         gFaults' \in 0..MaxFailures, gReport' \in {gReport, "mixed"},
         gPc'[b] = there /\ gJob'[b] = record => InstallInv(b)',
         content = TornFile \/ content = gDisk[f] \/ content = gFound[f]
           \/ content = gJob[b].staged[f[2]]
  PROVE  SyncInv'
<1> DEFINE j == gJob[b]
<1>1. /\ record.digests = j.digests /\ record.staged = j.staged /\ record.kept = j.kept
      /\ record.compared = j.compared /\ record.saved = j.saved /\ record.recorded = j.recorded
  OBVIOUS
<1>2. /\ f \in Sync!Changes(b) /\ f \in Sync!Generated /\ f[2] \in gAsked
      /\ gDisk \in [Sync!Generated -> Sync!Contents] /\ gLock = b /\ b # None
      /\ ReadInv(b) /\ StagedInv(b) /\ DOMAIN j.staged = gAsked
  BY BuilderFacts DEF InstallInv, Sync!Changes, ReadInv
<1>3. ASSUME gPc'[b] = there, gJob'[b] = record
      PROVE  ReadInv(b)' /\ StagedInv(b)' /\ InstallInv(b)'
  <2>1. ReadInv(b)'
    BY <1>1, <1>2, <1>3 DEF ReadInv, Sync!inputVars
  <2>2. StagedInv(b)'
    BY <1>1, <1>2, <1>3 DEF StagedInv, Extracted, Sync!inputVars
  <2> QED
    BY <1>3, <2>1, <2>2
<1>4. ASSUME gJob'[b] = record, \A a \in Processes \ {b} : gJob'[a] = Sync!NoJob
      PROVE  CompatInv'
  <2> SUFFICES ASSUME NEW d \in Sync!Described \ gDoubted, gAccepted[d] # None
               PROVE  /\ gBaseline[d] \in Sync!Versions => Sync!Compatible(gAccepted[d], gBaseline[d])
                      /\ gBaseline[d] = None => d \in OwnedContracts
                      /\ d \in OwnedContracts => /\ MayFollow(d, gDisk'[Sync!Descriptor(d)])
                                                 /\ gLock # None => MayFollow(d, gFound[Sync!Descriptor(d)])
                      /\ \A a \in Processes : \A k \in DOMAIN gJob'[a].staged :
                           Uses[k] = d => Sync!Compatible(gAccepted[d], gJob'[a].staged[k])
    BY DEF CompatInv, MayFollow
  <2>1. /\ gBaseline[d] \in Sync!Versions => Sync!Compatible(gAccepted[d], gBaseline[d])
        /\ gBaseline[d] = None => d \in OwnedContracts
        /\ d \in OwnedContracts => /\ MayFollow(d, gDisk[Sync!Descriptor(d)])
                                   /\ gLock # None => MayFollow(d, gFound[Sync!Descriptor(d)])
        /\ \A a \in Processes : \A k \in DOMAIN gJob[a].staged :
             Uses[k] = d => Sync!Compatible(gAccepted[d], gJob[a].staged[k])
    BY DEF SyncInv, CompatInv
  <2>2. \A a \in Processes : gJob'[a].staged = gJob[a].staged \/ DOMAIN gJob'[a].staged = {}
    BY <1>1, <1>4, NoJobType
  <2>3. ASSUME d \in OwnedContracts
        PROVE  MayFollow(d, gDisk'[Sync!Descriptor(d)])
    <3>1. CASE Sync!Descriptor(d) # f
      <4>1. gDisk'[Sync!Descriptor(d)] = gDisk[Sync!Descriptor(d)]
        BY <1>2, <2>3, <3>1 DEF Sync!Generated
      <4> QED
        BY <2>1, <2>3, <4>1
    <3>2. CASE Sync!Descriptor(d) = f
      <4>1. gDisk'[Sync!Descriptor(d)] = content /\ f[2] = d /\ Uses[d] = d
        BY <1>2, <2>3, <3>2, ContractsAssumption DEF Sync!Descriptor, Sync!Described
      <4>2. TornFile \notin Sync!Versions /\ TornFile # None /\ None \notin Sync!Versions
        BY ContractsAssumption
      <4>3. j.staged[d] \in Sync!Versions /\ Sync!Compatible(gAccepted[d], j.staged[d])
        BY <1>2, <2>1, <4>1, BuilderFacts
      <4> QED
        BY <1>2, <2>1, <2>3, <3>2, <4>1, <4>2, <4>3 DEF MayFollow
    <3> QED
      BY <3>1, <3>2
  <2> QED
    BY <2>1, <2>2, <2>3
<1>5. gDisk' \in [Sync!Generated -> Sync!Contents] /\ gBaseline' \in [Sync!Described -> Sync!Contents]
      /\ gDoubted' \subseteq Sync!Described
  BY <1>2 DEF SyncInv, SyncTypes, Sync!TypeOK
<1> QED
  BY <1>2, <1>3, <1>4, <1>5, BuilderStep

\* What a builder may change does not change while it writes.
LEMMA ChangesStay ==
  ASSUME SyncInv, NEW b \in Processes, UNCHANGED gAsked,
         gJob'[b].kept = gJob[b].kept, gJob'[b].staged = gJob[b].staged
  PROVE  Sync!Changes(b)' = Sync!Changes(b) /\ \A f : Sync!Made(b, f)' = Sync!Made(b, f)
BY DEF Sync!Changes, Sync!Made, Sync!Generated, Sync!Projection, Sync!Descriptor

\* What is staged for a file that may change is a version.
LEMMA MadeType ==
  ASSUME SyncInv, NEW b \in Processes, gPc[b] \in {"installing", "restoring"}, NEW f \in Sync!Changes(b)
  PROVE  Sync!Made(b, f) \in Sync!Versions
<1>1. f[2] \in gAsked /\ DOMAIN gJob[b].staged = gAsked
  BY BuilderFacts DEF Sync!Changes, ReadInv
<1> QED
  BY <1>1, BuilderFacts DEF Sync!Made

LEMMA InstallKeeps ==
  ASSUME SyncInv, NEW b \in Processes, NEW f \in Sync!Generated, Sync!Install(b, f)
  PROVE  SyncInv'
<1> DEFINE j == gJob[b]
<1> DEFINE record == [j EXCEPT !.todo = @ \ {f}]
<1>0. /\ gPc[b] = "installing" /\ f \in j.todo /\ gDisk' = [gDisk EXCEPT ![f] = Sync!Made(b, f)]
      /\ gJob' = [gJob EXCEPT ![b] = record]
      /\ UNCHANGED <<Sync!inputVars, gBaseline, gLock, gAsked, gPc, Sync!historyVars, gFaults>>
  BY DEF Sync!Install
<1>1. j \in SyncJobs /\ InstallInv(b) /\ gDisk \in [Sync!Generated -> Sync!Contents]
  BY BuilderFacts
<1>2. f \in Sync!Changes(b) /\ Sync!Made(b, f) \in Sync!Contents /\ Sync!Made(b, f) = j.staged[f[2]]
  BY <1>0, <1>1, MadeType DEF InstallInv, Sync!Contents, Sync!Made
<1>3. /\ record \in SyncJobs /\ record.todo = j.todo \ {f}
      /\ \A x \in {"digests", "staged", "kept", "compared", "saved", "recorded"} : record[x] = j[x]
      /\ record.kept = j.kept /\ record.staged = j.staged /\ record.saved = j.saved
      /\ record.recorded = j.recorded
  BY <1>1 DEF SyncJobs
<1> HIDE DEF record
<1>4. ASSUME gPc'[b] = "installing", gJob'[b] = record
      PROVE  InstallInv(b)'
  <2>1. Sync!Changes(b)' = Sync!Changes(b) /\ \A g : Sync!Made(b, g)' = Sync!Made(b, g)
    BY <1>0, <1>3, <1>4, ChangesStay
  <2>2. Sync!Changes(b) \subseteq Sync!Generated
    BY DEF Sync!Changes
  <2>3. gFound' = gFound /\ gBaseline' = gBaseline /\ gAsked' = gAsked
    BY <1>0 DEF Sync!historyVars
  <2>4. \A g \in Sync!Generated : gDisk'[g] = IF g = f THEN Sync!Made(b, f) ELSE gDisk[g]
    BY <1>0, <1>1
  <2> QED
    BY <1>0, <1>1, <1>2, <1>3, <1>4, <2>1, <2>2, <2>3, <2>4 DEF InstallInv
<1>5. /\ gPc' = [gPc EXCEPT ![b] = "installing"] /\ gFaults' \in 0..MaxFailures
      /\ UNCHANGED <<gAccepted, gDoubted, gFound, gReport>>
  BY <1>0, BuilderFacts DEF Sync!historyVars, SyncInv, SyncTypes, Sync!TypeOK
<1> QED
  BY <1>0, <1>2, <1>3, <1>4, <1>5, WriteKeeps

LEMMA InstallFailsKeeps ==
  ASSUME SyncInv, NEW b \in Processes, NEW f \in Sync!Generated, Sync!InstallFails(b, f)
  PROVE  SyncInv'
<1> DEFINE j == gJob[b]
<1> DEFINE record == [j EXCEPT !.todo = Sync!Changes(b)]
<1>0. /\ gPc[b] = "installing" /\ f \in j.todo /\ gFaults < MaxFailures /\ gFaults' = gFaults + 1
      /\ gJob' = [gJob EXCEPT ![b] = record] /\ gPc' = [gPc EXCEPT ![b] = "restoring"]
      /\ UNCHANGED <<Sync!inputVars, gBaseline, gLock, gAsked, Sync!historyVars>>
  BY DEF Sync!InstallFails, Sync!Goto
<1>1. PICK left \in {gDisk[f], TornFile} : gDisk' = [gDisk EXCEPT ![f] = left]
  BY DEF Sync!InstallFails
<1>2. j \in SyncJobs /\ InstallInv(b) /\ gDisk \in [Sync!Generated -> Sync!Contents] /\ left \in Sync!Contents
      /\ f \in Sync!Changes(b) /\ Sync!Changes(b) \subseteq Sync!Generated
  BY <1>0, BuilderFacts DEF InstallInv, Sync!Contents, Sync!Changes
<1>3. /\ record \in SyncJobs /\ record.todo = Sync!Changes(b)
      /\ \A x \in {"digests", "staged", "kept", "compared", "saved", "recorded"} : record[x] = j[x]
      /\ record.kept = j.kept /\ record.staged = j.staged /\ record.saved = j.saved
  BY <1>2 DEF SyncJobs
<1> HIDE DEF record
<1>4. ASSUME gPc'[b] = "restoring", gJob'[b] = record
      PROVE  InstallInv(b)'
  <2>1. Sync!Changes(b)' = Sync!Changes(b)
    BY <1>0, <1>3, <1>4, ChangesStay
  <2>2. \A g \in Sync!Generated \ Sync!Changes(b) : gDisk'[g] = gDisk[g]
    BY <1>1, <1>2
  <2> QED
    BY <1>0, <1>2, <1>3, <1>4, <2>1, <2>2 DEF InstallInv, Sync!historyVars
<1>5. UNCHANGED <<gAccepted, gDoubted, gFound, gReport>> /\ gFaults' \in 0..MaxFailures
  BY <1>0, ContractsAssumption DEF Sync!historyVars, SyncInv, SyncTypes, Sync!TypeOK
<1> QED
  BY <1>0, <1>1, <1>2, <1>3, <1>4, <1>5, WriteKeeps

LEMMA RestoreKeeps ==
  ASSUME SyncInv, NEW b \in Processes, NEW f \in Sync!Generated, Sync!Restore(b, f)
  PROVE  SyncInv'
<1> DEFINE j == gJob[b]
<1> DEFINE record == [j EXCEPT !.todo = @ \ {f}]
<1>0. /\ gPc[b] = "restoring" /\ f \in j.todo /\ gDisk' = [gDisk EXCEPT ![f] = j.saved[f]]
      /\ gJob' = [gJob EXCEPT ![b] = record]
      /\ UNCHANGED <<Sync!inputVars, gBaseline, gLock, gAsked, gPc, Sync!historyVars, gFaults>>
  BY DEF Sync!Restore
<1>1. j \in SyncJobs /\ InstallInv(b) /\ gDisk \in [Sync!Generated -> Sync!Contents]
      /\ gFound \in [Sync!Generated -> Sync!Contents]
  BY BuilderFacts
<1>2. f \in Sync!Changes(b) /\ j.saved[f] = gFound[f] /\ gFound[f] \in Sync!Contents
  BY <1>0, <1>1 DEF InstallInv
<1>3. /\ record \in SyncJobs /\ record.todo = j.todo \ {f}
      /\ \A x \in {"digests", "staged", "kept", "compared", "saved", "recorded"} : record[x] = j[x]
      /\ record.kept = j.kept /\ record.staged = j.staged /\ record.saved = j.saved
  BY <1>1 DEF SyncJobs
<1> HIDE DEF record
<1>4. ASSUME gPc'[b] = "restoring", gJob'[b] = record
      PROVE  InstallInv(b)'
  <2>1. Sync!Changes(b)' = Sync!Changes(b) /\ Sync!Changes(b) \subseteq Sync!Generated
    BY <1>0, <1>3, <1>4, ChangesStay DEF Sync!Changes
  <2>2. \A g \in Sync!Generated : gDisk'[g] = IF g = f THEN gFound[f] ELSE gDisk[g]
    BY <1>0, <1>1, <1>2
  <2> QED
    BY <1>0, <1>1, <1>2, <1>3, <1>4, <2>1, <2>2 DEF InstallInv, Sync!historyVars
<1>5. /\ gPc' = [gPc EXCEPT ![b] = "restoring"] /\ gFaults' \in 0..MaxFailures
      /\ UNCHANGED <<gAccepted, gDoubted, gFound, gReport>>
  BY <1>0, BuilderFacts DEF Sync!historyVars, SyncInv, SyncTypes, Sync!TypeOK
<1> QED
  BY <1>0, <1>2, <1>3, <1>4, <1>5, WriteKeeps

LEMMA RestoreFailsKeeps ==
  ASSUME SyncInv, NEW b \in Processes, NEW f \in Sync!Generated, Sync!RestoreFails(b, f)
  PROVE  SyncInv'
<1> DEFINE j == gJob[b]
<1> DEFINE record == [j EXCEPT !.todo = @ \ {f}]
<1>0. /\ gPc[b] = "restoring" /\ f \in j.todo /\ gFaults < MaxFailures /\ gFaults' = gFaults + 1
      /\ gJob' = [gJob EXCEPT ![b] = record] /\ gReport' = "mixed"
      /\ UNCHANGED <<Sync!inputVars, gBaseline, gLock, gAsked, gPc, gAccepted, gDoubted, gFound>>
  BY DEF Sync!RestoreFails
<1>1. PICK left \in {gDisk[f], TornFile} : gDisk' = [gDisk EXCEPT ![f] = left]
  BY DEF Sync!RestoreFails
<1>2. j \in SyncJobs /\ InstallInv(b) /\ gDisk \in [Sync!Generated -> Sync!Contents] /\ left \in Sync!Contents
      /\ f \in Sync!Changes(b) /\ Sync!Changes(b) \subseteq Sync!Generated
  BY <1>0, BuilderFacts DEF InstallInv, Sync!Contents, Sync!Changes
<1>3. /\ record \in SyncJobs /\ record.todo = j.todo \ {f}
      /\ \A x \in {"digests", "staged", "kept", "compared", "saved", "recorded"} : record[x] = j[x]
      /\ record.kept = j.kept /\ record.staged = j.staged /\ record.saved = j.saved
  BY <1>2 DEF SyncJobs
<1> HIDE DEF record
<1>4. ASSUME gPc'[b] = "restoring", gJob'[b] = record
      PROVE  InstallInv(b)'
  <2>1. Sync!Changes(b)' = Sync!Changes(b)
    BY <1>0, <1>3, <1>4, ChangesStay
  <2>2. \A g \in Sync!Generated \ Sync!Changes(b) : gDisk'[g] = gDisk[g]
    BY <1>1, <1>2
  <2> QED
    BY <1>0, <1>2, <1>3, <1>4, <2>1, <2>2 DEF InstallInv
<1>5. gPc' = [gPc EXCEPT ![b] = "restoring"] /\ gFaults' \in 0..MaxFailures
  BY <1>0, BuilderFacts, ContractsAssumption DEF SyncInv, SyncTypes, Sync!TypeOK
<1> QED
  BY <1>0, <1>1, <1>2, <1>3, <1>4, <1>5, WriteKeeps

\* Contracts that use one descriptor were staged of one version of it.
LEMMA StagedAlike ==
  ASSUME SyncInv, NEW b \in Processes, gPc[b] = "installing",
         NEW c \in gAsked, NEW k \in gAsked, Uses[c] = Uses[k]
  PROVE  gJob[b].staged[c] = gJob[b].staged[k]
<1>1. StagedInv(b) /\ DOMAIN gJob[b].staged = gAsked
  BY BuilderFacts DEF ReadInv
<1>2. CASE Extracted(c)
  BY <1>1, <1>2 DEF StagedInv, Extracted
<1>3. CASE ~Extracted(c)
  <2>1. PICK m \in gMoments : \A x \in gAsked : ~Extracted(x) => gJob[b].staged[x] = m[Uses[x]]
    BY <1>1 DEF StagedInv
  <2> QED
    BY <1>3, <2>1 DEF Extracted
<1> QED
  BY <1>2, <1>3

LEMMA RecordKeeps ==
  ASSUME SyncInv, NEW b \in Processes, NEW c \in Contracts, Sync!Record(b, c)
  PROVE  SyncInv'
<1> DEFINE j == gJob[b]
<1> DEFINE record == [j EXCEPT !.recorded = @ \union {c}]
<1>0. /\ gPc[b] = "installing" /\ j.todo = {} /\ c \in gAsked \ j.recorded
      /\ gBaseline' = [gBaseline EXCEPT ![Uses[c]] = j.staged[c]]
      /\ gJob' = [gJob EXCEPT ![b] = record]
      /\ UNCHANGED <<Sync!inputVars, gDisk, gLock, gAsked, gPc, Sync!historyVars, gFaults>>
  BY DEF Sync!Record, Sync!Installed
<1>1. /\ j \in SyncJobs /\ ReadInv(b) /\ StagedInv(b) /\ InstallInv(b) /\ DOMAIN j.staged = gAsked
      /\ Uses[c] \in Sync!Described /\ gBaseline \in [Sync!Described -> Sync!Contents] /\ j.staged[c] \in Sync!Versions
  BY <1>0, BuilderFacts, ContractsAssumption DEF ReadInv
<1>2. /\ record \in SyncJobs /\ record.recorded = j.recorded \union {c}
      /\ record.digests = j.digests /\ record.staged = j.staged /\ record.kept = j.kept
      /\ record.compared = j.compared /\ record.saved = j.saved /\ record.todo = j.todo
  BY <1>1 DEF SyncJobs
<1> HIDE DEF record
<1>3. UNCHANGED <<gSource, gMoments, gEdits, gDisk, gLock, gAsked, gPc, gAccepted, gDoubted, gFound, gReport>>
  BY <1>0 DEF Sync!inputVars, Sync!historyVars
<1>4. ASSUME gPc'[b] = "installing", gJob'[b] = record
      PROVE  ReadInv(b)' /\ StagedInv(b)' /\ InstallInv(b)'
  <2>1. ReadInv(b)' /\ StagedInv(b)'
    BY <1>0, <1>1, <1>2, <1>3, <1>4 DEF ReadInv, StagedInv, Extracted
  <2>2. Sync!Changes(b)' = Sync!Changes(b) /\ \A f : Sync!Made(b, f)' = Sync!Made(b, f)
    BY <1>2, <1>3, <1>4, ChangesStay
  <2>3. ASSUME NEW k \in record.recorded
        PROVE  k \in gAsked /\ gBaseline'[Uses[k]] = j.staged[k]
    <3>1. k \in gAsked /\ (k = c \/ gBaseline[Uses[k]] = j.staged[k])
      BY <1>0, <1>1, <1>2, <2>3 DEF InstallInv
    <3>2. Uses[k] \in Sync!Described
      BY <3>1, BuilderFacts, ContractsAssumption
    <3>3. CASE Uses[k] = Uses[c]
      BY <1>0, <1>1, <3>1, <3>3, StagedAlike
    <3>4. CASE Uses[k] # Uses[c]
      BY <1>0, <1>1, <3>1, <3>2, <3>4
    <3> QED
      BY <3>3, <3>4
  <2> QED
    BY <1>0, <1>1, <1>2, <1>3, <1>4, <2>1, <2>2, <2>3 DEF InstallInv
<1>5. ASSUME gJob'[b] = record, \A a \in Processes \ {b} : gJob'[a] = Sync!NoJob
      PROVE  CompatInv'
  <2> SUFFICES ASSUME NEW d \in Sync!Described \ gDoubted, gAccepted[d] # None
               PROVE  /\ gBaseline'[d] \in Sync!Versions => Sync!Compatible(gAccepted[d], gBaseline'[d])
                      /\ gBaseline'[d] = None => gBaseline[d] = None
                      /\ \A a \in Processes : \A k \in DOMAIN gJob'[a].staged :
                           Uses[k] = d => Sync!Compatible(gAccepted[d], gJob'[a].staged[k])
    BY <1>3 DEF SyncInv, CompatInv, MayFollow
  <2>1. /\ gBaseline[d] \in Sync!Versions => Sync!Compatible(gAccepted[d], gBaseline[d])
        /\ \A a \in Processes : \A k \in DOMAIN gJob[a].staged :
             Uses[k] = d => Sync!Compatible(gAccepted[d], gJob[a].staged[k])
    BY DEF SyncInv, CompatInv
  <2>2. \A a \in Processes : gJob'[a].staged = gJob[a].staged \/ DOMAIN gJob'[a].staged = {}
    BY <1>2, <1>5, NoJobType
  <2>3. gBaseline'[d] = IF d = Uses[c] THEN j.staged[c] ELSE gBaseline[d]
    BY <1>0, <1>1
  <2> QED
    BY <1>0, <1>1, <2>1, <2>2, <2>3, ContractsAssumption
<1>6. /\ gPc' = [gPc EXCEPT ![b] = "installing"] /\ gBaseline' \in [Sync!Described -> Sync!Contents]
      /\ gDisk' \in [Sync!Generated -> Sync!Contents] /\ gDoubted' \subseteq Sync!Described
      /\ gFaults' \in 0..MaxFailures /\ gReport' \in {gReport, "mixed"}
  BY <1>0, <1>1, <1>3, BuilderFacts DEF Sync!Contents, SyncInv, SyncTypes, Sync!TypeOK
<1> QED
  BY <1>0, <1>2, <1>3, <1>4, <1>5, <1>6, BuilderStep

\* A builder ends without success; what it was writing may be torn.
LEMMA FailureEnds ==
  ASSUME SyncInv, NEW b \in Processes, gPc[b] # "idle", NEW result, Sync!End(b, result),
         UNCHANGED <<Sync!inputVars, gAsked, gAccepted, gDoubted, gFound>>, gFaults' \in 0..MaxFailures,
         gDisk' = gDisk \/ (\E f \in Sync!Generated : gDisk' = [gDisk EXCEPT ![f] = TornFile]),
         gBaseline' = gBaseline
           \/ (\E d \in Sync!Described : gBaseline' = [gBaseline EXCEPT ![d] = TornFile]),
         result # "synchronized", result = "undone" => gDisk' = gFound
  PROVE  SyncInv'
<1>1. /\ gDisk \in [Sync!Generated -> Sync!Contents] /\ gBaseline \in [Sync!Described -> Sync!Contents]
      /\ TornFile \in Sync!Contents
  BY BuilderFacts DEF Sync!Contents
<1>2. /\ gDisk' \in [Sync!Generated -> Sync!Contents] /\ \A f \in Sync!Generated : gDisk'[f] \in {gDisk[f], TornFile}
      /\ gBaseline' \in [Sync!Described -> Sync!Contents]
      /\ \A d \in Sync!Described : gBaseline'[d] \in {gBaseline[d], TornFile}
  BY <1>1
<1>3. /\ gAccepted' \in [Sync!Described -> Sync!Versions \union {None}] /\ gDoubted' \subseteq Sync!Described
  BY DEF SyncInv, SyncTypes, Sync!TypeOK
<1>4. Sync!GeneratedTogether'
  BY DEF Sync!GeneratedTogether, Sync!End
<1>5. ASSUME \A a \in Processes : gJob'[a] = Sync!NoJob
      PROVE  CompatInv'
  <2> SUFFICES ASSUME NEW d \in Sync!Described \ gDoubted, gAccepted[d] # None
               PROVE  /\ gBaseline'[d] \in Sync!Versions => Sync!Compatible(gAccepted[d], gBaseline'[d])
                      /\ gBaseline'[d] = None => d \in OwnedContracts
                      /\ d \in OwnedContracts => MayFollow(d, gDisk[Sync!Descriptor(d)])
                                        /\ gDisk'[Sync!Descriptor(d)] \in {gDisk[Sync!Descriptor(d)], TornFile}
                      /\ gBaseline'[d] = None => gBaseline[d] = None
    BY <1>5, NoJobType, ContractsAssumption DEF CompatInv, MayFollow, Sync!End
  <2>1. /\ gBaseline[d] \in Sync!Versions => Sync!Compatible(gAccepted[d], gBaseline[d])
        /\ gBaseline[d] = None => d \in OwnedContracts
        /\ d \in OwnedContracts => MayFollow(d, gDisk[Sync!Descriptor(d)])
    BY DEF SyncInv, CompatInv
  <2>2. d \in OwnedContracts => Sync!Descriptor(d) \in Sync!Generated
    BY DEF Sync!Generated
  <2> QED
    BY <1>2, <2>1, <2>2, ContractsAssumption
<1> QED
  BY <1>2, <1>3, <1>4, <1>5, BuilderEnds

LEMMA RefuseKeeps ==
  ASSUME SyncInv, NEW b \in Processes, Sync!Refuse(b) \/ Sync!InputChanged(b)
  PROVE  SyncInv'
<1>1. /\ gPc[b] # "idle" /\ Sync!End(b, "refused")
      /\ UNCHANGED <<Sync!inputVars, gAsked, gDisk, gBaseline, gAccepted, gDoubted, gFound, gFaults>>
  BY DEF Sync!Refuse, Sync!InputChanged
<1>2. gFaults' \in 0..MaxFailures
  BY <1>1 DEF SyncInv, SyncTypes, Sync!TypeOK
<1> QED
  BY <1>1, <1>2, FailureEnds

\* Everything is put back.
LEMMA RestoredKeeps ==
  ASSUME SyncInv, NEW b \in Processes, Sync!Restored(b)
  PROVE  SyncInv'
<1> DEFINE result == IF gReport = "mixed" THEN "mixed" ELSE "undone"
<1>1. /\ gPc[b] = "restoring" /\ gJob[b].todo = {} /\ Sync!End(b, result)
      /\ UNCHANGED <<Sync!inputVars, gAsked, gDisk, gBaseline, gAccepted, gDoubted, gFound, gFaults>>
  BY DEF Sync!Restored
<1>2. gFaults' \in 0..MaxFailures
  BY <1>1 DEF SyncInv, SyncTypes, Sync!TypeOK
<1>3. ASSUME result = "undone"
      PROVE  gDisk' = gFound
  <2>1. \A f \in Sync!Generated : gDisk[f] = gFound[f]
    BY <1>1, <1>3, BuilderFacts DEF InstallInv
  <2> QED
    BY <1>1, <2>1, BuilderFacts
<1> QED
  BY <1>1, <1>2, <1>3, FailureEnds

LEMMA RecordFailsKeeps ==
  ASSUME SyncInv, NEW b \in Processes, NEW c \in Contracts, Sync!RecordFails(b, c)
  PROVE  SyncInv'
<1>1. /\ gPc[b] = "installing" /\ gFaults < MaxFailures /\ gFaults' = gFaults + 1
      /\ Sync!End(b, "unrecorded") /\ Uses[c] \in Sync!Described
      /\ UNCHANGED <<Sync!inputVars, gAsked, gDisk, gAccepted, gDoubted, gFound>>
  BY ContractsAssumption DEF Sync!RecordFails, Sync!Installed
<1>2. gFaults' \in 0..MaxFailures
  BY <1>1, ContractsAssumption DEF SyncInv, SyncTypes, Sync!TypeOK
<1>3. PICK left \in {gBaseline[Uses[c]], TornFile} : gBaseline' = [gBaseline EXCEPT ![Uses[c]] = left]
  BY DEF Sync!RecordFails
<1>4. gBaseline' = gBaseline \/ gBaseline' = [gBaseline EXCEPT ![Uses[c]] = TornFile]
  BY <1>1, <1>3, BuilderFacts
<1> QED
  BY <1>1, <1>2, <1>4, FailureEnds

LEMMA KillKeeps ==
  ASSUME SyncInv, NEW b \in Processes, Sync!Kill(b)
  PROVE  SyncInv'
<1>1. /\ gPc[b] # "idle" /\ gFaults < MaxFailures /\ gFaults' = gFaults + 1 /\ Sync!End(b, "killed")
      /\ UNCHANGED <<Sync!inputVars, gAsked, gAccepted, gDoubted, gFound>>
  BY DEF Sync!Kill
<1>2. gFaults' \in 0..MaxFailures
  BY <1>1, ContractsAssumption DEF SyncInv, SyncTypes, Sync!TypeOK
<1>3. /\ gDisk' = gDisk \/ (\E f \in Sync!Generated : gDisk' = [gDisk EXCEPT ![f] = TornFile])
      /\ gBaseline' = gBaseline
           \/ (\E d \in Sync!Described : gBaseline' = [gBaseline EXCEPT ![d] = TornFile])
  <2>1. \/ UNCHANGED <<gDisk, gBaseline>>
        \/ (\E f \in gJob[b].todo : gDisk' = [gDisk EXCEPT ![f] = TornFile]) /\ UNCHANGED gBaseline
        \/ (\E c \in Contracts : gBaseline' = [gBaseline EXCEPT ![Uses[c]] = TornFile])
              /\ UNCHANGED gDisk
    BY DEF Sync!Kill
  <2>2. gJob[b].todo \subseteq Sync!Generated
    BY BuilderFacts DEF SyncJobs
  <2>3. \A c \in Contracts : Uses[c] \in Sync!Described
    BY ContractsAssumption
  <2> QED
    BY <2>1, <2>2, <2>3, Zenon
<1> QED
  BY <1>1, <1>2, <1>3, FailureEnds

\* A success: what is recorded is what was staged, of one moment, and compatible.
LEMMA SynchronizedKeeps ==
  ASSUME SyncInv, NEW b \in Processes, Sync!Synchronized(b)
  PROVE  SyncInv'
<1> DEFINE j == gJob[b]
<1> DEFINE used == {Uses[c] : c \in gAsked}
<1>0. /\ gPc[b] = "installing" /\ j.todo = {} /\ j.recorded = gAsked /\ Sync!End(b, "synchronized")
      /\ gAccepted' = [d \in Sync!Described |-> IF d \in used THEN gBaseline[d] ELSE gAccepted[d]]
      /\ UNCHANGED <<Sync!inputVars, gAsked, gDisk, gBaseline, gDoubted, gFound, gFaults>>
  BY DEF Sync!Synchronized, Sync!Installed
<1>1. /\ ReadInv(b) /\ StagedInv(b) /\ InstallInv(b) /\ DOMAIN j.staged = gAsked
      /\ gAsked \subseteq Contracts /\ used \subseteq Sync!Described
      /\ \A c \in gAsked : j.staged[c] \in Sync!Versions /\ Uses[c] \in Sync!Described
  BY <1>0, BuilderFacts, ContractsAssumption DEF ReadInv
<1>2. \A c \in gAsked : gBaseline[Uses[c]] = j.staged[c] /\ gAccepted'[Uses[c]] = j.staged[c]
  BY <1>0, <1>1 DEF InstallInv
<1>3. \A d \in Sync!Described : gAccepted'[d] = IF d \in used THEN gBaseline[d] ELSE gAccepted[d]
  BY <1>0
<1>4. \A f \in Sync!Generated : f[2] \in gAsked =>
        gDisk[f] = j.staged[f[2]] \/ (gDisk[f] = TornFile /\ f[2] \notin OwnedContracts)
  <2> SUFFICES ASSUME NEW f \in Sync!Generated, f[2] \in gAsked
               PROVE  gDisk[f] = j.staged[f[2]] \/ (gDisk[f] = TornFile /\ f[2] \notin OwnedContracts)
    OBVIOUS
  <2>1. CASE f \in Sync!Changes(b)
    BY <1>0, <1>1, <2>1 DEF InstallInv, Sync!Made
  <2>2. CASE f \notin Sync!Changes(b)
    <3>1. PICK c \in j.kept : f = Sync!Projection(c)
      BY <2>2 DEF Sync!Changes
    <3>2. f[2] = c /\ c \notin OwnedContracts /\ gFound[f] = TornFile
      BY <1>0, <1>1, <3>1 DEF ReadInv, Sync!Projection
    <3> QED
      BY <1>0, <1>1, <2>2, <3>2 DEF InstallInv
  <2> QED
    BY <2>1, <2>2
<1>5. Sync!FollowsTheSources'
  <2>1. PICK m \in gMoments : \A c \in gAsked : ~Extracted(c) => j.staged[c] = m[Uses[c]]
    BY <1>0, <1>1 DEF StagedInv
  <2>2. \A d \in used \ (OwnedContracts \ gAsked) : gAccepted'[d] = m[d]
    BY <1>2, <2>1 DEF Extracted
  <2>3. \A d \in used : gBaseline[d] = gAccepted'[d]
    BY <1>2
  <2>4. \A f \in Sync!Generated : f[2] \in gAsked =>
          gDisk[f] = gAccepted'[Uses[f[2]]] \/ (gDisk[f] = TornFile /\ f[2] \notin OwnedContracts)
    BY <1>2, <1>4
  <2>5. UNCHANGED <<gMoments, gAsked, gDisk, gBaseline>>
    BY <1>0 DEF Sync!inputVars
  <2> QED
    BY <2>2, <2>3, <2>4, <2>5 DEF Sync!FollowsTheSources
<1>6. ASSUME \A a \in Processes : gJob'[a] = Sync!NoJob
      PROVE  CompatInv'
  <2> SUFFICES ASSUME NEW d \in Sync!Described \ gDoubted, gAccepted'[d] # None
               PROVE  /\ gBaseline[d] \in Sync!Versions => Sync!Compatible(gAccepted'[d], gBaseline[d])
                      /\ gBaseline[d] = None => d \in OwnedContracts
                      /\ d \in OwnedContracts =>
                           /\ gDisk[Sync!Descriptor(d)] \in Sync!Versions =>
                                Sync!Compatible(gAccepted'[d], gDisk[Sync!Descriptor(d)])
                           /\ gBaseline[d] = None => gDisk[Sync!Descriptor(d)] # None
    BY <1>0, <1>6, NoJobType, ContractsAssumption DEF CompatInv, MayFollow, Sync!End
  <2>1. CASE d \notin used
    <3>1. gAccepted'[d] = gAccepted[d]
      BY <1>3, <2>1
    <3> QED
      BY <3>1 DEF SyncInv, CompatInv, MayFollow
  <2>2. CASE d \in used
    <3>1. PICK c \in gAsked : Uses[c] = d
      BY <2>2
    <3>2. gBaseline[d] = j.staged[c] /\ gAccepted'[d] = j.staged[c] /\ j.staged[c] \in Sync!Versions
      BY <1>1, <1>2, <3>1
    <3>3. gBaseline[d] # None
      BY <3>2, ContractsAssumption
    <3>4. ASSUME d \in OwnedContracts
          PROVE  gDisk[Sync!Descriptor(d)] = j.staged[c]
      <4>1. Sync!Descriptor(d) \in Sync!Generated /\ Sync!Descriptor(d)[2] = d /\ Uses[d] = d
        BY <3>4 DEF Sync!Generated, Sync!Descriptor, Sync!Described
      <4>2. CASE d \in gAsked
        BY <1>2, <1>4, <3>2, <3>4, <4>1, <4>2
      <4>3. CASE d \notin gAsked
        <5>1. Sync!Descriptor(d) \notin Sync!Changes(b)
          BY <4>1, <4>3 DEF Sync!Changes
        <5>2. gDisk[Sync!Descriptor(d)] = gFound[Sync!Descriptor(d)]
          BY <1>0, <1>1, <4>1, <5>1 DEF InstallInv
        <5> QED
          BY <1>0, <1>1, <3>1, <3>4, <4>3, <5>2 DEF StagedInv, Extracted
      <4> QED
        BY <4>2, <4>3
    <3> QED
      BY <3>2, <3>3, <3>4 DEF Sync!Compatible
  <2> QED
    BY <2>1, <2>2
<1>7. /\ gAccepted' \in [Sync!Described -> Sync!Versions \union {None}] /\ gDoubted' \subseteq Sync!Described
      /\ gDisk' \in [Sync!Generated -> Sync!Contents] /\ gBaseline' \in [Sync!Described -> Sync!Contents]
      /\ gFaults' \in 0..MaxFailures
  <2>1. \A d \in Sync!Described : gAccepted'[d] \in Sync!Versions \union {None}
    BY <1>1, <1>2, <1>3 DEF SyncInv, SyncTypes, Sync!TypeOK
  <2> QED
    BY <1>0, <2>1 DEF SyncInv, SyncTypes, Sync!TypeOK
<1>8. Sync!GeneratedTogether'
  BY <1>0, <1>5 DEF Sync!GeneratedTogether, Sync!End
<1> QED
  BY <1>0, <1>6, <1>7, <1>8, BuilderEnds

LEMMA NextSync == SyncInv /\ [Sync!Next]_Sync!vars => SyncInv'
<1> SUFFICES ASSUME SyncInv, [Sync!Next]_Sync!vars PROVE SyncInv'
  OBVIOUS
<1>1. ASSUME NEW b \in Processes, Sync!Step(b)
      PROVE  SyncInv'
  BY <1>1, LockKeeps, AllDigestedKeeps, AllStagedKeeps, RefuseKeeps, BackupKeeps,
     RestoredKeeps, SynchronizedKeeps, KillKeeps, SourceDigested, StageKeeps, CompareKeeps,
     RecordKeeps, RecordFailsKeeps, InstallKeeps, InstallFailsKeeps, RestoreKeeps,
     RestoreFailsKeeps DEF Sync!Step
<1>2. CASE UNCHANGED Sync!vars
  <2>1. SyncTypes'
    BY <1>2 DEF Sync!vars, SyncInv, SyncTypes, Sync!TypeOK
  <2>2. SyncLock' /\ CompatInv'
    BY <1>2 DEF Sync!vars, SyncInv, SyncLock, CompatInv, MayFollow
  <2>3. Sync!GeneratedTogether'
    BY <1>2 DEF Sync!vars, SyncInv, Sync!GeneratedTogether, Sync!FollowsTheSources
  <2>4. \A b \in Processes : ReadInv(b)' /\ StagedInv(b)'
    BY <1>2 DEF Sync!vars, SyncInv, ReadInv, StagedInv, Extracted, Between
  <2>5. \A b \in Processes : InstallInv(b)'
    BY <1>2 DEF Sync!vars, SyncInv, InstallInv, Sync!Changes, Sync!Made
  <2> QED
    BY <2>1, <2>2, <2>3, <2>4, <2>5 DEF SyncInv
<1> QED
  BY <1>1, <1>2, SourcesEdited DEF Sync!Next

\* Every step of a builder but a success leaves what was accepted.
LEMMA OthersAcceptNothing ==
  ASSUME NEW b \in Processes
  PROVE  /\ (\/ Sync!Lock(b) \/ Sync!AllDigested(b) \/ Sync!AllStaged(b) \/ Sync!Refuse(b) \/ Sync!InputChanged(b)
             \/ Sync!Backup(b) \/ Sync!Restored(b) \/ Sync!Kill(b)) => UNCHANGED gAccepted
         /\ \A c \in Contracts :
              (\/ Sync!Digest(b, c) \/ Sync!Stage(b, c) \/ Sync!CompareInput(b, c) \/ Sync!Record(b, c)
               \/ Sync!RecordFails(b, c)) => UNCHANGED gAccepted
         /\ \A f \in Sync!Generated :
              (\/ Sync!Install(b, f) \/ Sync!InstallFails(b, f) \/ Sync!Restore(b, f) \/ Sync!RestoreFails(b, f))
                => UNCHANGED gAccepted
<1>1. /\ Sync!Lock(b) => UNCHANGED gAccepted
      /\ Sync!AllDigested(b) => UNCHANGED gAccepted
      /\ Sync!AllStaged(b) => UNCHANGED gAccepted
      /\ Sync!Refuse(b) => UNCHANGED gAccepted
  BY DEF Sync!Lock, Sync!AllDigested, Sync!AllStaged, Sync!Refuse, Sync!historyVars
<1>2. /\ Sync!InputChanged(b) => UNCHANGED gAccepted
      /\ Sync!Backup(b) => UNCHANGED gAccepted
      /\ Sync!Restored(b) => UNCHANGED gAccepted
      /\ Sync!Kill(b) => UNCHANGED gAccepted
  BY DEF Sync!InputChanged, Sync!Backup, Sync!Restored, Sync!Kill, Sync!historyVars
<1>3. ASSUME NEW c \in Contracts
      PROVE  /\ Sync!Digest(b, c) => UNCHANGED gAccepted
             /\ Sync!Stage(b, c) => UNCHANGED gAccepted
             /\ Sync!CompareInput(b, c) => UNCHANGED gAccepted
             /\ Sync!Record(b, c) => UNCHANGED gAccepted
             /\ Sync!RecordFails(b, c) => UNCHANGED gAccepted
  BY DEF Sync!Digest, Sync!Stage, Sync!CompareInput, Sync!Record, Sync!RecordFails,
      Sync!historyVars
<1>4. ASSUME NEW f \in Sync!Generated
      PROVE  /\ Sync!Install(b, f) => UNCHANGED gAccepted
             /\ Sync!InstallFails(b, f) => UNCHANGED gAccepted
             /\ Sync!Restore(b, f) => UNCHANGED gAccepted
             /\ Sync!RestoreFails(b, f) => UNCHANGED gAccepted
  BY DEF Sync!Install, Sync!InstallFails, Sync!Restore, Sync!RestoreFails, Sync!historyVars
<1> QED
  BY <1>1, <1>2, <1>3, <1>4

\* Only a success accepts anything.
LEMMA AcceptsCompatible ==
  ASSUME SyncInv, [Sync!Next]_Sync!vars, NEW c \in Sync!Described \ gDoubted', gAccepted[c] # None
  PROVE  Sync!Compatible(gAccepted[c], gAccepted'[c])
<1>1. CASE gAccepted' = gAccepted
  BY <1>1 DEF Sync!Compatible
<1>2. CASE gAccepted' # gAccepted
  <2>1. PICK b \in Processes : Sync!Synchronized(b)
    <3>1. ASSUME NEW d \in Sync!Described, Sync!Edit(d)
          PROVE  FALSE
      BY <1>2, <3>1 DEF Sync!Edit, Sync!historyVars
    <3>2. PICK b \in Processes : Sync!Step(b)
      BY <1>2, <3>1 DEF Sync!Next, Sync!vars, Sync!historyVars
    <3> QED
      BY <1>2, <3>2, OthersAcceptNothing DEF Sync!Step
  <2>2. /\ gPc[b] = "installing" /\ gJob[b].recorded = gAsked /\ gDoubted' = gDoubted
        /\ gAccepted' = [d \in Sync!Described |->
             IF d \in {Uses[x] : x \in gAsked} THEN gBaseline[d] ELSE gAccepted[d]]
    BY <2>1 DEF Sync!Synchronized, Sync!Installed
  <2>3. CASE c \notin {Uses[x] : x \in gAsked}
    BY <2>2, <2>3 DEF Sync!Compatible
  <2>4. CASE c \in {Uses[x] : x \in gAsked}
    <3>1. PICK x \in gAsked : Uses[x] = c
      BY <2>4
    <3>2. gBaseline[c] = gJob[b].staged[x] /\ gJob[b].staged[x] \in Sync!Versions
      BY <2>2, <3>1, BuilderFacts DEF InstallInv, ReadInv
    <3> QED
      BY <2>2, <2>4, <3>2 DEF SyncInv, CompatInv
  <2> QED
    BY <2>3, <2>4
<1> QED
  BY <1>1, <1>2

-----------------------------------------------------------------------------
(* RootTransaction: a person edits while no command runs.                    *)

EditedProofs == INSTANCE RootTransaction_proofs WITH
  Files <- RootFiles, Contents <- RootContents, Dependencies <- DependenciesFile,
  Readers <- RootReaders, Transactions <- RootChanges, Direct <- DirectChanges, Markers <- {},
  Resolvable <- RootsThatResolve, InitRoot <- FirstRoot, RacingEdits <- FALSE,
  MaxEdits <- MaxPersonEdits, MaxFaults <- MaxStops,
  disk <- tDisk, guard <- tGuard, staging <- tStaging, litter <- tLitter, lockFile <- tLockFile,
  holder <- tHolder, shared <- tShared, pc <- tPc, txn <- tTxn, plan <- tPlan, todo <- tTodo,
  tmp <- tTmp, rpc <- tRpc, view <- tView, edits <- tEdits, faults <- tFaults,
  half <- tHalf

\* Both instances are of the same definitions.
LEMMA SameEdited ==
  /\ Edited!Init <=> EditedProofs!Init
  /\ Edited!Next <=> EditedProofs!Next
  /\ Edited!TypeOK <=> EditedProofs!TypeOK
  /\ Edited!KeepManualEdits <=> EditedProofs!KeepManualEdits
  /\ Edited!vars = EditedProofs!vars
  /\ Edited!RootAssumptions <=> EditedProofs!RootAssumptions
<1>1. Edited!Init <=> EditedProofs!Init
  BY DEF Edited!Init, EditedProofs!Init, Edited!NoGuard, EditedProofs!NoGuard, Edited!NoTxn,
         EditedProofs!NoTxn, Edited!NoFile, EditedProofs!NoFile, Edited!NoRecord,
         EditedProofs!NoRecord, Edited!NoPlan, EditedProofs!NoPlan
<1>2. Edited!Next <=> EditedProofs!Next
  BY DEF Edited!Values, EditedProofs!Values, Edited!Roots, EditedProofs!Roots,
         Edited!ChangeSets, EditedProofs!ChangeSets, Edited!diskVars, EditedProofs!diskVars,
         Edited!lockVars, EditedProofs!lockVars, Edited!writerVars, EditedProofs!writerVars,
         Edited!readerVars, EditedProofs!readerVars, Edited!envVars, EditedProofs!envVars,
         Edited!vars, EditedProofs!vars, Edited!NoGuard, EditedProofs!NoGuard, Edited!Torn,
         EditedProofs!Torn, Edited!NoTxn, EditedProofs!NoTxn, Edited!NoFile,
         EditedProofs!NoFile, Edited!NoRecord, EditedProofs!NoRecord, Edited!NoPlan,
         EditedProofs!NoPlan, Edited!Overlay, EditedProofs!Overlay, Edited!Current,
         EditedProofs!Current, Edited!Goto, EditedProofs!Goto, Edited!Leave,
         EditedProofs!Leave, Edited!Put, EditedProofs!Put, Edited!Readable,
         EditedProofs!Readable, Edited!Inspect, EditedProofs!Inspect, Edited!Lock,
         EditedProofs!Lock, Edited!NothingToRecover, EditedProofs!NothingToRecover,
         Edited!Target, EditedProofs!Target, Edited!Recoverable, EditedProofs!Recoverable,
         Edited!CanRecoverBlindly, EditedProofs!CanRecoverBlindly, Edited!CanOnlyUndo,
         EditedProofs!CanOnlyUndo, Edited!CanRecover, EditedProofs!CanRecover,
         Edited!ForgetTransaction, EditedProofs!ForgetTransaction, Edited!StartRecovery,
         EditedProofs!StartRecovery, Edited!RefuseRecovery, EditedProofs!RefuseRecovery,
         Edited!Accepts, EditedProofs!Accepts, Edited!Stage, EditedProofs!Stage,
         Edited!CreateGuard, EditedProofs!CreateGuard, Edited!WriteGuard,
         EditedProofs!WriteGuard, Edited!Writing, EditedProofs!Writing, Edited!BeginWrite,
         EditedProofs!BeginWrite, Edited!FinishWrite, EditedProofs!FinishWrite,
         Edited!Remove, EditedProofs!Remove, Edited!KeepAccount, EditedProofs!KeepAccount,
         Edited!OnePath, EditedProofs!OnePath, Edited!RemovesInstance,
         EditedProofs!RemovesInstance, Edited!CommitUnknownStatus,
         EditedProofs!CommitUnknownStatus, Edited!CommitRecord, EditedProofs!CommitRecord,
         Edited!Restored, EditedProofs!Restored, Edited!Verifying, EditedProofs!Verifying,
         Edited!CleanBeforeGuard, EditedProofs!CleanBeforeGuard, Edited!VerifyNothing,
         EditedProofs!VerifyNothing, Edited!VerifyPath, EditedProofs!VerifyPath,
         Edited!VerifyFails, EditedProofs!VerifyFails, Edited!RemoveGuard,
         EditedProofs!RemoveGuard, Edited!CleanPublished, EditedProofs!CleanPublished,
         Edited!CleanRecovered, EditedProofs!CleanRecovered, Edited!StartDirect,
         EditedProofs!StartDirect, Edited!FinishDirect, EditedProofs!FinishDirect,
         Edited!Decline, EditedProofs!Decline, Edited!IoError, EditedProofs!IoError,
         Edited!Kill, EditedProofs!Kill, Edited!Close, EditedProofs!Close, Edited!OpenShared,
         EditedProofs!OpenShared, Edited!OpenUnlocked, EditedProofs!OpenUnlocked,
         Edited!ListPastGuard, EditedProofs!ListPastGuard, Edited!ListRoot,
         EditedProofs!ListRoot, Edited!Foreign, EditedProofs!Foreign, Edited!ReadFile,
         EditedProofs!ReadFile, Edited!Complete, EditedProofs!Complete, Edited!EndRead,
         EditedProofs!EndRead, Edited!AbandonRead, EditedProofs!AbandonRead, Edited!Quiet,
         EditedProofs!Quiet, Edited!ManualEdit, EditedProofs!ManualEdit, Edited!Step,
         EditedProofs!Step, Edited!Request, EditedProofs!Request, Edited!Read,
         EditedProofs!Read, Edited!Next, EditedProofs!Next
<1>3. Edited!TypeOK <=> EditedProofs!TypeOK
  BY DEF Edited!Values, EditedProofs!Values, Edited!Roots, EditedProofs!Roots,
         Edited!ChangeSets, EditedProofs!ChangeSets, Edited!NoGuard, EditedProofs!NoGuard,
         Edited!Torn, EditedProofs!Torn, Edited!NoTxn, EditedProofs!NoTxn, Edited!NoFile,
         EditedProofs!NoFile, Edited!NoRecord, EditedProofs!NoRecord, Edited!NoPlan,
         EditedProofs!NoPlan, Edited!WriterStates, EditedProofs!WriterStates, Edited!Records,
         EditedProofs!Records, Edited!TypeOK, EditedProofs!TypeOK
<1>4. Edited!KeepManualEdits <=> EditedProofs!KeepManualEdits
  BY DEF Edited!NoGuard, EditedProofs!NoGuard, Edited!Torn, EditedProofs!Torn,
         Edited!NoRecord, EditedProofs!NoRecord, Edited!Current, EditedProofs!Current,
         Edited!Target, EditedProofs!Target, Edited!Recoverable, EditedProofs!Recoverable,
         Edited!ManuallyEdited, EditedProofs!ManuallyEdited, Edited!KeepManualEdits,
         EditedProofs!KeepManualEdits
<1>5. Edited!vars = EditedProofs!vars
  BY DEF Edited!vars, EditedProofs!vars
<1>6. Edited!RootAssumptions <=> EditedProofs!RootAssumptions
  BY DEF Edited!Values, EditedProofs!Values, Edited!Roots, EditedProofs!Roots,
         Edited!ChangeSets, EditedProofs!ChangeSets, Edited!NoGuard, EditedProofs!NoGuard,
         Edited!Torn, EditedProofs!Torn, Edited!NoTxn, EditedProofs!NoTxn, Edited!NoFile,
         EditedProofs!NoFile, Edited!NoRecord, EditedProofs!NoRecord, Edited!NoPlan,
         EditedProofs!NoPlan, Edited!AbsentAssumption, EditedProofs!AbsentAssumption,
         Edited!NobodyAssumption, EditedProofs!NobodyAssumption,
         Edited!DependenciesAssumption, EditedProofs!DependenciesAssumption,
         Edited!DirectAssumption, EditedProofs!DirectAssumption, Edited!OnePath,
         EditedProofs!OnePath, Edited!RemovesInstance, EditedProofs!RemovesInstance,
         Edited!ProcessAssumption, EditedProofs!ProcessAssumption, Edited!ChangesAssumption,
         EditedProofs!ChangesAssumption, Edited!RootAssumption, EditedProofs!RootAssumption,
         Edited!BoundAssumption, EditedProofs!BoundAssumption, Edited!NameAssumption,
         EditedProofs!NameAssumption, Edited!RootAssumptions, EditedProofs!RootAssumptions
<1> QED
  BY <1>1, <1>2, <1>3, <1>4, <1>5, <1>6

LEMMA EditedBehaves == ArtifactsSpec => EditedProofs!Spec
<1>1. ArtifactsInit => EditedProofs!Init
  BY SameEdited DEF ArtifactsInit
<1>2. [ArtifactsNext]_artifactVars => [EditedProofs!Next]_(EditedProofs!vars)
  BY SameEdited DEF ArtifactsNext, artifactVars, Rests, changeVars, EditedProofs!vars
<1> QED
  BY <1>1, <1>2, PTL DEF ArtifactsSpec, EditedProofs!Spec

LEMMA EditedTypes == ArtifactsSpec => []Edited!TypeOK
<1>1. EditedProofs!Spec => []EditedProofs!TypeOK
  BY EditedProofs!TypeCorrect, EditedAssumption, SameEdited
<1>2. EditedProofs!TypeOK => Edited!TypeOK
  BY SameEdited
<1> QED
  BY <1>1, <1>2, EditedBehaves, PTL

LEMMA EditsAreKept == ArtifactsSpec => Edited!ManualEditSurvives
<1>1. EditedProofs!Spec => EditedProofs!ManualEditSurvives
  BY EditedProofs!EditsSurvive, EditedAssumption, SameEdited
<1>2. [EditedProofs!KeepManualEdits]_(EditedProofs!vars)
        => [Edited!KeepManualEdits]_(Edited!vars)
  BY SameEdited DEF Edited!vars, EditedProofs!vars
<1> QED
  BY <1>1, <1>2, EditedBehaves, PTL
     DEF EditedProofs!ManualEditSurvives, Edited!ManualEditSurvives


-----------------------------------------------------------------------------
(* Artifacts: the kinds keep their state while another one is chosen.       *)

ChosenInv == part \in {"generations", "outputs", "workspace", "edited", "contracts", "tools"}

LEMMA OutputsTyped == AppsInv => Apps!TypeOK
<1> SUFFICES ASSUME AppsInv PROVE Apps!TypeOK
  OBVIOUS
<1>1. oPc \in [Processes -> {"idle", "archive", "describe", "lower", "validate", "authority",
                 "copy", "artifact", "planned", "root", "conventions", "compile", "digest",
                 "make", "resolve", "recheck", "publish"}]
  BY DEF AppsInv, OutputTypes, PhasesOf, HostPhases, DistributionPhases, LocalPhases,
         Apps!Outputs
<1>2. \A p \in Processes : oJob[p].todo \subseteq Sources /\ oJob[p].output \in Apps!Outputs
  BY DEF AppsInv, OutputTypes, Jobs
<1> QED
  BY <1>1, <1>2 DEF AppsInv, OutputTypes, MomentsInv, Apps!TypeOK

LEMMA OneKindSteps ==
  ASSUME [ArtifactsNext]_artifactVars
  PROVE  /\ [Apps!Next]_Apps!vars /\ [Workspace!Next]_Workspace!vars
         /\ [Bootstrap!Next]_Bootstrap!vars /\ [Sync!Next]_Sync!vars
<1>1. [Apps!Next]_Apps!vars /\ [Workspace!Next]_Workspace!vars
  BY DEF ArtifactsNext, artifactVars, Rests, outputVars, initVars, Apps!vars, Workspace!vars
<1>2. [Bootstrap!Next]_Bootstrap!vars /\ [Sync!Next]_Sync!vars
  BY DEF ArtifactsNext, artifactVars, Rests, toolVars, contractVars, Bootstrap!vars, Sync!vars,
     Sync!inputVars, Sync!historyVars
<1> QED
  BY <1>1, <1>2

\* What the commands publish is what it describes itself to be, of contents that
\* belong together, whatever is edited meanwhile; and an App workspace is made whole
\* or not at all (build, prepare, assemble, publish_new_output, app init).
THEOREM OutputsWhole == ArtifactsSpec => []OutputsAreWhole
<1>1. ArtifactsInit => AppsInv /\ WorkspaceInv
  BY InitApps, InitWorkspace DEF ArtifactsInit
<1>2. AppsInv /\ WorkspaceInv /\ [ArtifactsNext]_artifactVars => AppsInv' /\ WorkspaceInv'
  BY OneKindSteps, NextApps, NextWorkspace
<1>3. AppsInv /\ WorkspaceInv => OutputsAreWhole
  <2>1. AppsInv => /\ Apps!HostIsWhatItDescribes /\ Apps!DistributionIsTheBuild
                   /\ Apps!LocalIsOfOneMoment
    BY DEF AppsInv, OutInv, HostOut, Apps!HostIsWhatItDescribes
  <2> QED
    BY <2>1, WorkspaceWhole DEF OutputsAreWhole
<1> QED
  BY <1>1, <1>2, <1>3, PTL DEF ArtifactsSpec

\* Of commands that race for one destination the first one wins (publish_new_output).
THEOREM FirstOutput == ArtifactsSpec => Apps!FirstOutputStays
<1>1. ArtifactsInit => AppsInv
  BY InitApps DEF ArtifactsInit
<1>2. AppsInv /\ [ArtifactsNext]_artifactVars => AppsInv'
  BY OneKindSteps, NextApps
<1>3. AppsInv /\ [ArtifactsNext]_artifactVars =>
        [\A d \in Apps!Outputs : oOut[d] # None /\ oMeddlings' = oMeddlings
           => oOut'[d] = oOut[d]]_Apps!vars
  BY OneKindSteps, FirstStays
<1> QED
  BY <1>1, <1>2, <1>3, PTL DEF ArtifactsSpec, Apps!FirstOutputStays

\* A lock of local tools that was loaded is the one that the files were given when it
\* was read, and outputs are only accepted of a tool that is still as it was locked,
\* whatever is edited before, while and after it runs (bootstrap.rs, external.rs).
THEOREM ToolsLocked == ArtifactsSpec => []ToolsAreAsLocked
<1>1. ArtifactsInit => ToolsInv
  BY InitTools DEF ArtifactsInit
<1>2. ToolsInv /\ [ArtifactsNext]_artifactVars => ToolsInv'
  BY OneKindSteps, NextTools
<1>3. ToolsInv => ToolsAreAsLocked
  BY LoadedFromCurrent DEF ToolsInv, ToolsAreAsLocked
<1> QED
  BY <1>1, <1>2, <1>3, PTL DEF ArtifactsSpec

\* A generation that reports success leaves files of one moment of the sources, one
\* that failed puts back what it found, and contracts change compatibly from one
\* success to the next, whatever is edited, fails or is killed between (synchronize).
THEOREM ContractsSynchronized == ArtifactsSpec => ContractsStayInStep
<1>1. ArtifactsInit => SyncInv
  BY InitSync DEF ArtifactsInit
<1>2. SyncInv /\ [ArtifactsNext]_artifactVars => SyncInv'
  BY OneKindSteps, NextSync
<1>3. SyncInv /\ SyncInv' /\ [ArtifactsNext]_artifactVars =>
        [part = "contracts" => Sync!GeneratedTogether']_contractVars
  BY DEF SyncInv
<1>4. SyncInv /\ [ArtifactsNext]_artifactVars =>
        [\A c \in Sync!Described \ gDoubted' :
           gAccepted[c] # None => Sync!Compatible(gAccepted[c], gAccepted'[c])]_Sync!vars
  BY OneKindSteps, AcceptsCompatible
<1> QED
  BY <1>1, <1>2, <1>3, <1>4, PTL DEF ArtifactsSpec, ContractsStayInStep, Sync!ChangesCompatibly

\* Commands leave what a person wrote to a path of a stopped change, and the first of
\* the outputs that race for one destination stays (ensure_recoverable,
\* publish_new_output).
THEOREM NothingOverwritten == ArtifactsSpec => NothingIsOverwritten
BY EditsAreKept, FirstOutput DEF NothingIsOverwritten

LEMMA OneChosen == ArtifactsSpec => []ChosenInv
<1>1. ArtifactsInit => ChosenInv
  BY DEF ArtifactsInit, ChosenInv
<1>2. ChosenInv /\ [ArtifactsNext]_artifactVars => ChosenInv'
  BY DEF ChosenInv, ArtifactsNext, artifactVars, Rests
<1> QED
  BY <1>1, <1>2, PTL DEF ArtifactsSpec

LEMMA GenerationsBehave == ArtifactsSpec => Spec
<1>1. ArtifactsInit => Init
  BY DEF ArtifactsInit
<1>2. [ArtifactsNext]_artifactVars => [Next]_vars
  BY DEF ArtifactsNext, artifactVars, Rests
<1> QED
  BY <1>1, <1>2, PTL DEF ArtifactsSpec, Spec

\* Every variable of every kind keeps its type.
THEOREM ArtifactTypes == ArtifactsSpec => []ArtifactsTypeOK
<1>1. ArtifactsInit => AppsInv /\ WorkspaceInv /\ ToolsInv /\ SyncInv
  BY InitApps, InitWorkspace, InitTools, InitSync DEF ArtifactsInit
<1>2. AppsInv /\ WorkspaceInv /\ ToolsInv /\ SyncInv /\ [ArtifactsNext]_artifactVars
        => AppsInv' /\ WorkspaceInv' /\ ToolsInv' /\ SyncInv'
  BY OneKindSteps, NextApps, NextWorkspace, NextTools, NextSync
<1>3. /\ AppsInv => Apps!TypeOK
      /\ WorkspaceInv => Workspace!TypeOK
      /\ ToolsInv => Bootstrap!TypeOK
      /\ SyncInv => Sync!TypeOK
  BY OutputsTyped, ToolsTyped DEF WorkspaceInv, SyncInv, SyncTypes
<1>4. Spec => []TypeOK
  BY PublicationTypes
<1>5. /\ ChosenInv /\ TypeOK /\ Edited!TypeOK
      /\ Apps!TypeOK /\ Workspace!TypeOK /\ Bootstrap!TypeOK /\ Sync!TypeOK
      => ArtifactsTypeOK
  BY DEF ChosenInv, ArtifactsTypeOK
<1> QED
  BY <1>1, <1>2, <1>3, <1>4, <1>5, OneChosen, GenerationsBehave, EditedTypes, PTL
     DEF ArtifactsSpec
=============================================================================
