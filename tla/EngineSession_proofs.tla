------------------------ MODULE EngineSession_proofs ------------------------
(***************************************************************************)
(* Theorems about EngineSession, for all files, processors and plans, all  *)
(* budgets, and any number of edits, faults and cancellations.             *)
(***************************************************************************)
EXTENDS EngineSession, TLAPS, FiniteSetTheorems, WellFoundedInduction

Executing == pc \in {"executing", "processing", "made"}
Planned == Plans[engine][snapshot]

\* o is what step s makes of the snapshot and of the outputs of this execution.
MadeBy(o, s) ==
  /\ o.step = s
  /\ o.files = [p \in s.inputs |-> snapshot[p]]
  /\ o.dependencies = [d \in s.after |-> outputs[d]]
  /\ s.plugin \notin Cacheable => o.tools >= began

\* Outside an execution nothing is left of one.
IdleInv ==
  /\ ~Executing => outputs = NoOutputs /\ todo = {}
  /\ pc # "made" => made = NoOutput

\* Within one, the outputs are those of the planned steps that have run, each
\* after all it depends on.
OutputsInv ==
  Executing =>
    /\ todo \subseteq Planned
    /\ pc # "executing" => todo # {}
    /\ PlanErrors(Planned, snapshot) = {}
    /\ DOMAIN outputs = {s.id : s \in Planned \ todo}
    /\ \A s \in Planned \ todo : s.after \subseteq DOMAIN outputs /\ MadeBy(outputs[s.id], s)

MadeInv == pc = "made" => MadeBy(made, Step)

\* What is cached is what its key asks for, of a processor that declares all it uses.
CacheInv ==
  \A k \in DOMAIN cache :
    /\ cache[k].step = k.step
    /\ cache[k].files = k.files
    /\ cache[k].dependencies = k.dependencies
    /\ k.step.plugin \in Cacheable

\* A failure that counts as told is what the host heard last.
ToldInv ==
  /\ pc = "idle" => ~watching
  /\ pc = "polling" => watching
  /\ watching /\ lastError # Nothing => told = lastError

SessionInv ==
  /\ TypeOK
  /\ IdleInv /\ OutputsInv /\ MadeInv
  /\ CacheInv
  /\ CurrentBelongsToInput
  /\ ToldInv /\ HostIsTold

----------------------------------------------------------------------------
(* Plans.                                                                  *)

LEMMA LeastNatural ==
  ASSUME NEW S \in SUBSET Nat, S # {}
  PROVE  \E m \in S : \A n \in S : m <= n
<1> DEFINE R == OpToRel(<, Nat)
<1>1. IsWellFoundedOn(R, Nat)
  BY NatLessThanWellFounded
<1>2. PICK m \in S : \A n \in S : <<n, m>> \notin R
  <2> HIDE DEF R
  <2> QED BY <1>1, WFMin
<1>3. \A n \in S : ~(n < m)
  BY <1>2 DEF OpToRel
<1> HIDE DEF R
<1> QED
  BY <1>3

\* An accepted plan has all its inputs, one step for each identity and no part
\* that waits for itself.
LEMMA AcceptedPlan ==
  ASSUME NEW P, NEW f, PlanErrors(P, f) = {}
  PROVE  /\ \A s \in P : s.inputs \subseteq DOMAIN f
         /\ \A s, t \in P : s.id = t.id => s = t
         /\ ~Stuck(P)
<1>1. \A s \in P : s.inputs \subseteq DOMAIN f
  BY DEF PlanErrors
<1>2. \A s, t \in P : s.id = t.id => s = t
  BY DEF PlanErrors
<1>3. ~Stuck(P)
  BY DEF PlanErrors
<1> QED
  BY <1>1, <1>2, <1>3

\* While steps are left, the next one is one of them, has not run and has all it
\* depends on (plan, execute).
LEMMA NextStep ==
  ASSUME TypeOK, OutputsInv, Executing, todo # {}
  PROVE  /\ Step \in todo
         /\ Step \in Planned
         /\ Step \in Steps
         /\ Step.id \notin DOMAIN outputs
         /\ Step.after \subseteq DOMAIN outputs
         /\ Step.inputs \subseteq DOMAIN snapshot
<1> DEFINE R == Ready(todo, DOMAIN outputs)
<1>1. Planned \subseteq Steps /\ \A s \in Planned : s.id \in Nat
  BY PlansAssumption DEF TypeOK, Planned, Steps
<1>2. todo \in SUBSET Planned /\ DOMAIN outputs = {s.id : s \in Planned \ todo}
  BY DEF OutputsInv
<1>3. R # {}
  BY <1>2, AcceptedPlan DEF OutputsInv, Stuck
<1>4. R \subseteq todo /\ \A s \in R : s.id \notin DOMAIN outputs /\ s.after \subseteq DOMAIN outputs
  BY DEF Ready
<1>5. \E s \in R : \A t \in R : s.id <= t.id
  <2> DEFINE I == {s.id : s \in R}
  <2>1. I \in SUBSET Nat /\ I # {}
    BY <1>1, <1>2, <1>3, <1>4
  <2>2. PICK m \in I : \A n \in I : m <= n
    <3> HIDE DEF I
    <3> QED BY <2>1, LeastNatural
  <2> QED
    BY <2>2
<1>6. Step \in R
  BY <1>5 DEF Step, Chosen
<1> QED
  BY <1>1, <1>2, <1>4, <1>6, AcceptedPlan DEF OutputsInv

----------------------------------------------------------------------------
(* Steps.                                                                  *)

LEMMA InitSession == Init => SessionInv
<1> SUFFICES ASSUME Init PROVE SessionInv
  OBVIOUS
<1>1. TypeOK
  <2>1. NoFiles \in Snapshots
    BY DEF NoFiles, Snapshots
  <2>2. DOMAIN NoOutputs = {}
    BY DEF NoOutputs
  <2>3. 0 \in 0..0 /\ 0 \in 0..MaxTools /\ 0 \in 0..MaxEdits /\ 0 \in 0..MaxFaults /\ 0 \in 0..MaxReplacements
    BY BoundAssumption
  <2> QED
    BY <2>1, <2>2, <2>3, InitAssumption DEF Init, TypeOK
<1>2. /\ IdleInv /\ OutputsInv /\ MadeInv /\ CacheInv
      /\ CurrentBelongsToInput /\ ToldInv /\ HostIsTold
  BY DEF Init, IdleInv, OutputsInv, MadeInv, CacheInv, CurrentBelongsToInput, ToldInv,
     HostIsTold, Executing, NoOutputs
<1> QED
  BY <1>1, <1>2 DEF SessionInv

\* A call that fails leaves session and files as they were, and the host has heard
\* of it or hears of it now.
LEMMA FailKeeps ==
  ASSUME SessionInv, NEW e \in Errors, NEW i \in {0} \union {s.id : s \in Steps},
         pc \notin {"idle", "polling"}, Fail(e, i),
         CacheInv', \A k \in DOMAIN cache' : k.step \in Steps, faults' \in 0..MaxFaults
  PROVE  SessionInv'
<1>1. Failed(e, i) \in Failures
  BY DEF Failures
<1>2. TypeOK'
  <2>1. DOMAIN outputs' = {} /\ made' = NoOutput /\ pc' \in {"idle", "polling"}
    BY DEF Fail, Return, NoOutputs
  <2> QED
    BY <1>1, <2>1 DEF SessionInv, TypeOK, Fail, Return, Tell
<1>3. IdleInv' /\ OutputsInv' /\ MadeInv'
  BY DEF Fail, Return, IdleInv, OutputsInv, MadeInv, Executing
<1>4. CurrentBelongsToInput'
  BY DEF SessionInv, Fail, CurrentBelongsToInput, MadeFrom
<1>5. ToldInv' /\ HostIsTold'
  BY DEF SessionInv, Fail, Return, Tell, Failed, ToldInv, HostIsTold, Nothing
<1> QED
  BY <1>2, <1>3, <1>4, <1>5 DEF SessionInv

LEMMA ReturnKeeps ==
  ASSUME SessionInv, Same \/ Succeed
  PROVE  SessionInv'
<1>1. DOMAIN outputs' = {} /\ made' = NoOutput /\ pc' \in {"idle", "polling"}
  BY DEF Same, Succeed, Return, NoOutputs
<1>2. IdleInv' /\ OutputsInv' /\ MadeInv' /\ CacheInv'
  BY DEF Same, Succeed, Return, session, IdleInv, OutputsInv, MadeInv, CacheInv, Executing, SessionInv
<1>3. CASE Same
  <2>1. TypeOK'
    BY <1>1, <1>3 DEF SessionInv, TypeOK, Same, Return, Tell, Unchanged, outside, session
  <2>2. CurrentBelongsToInput'
    BY <1>3 DEF SessionInv, Same, session, CurrentBelongsToInput, MadeFrom
  <2>3. ToldInv' /\ HostIsTold'
    BY <1>3 DEF SessionInv, Same, Return, Tell, Unchanged, ToldInv, HostIsTold
  <2> QED
    BY <1>2, <2>1, <2>2, <2>3 DEF SessionInv
<1>4. CASE Succeed
  <2>1. TypeOK'
    BY <1>1, <1>4 DEF SessionInv, TypeOK, Succeed, Return, Tell, Updated, outside
  <2>2. CurrentBelongsToInput'
    BY <1>4 DEF SessionInv, Succeed, outside, CurrentBelongsToInput, MadeFrom, OutputsInv,
       Executing, Planned, MadeBy
  <2>3. ToldInv' /\ HostIsTold'
    BY <1>4 DEF SessionInv, Succeed, Return, Tell, Updated, ToldInv, HostIsTold
  <2> QED
    BY <1>2, <2>1, <2>2, <2>3 DEF SessionInv
<1> QED
  BY <1>3, <1>4

\* What changes around a call while it runs.
LEMMA OutsideKeeps ==
  ASSUME SessionInv,
         Cancel \/ UpgradeTools \/ (\E p \in Paths : Edit(p)) \/ UNCHANGED vars
  PROVE  SessionInv'
<1>1. UNCHANGED <<session, call, events, pc, result>>
  BY DEF Cancel, UpgradeTools, Edit, vars, session, call, events
<1>2. TypeOK'
  <2>1. source' \in [Paths -> Bytes \union {Absent}]
    <3>1. CASE \E p \in Paths : Edit(p)
      BY <3>1, ContentsAssumption DEF Edit, SessionInv, TypeOK
    <3> QED
      BY <3>1 DEF SessionInv, TypeOK, Cancel, UpgradeTools, vars
  <2>2. tools' \in 0..MaxTools /\ began' \in 0..tools'
    BY <1>1, BoundAssumption DEF SessionInv, TypeOK, Cancel, UpgradeTools, Edit, vars, call
  <2>3. /\ cancelled' \in BOOLEAN
        /\ edits' \in 0..MaxEdits /\ faults' \in 0..MaxFaults
        /\ replacements' \in 0..MaxReplacements
    <3>1. CASE Cancel
      BY <3>1, BoundAssumption DEF SessionInv, TypeOK, Cancel
    <3>2. CASE ~Cancel
      BY <3>2, BoundAssumption DEF SessionInv, TypeOK, UpgradeTools, Edit, vars
    <3> QED
      BY <3>1, <3>2
  <2>4. Step' = Step
    BY <1>1 DEF call, Step, Chosen, Ready
  <2>5. /\ engine' \in Engines /\ \A k \in DOMAIN cache' : k.step \in Steps
        /\ lastInput' \in Snapshots \union {Nothing} /\ watching' \in BOOLEAN
        /\ snapshot' \in Snapshots /\ unread' \subseteq Paths /\ todo' \subseteq Steps
        /\ DOMAIN outputs' \subseteq {s.id : s \in Steps}
    BY <1>1 DEF SessionInv, TypeOK, session, call, events
  <2>6. /\ lastError' \in Failures \union {Nothing}
        /\ result' \in Failures \union {Nothing, Unchanged, Updated(current')}
    BY <1>1 DEF SessionInv, TypeOK, session, events
  <2>7. made' = NoOutput \/ made'.step = Step'
    BY <1>1, <2>4 DEF SessionInv, TypeOK, call
  <2> QED
    BY <1>1, <2>1, <2>2, <2>3, <2>5, <2>6, <2>7 DEF SessionInv, TypeOK
<1>3. IdleInv' /\ OutputsInv' /\ MadeInv' /\ CacheInv'
  BY <1>1 DEF SessionInv, IdleInv, OutputsInv, MadeInv, CacheInv, Executing, Planned, MadeBy,
     Step, Chosen, Ready, session, call
<1>4. CurrentBelongsToInput' /\ ToldInv' /\ HostIsTold'
  BY <1>1 DEF SessionInv, CurrentBelongsToInput, MadeFrom, ToldInv, HostIsTold, session, events, Updated
<1> QED
  BY <1>2, <1>3, <1>4 DEF SessionInv

\* Calls of the host start over with an empty generation, and never give up the
\* link between what is current and what it was made from.
LEMMA HostKeeps ==
  ASSUME SessionInv,
         StartRefresh \/ StartWatch \/ Poll \/ StopWatch \/ Invalidate
           \/ \E e \in Engines : ReplaceEngine(e)
  PROVE  SessionInv'
<1>1. DOMAIN NoOutputs = {} /\ NoFiles \in Snapshots
  BY DEF NoOutputs, NoFiles, Snapshots
<1>2. CASE StartRefresh \/ Poll
  <2>1. /\ Begin("reading") /\ pc' = "reading" /\ pc \in {"idle", "polling"}
        /\ UNCHANGED <<outside, session, events, result>>
        /\ cancelled' \in BOOLEAN
    BY <1>2 DEF StartRefresh, Poll, SessionInv, TypeOK, Begin
  <2>2. tools \in 0..tools
    BY BoundAssumption DEF SessionInv, TypeOK
  <2>3. TypeOK'
    BY <1>1, <2>1, <2>2 DEF SessionInv, TypeOK, Begin, outside, session, events
  <2>4. IdleInv' /\ OutputsInv' /\ MadeInv' /\ CacheInv'
    BY <2>1 DEF SessionInv, Begin, session, IdleInv, OutputsInv, MadeInv, CacheInv, Executing
  <2>5. CurrentBelongsToInput'
    BY <2>1 DEF SessionInv, session, CurrentBelongsToInput, MadeFrom
  <2>6. ToldInv' /\ HostIsTold'
    BY <2>1 DEF SessionInv, events, ToldInv, HostIsTold
  <2> QED
    BY <2>3, <2>4, <2>5, <2>6 DEF SessionInv
<1>3. CASE StartWatch \/ StopWatch
  <2>1. /\ UNCHANGED <<outside, session, call>>
        /\ pc \in {"idle", "polling"} /\ pc' \in {"idle", "polling"}
        /\ pc' = "polling" <=> watching'
        /\ watching' \in BOOLEAN /\ cancelled' \in BOOLEAN
        /\ lastError' = Nothing
        /\ result' \in {result, Nothing}
        /\ pc' = "polling" => result' = Nothing
    BY <1>3 DEF StartWatch, StopWatch, SessionInv, TypeOK
  <2>2. Step' = Step
    BY <2>1 DEF call, Step, Chosen, Ready
  <2>3. TypeOK'
    BY <2>1, <2>2 DEF SessionInv, TypeOK, outside, session, call
  <2>4. IdleInv' /\ OutputsInv' /\ MadeInv' /\ CacheInv'
    BY <2>1 DEF SessionInv, call, session, IdleInv, OutputsInv, MadeInv, CacheInv, Executing
  <2>5. CurrentBelongsToInput'
    BY <2>1 DEF SessionInv, session, CurrentBelongsToInput, MadeFrom
  <2>6. ToldInv' /\ HostIsTold'
    BY <2>1 DEF SessionInv, ToldInv, HostIsTold, Nothing
  <2> QED
    BY <2>3, <2>4, <2>5, <2>6 DEF SessionInv
<1>4. CASE Invalidate \/ \E e \in Engines : ReplaceEngine(e)
  <2>1. /\ UNCHANGED <<source, tools, edits, faults, current, cancelled, pc, events, call, result>>
        /\ pc = "idle" /\ lastInput' = Nothing
        /\ engine' \in Engines /\ cache' \in {cache, NoOutputs}
    BY <1>4 DEF Invalidate, ReplaceEngine, Replace, outside, SessionInv, TypeOK
  <2>2. replacements' \in 0..MaxReplacements
    BY <1>4, BoundAssumption DEF Invalidate, ReplaceEngine, outside, SessionInv, TypeOK
  <2>3. Step' = Step
    BY <2>1 DEF call, Step, Chosen, Ready
  <2>4. TypeOK'
    BY <1>1, <2>1, <2>2, <2>3 DEF SessionInv, TypeOK, events, call
  <2>5. IdleInv' /\ OutputsInv' /\ MadeInv' /\ CacheInv'
    BY <1>1, <2>1 DEF SessionInv, call, IdleInv, OutputsInv, MadeInv, CacheInv, Executing
  <2>6. CurrentBelongsToInput' /\ ToldInv' /\ HostIsTold'
    BY <2>1 DEF SessionInv, events, CurrentBelongsToInput, ToldInv, HostIsTold
  <2> QED
    BY <2>4, <2>5, <2>6 DEF SessionInv
<1> QED
  BY <1>2, <1>3, <1>4

\* The snapshot is read before anything is made of it.
LEMMA ReadKeeps ==
  ASSUME SessionInv, (\E p \in Paths : ReadFile(p)) \/ Plan
  PROVE  SessionInv'
<1>1. pc = "reading" /\ pc' \in {"reading", "executing"} /\ outputs = NoOutputs /\ todo = {}
  BY DEF ReadFile, Plan, SessionInv, IdleInv, Executing
<1>2. UNCHANGED <<outside, session, events, cancelled, outputs, made, began, result>>
  BY DEF ReadFile, Plan
<1>3. DOMAIN NoOutputs = {}
  BY DEF NoOutputs
<1>4. made = NoOutput
  BY <1>1 DEF SessionInv, IdleInv
<1>5. snapshot' \in Snapshots /\ unread' \subseteq Paths /\ todo' \subseteq Steps
  <2>1. ASSUME NEW p \in Paths, ReadFile(p)
        PROVE  snapshot' \in Snapshots /\ unread' \subseteq Paths /\ todo' \subseteq Steps
    <3> DEFINE more == [q \in DOMAIN snapshot \union {p} |->
                          IF q = p THEN source[p] ELSE snapshot[q]]
    <3>1. source[p] # Absent => more \in Snapshots
      <4>1. PICK S \in SUBSET Paths : snapshot \in [S -> Bytes]
        BY DEF SessionInv, TypeOK, Snapshots
      <4>2. source[p] # Absent => more \in [S \union {p} -> Bytes]
        BY <4>1 DEF SessionInv, TypeOK
      <4> HIDE DEF more
      <4> QED
        BY <4>2 DEF Snapshots
    <3> QED
      BY <2>1, <3>1, <1>1 DEF ReadFile, SessionInv, TypeOK
  <2>2. CASE Plan
    <3>1. Plans[engine][snapshot] \subseteq Steps
      BY DEF Steps, SessionInv, TypeOK
    <3> QED
      BY <2>2, <3>1 DEF Plan, SessionInv, TypeOK
  <2> QED
    BY <2>1, <2>2
<1>6. TypeOK'
  BY <1>1, <1>2, <1>3, <1>4, <1>5 DEF SessionInv, TypeOK, outside, session, events
<1>7. IdleInv' /\ MadeInv' /\ CacheInv'
  BY <1>1, <1>2, <1>4 DEF SessionInv, IdleInv, MadeInv, CacheInv, Executing, session, ReadFile, Plan
<1>8. OutputsInv'
  <2>1. CASE pc' = "reading"
    BY <2>1 DEF OutputsInv, Executing
  <2>2. CASE Plan
    <3>1. Planned' = Planned /\ todo' = Planned /\ PlanErrors(Planned, snapshot) = {}
      BY <2>2, <1>2 DEF Plan, Planned, session
    <3>2. snapshot' = snapshot /\ outputs' = NoOutputs /\ pc' = "executing"
      BY <2>2, <1>1, <1>2 DEF Plan
    <3> QED
      BY <3>1, <3>2, <1>3 DEF OutputsInv, Executing
  <2> QED
    BY <2>1, <2>2, <1>1 DEF ReadFile
<1>9. CurrentBelongsToInput'
  BY <1>2 DEF SessionInv, session, CurrentBelongsToInput, MadeFrom
<1>10. ToldInv' /\ HostIsTold'
  BY <1>1, <1>2 DEF SessionInv, events, ToldInv, HostIsTold
<1> QED
  BY <1>6, <1>7, <1>8, <1>9, <1>10 DEF SessionInv

LEMMA ExecuteKeeps ==
  ASSUME SessionInv, CacheHit \/ StartProcess
  PROVE  SessionInv'
<1>1. /\ Executing /\ Executing' /\ todo # {} /\ pc # "made"
      /\ UNCHANGED <<outside, session, events, cancelled, snapshot, unread, todo, outputs,
                     began, result>>
  BY DEF CacheHit, StartProcess, call, Executing
<1>2. Step' = Step
  BY <1>1 DEF Step, Chosen, Ready
<1>3. Step \in Steps /\ made = NoOutput
  BY <1>1, NextStep DEF SessionInv, IdleInv
<1>4. MadeInv'
  <2>1. CASE CacheHit
    <3>1. MadeBy(cache[Key(Step)], Step)
      BY <2>1 DEF CacheHit, Hit, MayCache, SessionInv, CacheInv, MadeBy, Key
    <3> QED
      BY <1>1, <1>2, <2>1, <3>1 DEF CacheHit, MadeInv, MadeBy
  <2>2. CASE StartProcess
    BY <2>2 DEF StartProcess, MadeInv
  <2> QED
    BY <2>1, <2>2
<1>5. made' = NoOutput \/ made'.step = Step'
  BY <1>2, <1>3, <1>4 DEF CacheHit, StartProcess, call, MadeInv, MadeBy
<1>6. TypeOK'
  BY <1>1, <1>5 DEF SessionInv, TypeOK, CacheHit, StartProcess, outside, session, events
<1>7. IdleInv' /\ CacheInv'
  BY <1>1, <1>3 DEF SessionInv, IdleInv, CacheInv, Executing, session, CacheHit, StartProcess, call
<1>8. OutputsInv'
  BY <1>1 DEF SessionInv, OutputsInv, Planned, MadeBy, session
<1>9. CurrentBelongsToInput'
  BY <1>1 DEF SessionInv, session, CurrentBelongsToInput, MadeFrom
<1>10. ToldInv' /\ HostIsTold'
  BY <1>1 DEF SessionInv, events, ToldInv, HostIsTold, Executing
<1> QED
  BY <1>4, <1>6, <1>7, <1>8, <1>9, <1>10 DEF SessionInv

\* What a processor returns is made of what it was given.
LEMMA ProcessKeeps ==
  ASSUME SessionInv, Processed
  PROVE  SessionInv'
<1>1. Executing /\ todo # {} /\ pc = "processing"
  BY DEF Processed, SessionInv, OutputsInv, Executing
<1>2. Step \in Steps /\ Step.id \in {s.id : s \in Steps}
  BY <1>1, NextStep DEF SessionInv
<1>3. CASE \E p \in Step.inputs : snapshot[p] \in Broken
  <2>1. Fail("process", Step.id) /\ UNCHANGED <<cache, faults>>
    BY <1>3 DEF Processed
  <2>2. CacheInv' /\ (\A k \in DOMAIN cache' : k.step \in Steps) /\ faults' \in 0..MaxFaults
    BY <2>1 DEF SessionInv, TypeOK, CacheInv
  <2>3. "process" \in Errors
    BY DEF Errors
  <2> QED
    BY <1>1, <1>2, <2>1, <2>2, <2>3, FailKeeps
<1>4. CASE ~ \E p \in Step.inputs : snapshot[p] \in Broken
  <2>1. /\ made'.step = Step
        /\ made'.files = [p \in Step.inputs |-> snapshot[p]]
        /\ made'.dependencies = [d \in Step.after |-> outputs[d]]
        /\ Step.plugin \notin Cacheable => made'.tools = tools
        /\ pc' = "made"
        /\ UNCHANGED <<outside, session, events, cancelled, snapshot, unread, todo, outputs,
                       began, result>>
    BY <1>4 DEF Processed
  <2>2. Step' = Step
    BY <2>1 DEF Step, Chosen, Ready
  <2>3. MadeInv'
    <3>1. tools >= began
      BY BoundAssumption DEF SessionInv, TypeOK
    <3> QED
      BY <2>1, <2>2, <3>1 DEF MadeInv, MadeBy
  <2>4. TypeOK'
    BY <2>1, <2>2 DEF SessionInv, TypeOK, outside, session, events
  <2>5. IdleInv' /\ CacheInv'
    BY <2>1 DEF SessionInv, IdleInv, CacheInv, Executing, session
  <2>6. OutputsInv'
    BY <1>1, <2>1 DEF SessionInv, OutputsInv, Executing, Planned, MadeBy, session
  <2>7. CurrentBelongsToInput'
    BY <2>1 DEF SessionInv, session, CurrentBelongsToInput, MadeFrom
  <2>8. ToldInv' /\ HostIsTold'
    BY <2>1 DEF SessionInv, events, ToldInv, HostIsTold
  <2> QED
    BY <2>3, <2>4, <2>5, <2>6, <2>7, <2>8 DEF SessionInv
<1> QED
  BY <1>3, <1>4

\* An output enters the cache under the digest of exactly what it was made from.
LEMMA CachedAsAsked ==
  ASSUME SessionInv, pc = "made"
  PROVE  LET after == Cached(Step, made)
         IN \A k \in DOMAIN after :
              /\ after[k].step = k.step
              /\ after[k].files = k.files
              /\ after[k].dependencies = k.dependencies
              /\ k.step.plugin \in Cacheable
              /\ k.step \in Steps
<1> DEFINE after == Cached(Step, made)
           kept == IF Full(made) THEN NoOutputs ELSE cache
<1> SUFFICES ASSUME NEW k \in DOMAIN after
             PROVE  /\ after[k].step = k.step
                    /\ after[k].files = k.files
                    /\ after[k].dependencies = k.dependencies
                    /\ k.step.plugin \in Cacheable
                    /\ k.step \in Steps
  OBVIOUS
<1>1. MadeBy(made, Step)
  BY DEF SessionInv, MadeInv
<1>2. Step \in Steps
  BY NextStep DEF SessionInv, OutputsInv, Executing
<1>3. ASSUME NEW l \in DOMAIN kept
      PROVE  /\ kept[l].step = l.step
             /\ kept[l].files = l.files
             /\ kept[l].dependencies = l.dependencies
             /\ l.step.plugin \in Cacheable
             /\ l.step \in Steps
  BY <1>3 DEF NoOutputs, SessionInv, CacheInv, TypeOK
<1>4. CASE ~MayCache(Step)
  <2>1. after = kept
    BY <1>4 DEF Cached
  <2> QED
    BY <1>3, <2>1
<1>5. CASE MayCache(Step)
  <2>1. after = [l \in DOMAIN kept \union {Key(Step)} |->
                   IF l = Key(Step) THEN made ELSE kept[l]]
    BY <1>5 DEF Cached
  <2> HIDE DEF after, kept
  <2>2. CASE k = Key(Step)
    <3>1. after[k] = made
      BY <2>1, <2>2
    <3>2. /\ k.step = Step
          /\ k.files = [p \in Step.inputs |-> snapshot[p]]
          /\ k.dependencies = [d \in Step.after |-> outputs[d]]
      BY <2>2 DEF Key
    <3> QED
      BY <1>1, <1>2, <1>5, <3>1, <3>2 DEF MadeBy, MayCache
  <2>3. CASE k # Key(Step)
    <3>1. k \in DOMAIN kept /\ after[k] = kept[k]
      BY <2>1, <2>3
    <3> QED
      BY <1>3, <3>1
  <2> QED
    BY <2>2, <2>3
<1> QED
  BY <1>4, <1>5

\* A step that is kept joins the steps that have run: its own output is new, and
\* those the others were made from stay what they were.
LEMMA KeepKeeps ==
  ASSUME SessionInv, Keep
  PROVE  SessionInv'
<1> DEFINE more == With(outputs, Step.id, made)
<1>1. pc = "made" /\ Executing /\ todo # {} /\ MadeBy(made, Step)
  BY DEF Keep, SessionInv, OutputsInv, MadeInv, Executing
<1>2. /\ Step \in todo /\ Step \in Planned /\ Step \in Steps
      /\ Step.id \notin DOMAIN outputs /\ Step.after \subseteq DOMAIN outputs
  BY <1>1, NextStep DEF SessionInv
<1>3. cache' = Cached(Step, made)
  BY DEF Keep
<1>4. CacheInv' /\ \A k \in DOMAIN cache' : k.step \in Steps
  BY <1>1, <1>3, CachedAsAsked DEF CacheInv
<1>5. CASE TotalSize(more) > MaxGeneration
  <2>1. Fail("generation budget", 0) /\ faults' = faults
    BY <1>5 DEF Keep
  <2>2. faults' \in 0..MaxFaults
    BY <2>1 DEF SessionInv, TypeOK
  <2>3. "generation budget" \in Errors
    BY DEF Errors
  <2> QED
    BY <1>1, <1>4, <2>1, <2>2, <2>3, FailKeeps
<1>6. CASE ~(TotalSize(more) > MaxGeneration)
  <2>1. /\ outputs' = more /\ todo' = todo \ {Step}
        /\ made' = NoOutput /\ pc' = "executing"
        /\ UNCHANGED <<outside, engine, lastInput, current, events, cancelled, snapshot,
                       unread, began, result>>
    BY <1>6 DEF Keep
  <2>2. /\ DOMAIN outputs' = DOMAIN outputs \union {Step.id}
        /\ outputs'[Step.id] = made
        /\ \A d \in DOMAIN outputs : outputs'[d] = outputs[d]
    BY <1>2, <2>1 DEF With
  <2>3. TypeOK'
    BY <1>2, <1>4, <2>1, <2>2 DEF SessionInv, TypeOK, outside, events
  <2>4. IdleInv' /\ MadeInv'
    BY <2>1 DEF IdleInv, MadeInv, Executing
  <2>5. OutputsInv'
    <3>1. Planned' = Planned /\ snapshot' = snapshot /\ began' = began
      BY <2>1 DEF Planned
    <3>2. /\ todo \subseteq Planned /\ PlanErrors(Planned, snapshot) = {}
          /\ DOMAIN outputs = {s.id : s \in Planned \ todo}
          /\ \A s \in Planned \ todo : s.after \subseteq DOMAIN outputs /\ MadeBy(outputs[s.id], s)
      BY <1>1 DEF SessionInv, OutputsInv
    <3>3. Planned \ todo' = (Planned \ todo) \union {Step}
      BY <1>2, <2>1
    <3>4. DOMAIN outputs' = {s.id : s \in Planned \ todo'}
      BY <2>2, <3>2, <3>3
    <3>5. ASSUME NEW s \in Planned \ todo'
          PROVE  s.after \subseteq DOMAIN outputs' /\ MadeBy(outputs[s.id], s)'
      <4>1. s.after \subseteq DOMAIN outputs
        BY <1>2, <3>2, <3>3
      <4>2. [d \in s.after |-> outputs'[d]] = [d \in s.after |-> outputs[d]]
        BY <2>2, <4>1
      <4>3. MadeBy(outputs'[s.id], s)
        BY <1>1, <1>2, <2>2, <3>2, <3>3
      <4> QED
        BY <2>2, <3>1, <4>1, <4>2, <4>3 DEF MadeBy
    <3>6. pc' = "executing" /\ todo' \subseteq Planned
      BY <2>1, <3>2
    <3> QED
      BY <3>1, <3>2, <3>4, <3>5, <3>6 DEF OutputsInv
  <2>6. CurrentBelongsToInput'
    BY <2>1 DEF SessionInv, CurrentBelongsToInput, MadeFrom
  <2>7. ToldInv' /\ HostIsTold'
    BY <2>1 DEF SessionInv, events, ToldInv, HostIsTold
  <2> QED
    BY <1>4, <2>3, <2>4, <2>5, <2>6, <2>7 DEF SessionInv
<1> QED
  BY <1>5, <1>6

\* Every other way in which a refresh ends without a generation.
LEMMA RefuseKeeps ==
  ASSUME SessionInv,
         InputTooLarge \/ RefusePlan \/ OutputTooLarge \/ SeeCancelled \/ Fault
  PROVE  SessionInv'
<1>1. PICK e \in Errors : Fail(e, 0)
  <2>1. ASSUME NEW e \in PlanErrors(Plans[engine][snapshot], snapshot)
        PROVE  e \in Errors
    BY <2>1 DEF PlanErrors, Errors
  <2>2. CASE RefusePlan
    BY <2>1, <2>2 DEF RefusePlan, Errors
  <2>3. CASE ~RefusePlan
    BY <2>3 DEF InputTooLarge, OutputTooLarge, SeeCancelled, Fault, Errors
  <2> QED
    BY <2>2, <2>3
<1>2. pc \notin {"idle", "polling"}
  BY DEF InputTooLarge, RefusePlan, OutputTooLarge, SeeCancelled, Fault
<1>3. CacheInv' /\ (\A k \in DOMAIN cache' : k.step \in Steps)
  BY DEF InputTooLarge, RefusePlan, OutputTooLarge, SeeCancelled, Fault, SessionInv, TypeOK,
     CacheInv
<1>4. faults' \in 0..MaxFaults
  <2>1. faults' = faults \/ (faults < MaxFaults /\ faults' = faults + 1)
    BY DEF InputTooLarge, RefusePlan, OutputTooLarge, SeeCancelled, Fault
  <2> QED
    BY <2>1, BoundAssumption DEF SessionInv, TypeOK
<1> QED
  BY <1>1, <1>2, <1>3, <1>4, FailKeeps

LEMMA NextSession == SessionInv /\ [Next]_vars => SessionInv'
<1> SUFFICES ASSUME SessionInv, [Next]_vars PROVE SessionInv'
  OBVIOUS
<1> QED
  BY FailKeeps, ReturnKeeps, OutsideKeeps, HostKeeps, ReadKeeps, ExecuteKeeps, ProcessKeeps,
     KeepKeeps, RefuseKeeps DEF Next, Running

LEMMA SessionCorrect == Spec => []SessionInv
BY InitSession, NextSession, PTL DEF Spec

----------------------------------------------------------------------------
(* Theorems.                                                               *)

\* Every variable has its type, and what a processor has just made is the output of
\* the step at hand (Session, Engine::execute).
THEOREM SessionTypes == Spec => []TypeOK
BY SessionCorrect, PTL DEF SessionInv

\* However calls, edits, replaced processors, cancellations and failures follow each
\* other, the current generation is exactly what the admitted processors make of the
\* input it was made from (Session::refresh, replace_engine, Engine::execute).
THEOREM CurrentFromItsInput == Spec => []CurrentBelongsToInput
BY SessionCorrect, PTL DEF SessionInv

\* A generation in the making only has outputs of this very snapshot and of each
\* other, cached or not (Engine::execute).
THEOREM OutputsOfThisInput == Spec => []OutputsAreFresh
<1>1. SessionInv => OutputsAreFresh
  <2> SUFFICES ASSUME SessionInv, NEW i \in DOMAIN outputs
               PROVE  /\ outputs[i].files = [p \in outputs[i].step.inputs |-> snapshot[p]]
                      /\ outputs[i].dependencies = [d \in outputs[i].step.after |-> outputs[d]]
                      /\ outputs[i].step.plugin \notin Cacheable => outputs[i].tools >= began
    BY DEF OutputsAreFresh
  <2>1. Executing
    BY DEF SessionInv, IdleInv, NoOutputs
  <2>2. PICK s \in Planned \ todo : i = s.id /\ MadeBy(outputs[i], s)
    BY <2>1 DEF SessionInv, OutputsInv
  <2> QED
    BY <2>2 DEF MadeBy
<1> QED
  BY <1>1, SessionCorrect, PTL

\* Whenever a watch waits for the next poll, its host was told last what is current
\* or what failed, also if the same failure came again in between (Session::watch).
THEOREM WatchTells == Spec => []HostIsTold
BY SessionCorrect, PTL DEF SessionInv

\* A step only starts once everything it reads exists, for every plan that is
\* accepted: indexing the snapshot or the outputs never panics (Engine::plan,
\* Engine::execute).
THEOREM StepsFindTheirInputs == Spec => []NothingIsMissing
<1>1. SessionInv => NothingIsMissing
  BY NextStep DEF SessionInv, NothingIsMissing, Executing
<1> QED
  BY <1>1, SessionCorrect, PTL

\* The cache never holds more outputs than it may, in whatever order hits, failed
\* and cancelled executions come (Engine::execute).
THEOREM CacheStaysBounded ==
  Spec => [](IsFiniteSet(DOMAIN cache) /\ Cardinality(DOMAIN cache) <= MaxCacheEntries)
<1> DEFINE Bounded == IsFiniteSet(DOMAIN cache) /\ Cardinality(DOMAIN cache) <= MaxCacheEntries
<1>1. DOMAIN NoOutputs = {} /\ IsFiniteSet({}) /\ Cardinality({}) = 0
  BY FS_EmptySet DEF NoOutputs
<1>2. MaxCacheEntries \in Nat \ {0}
  BY BudgetAssumption
<1>3. Init => Bounded
  BY <1>1, <1>2 DEF Init
<1>4. Bounded /\ [Next]_vars => Bounded'
  <2> SUFFICES ASSUME Bounded, [Next]_vars PROVE Bounded'
    OBVIOUS
  <2>1. CASE Keep
    <3> DEFINE kept == IF Full(made) THEN NoOutputs ELSE cache
    <3>1. IsFiniteSet(DOMAIN kept) /\ Cardinality(DOMAIN kept) <= MaxCacheEntries - 1
      <4>1. CASE Full(made)
        BY <1>1, <1>2, <4>1
      <4>2. CASE ~Full(made)
        <5>1. Cardinality(DOMAIN cache) \in Nat
          BY FS_CardinalityType
        <5> QED
          BY <1>2, <4>2, <5>1 DEF Full
      <4> QED
        BY <4>1, <4>2
    <3>2. DOMAIN cache' \in {DOMAIN kept, DOMAIN kept \union {Key(Step)}}
      BY <2>1 DEF Keep, Cached
    <3> HIDE DEF kept
    <3>3. /\ IsFiniteSet(DOMAIN kept \union {Key(Step)})
          /\ Cardinality(DOMAIN kept \union {Key(Step)}) \in {Cardinality(DOMAIN kept), Cardinality(DOMAIN kept) + 1}
      BY <3>1, FS_AddElement
    <3>4. Cardinality(DOMAIN kept) \in Nat
      BY <3>1, FS_CardinalityType
    <3> QED
      BY <1>2, <3>1, <3>2, <3>3, <3>4
  <2>2. CASE ~Keep
    <3>1. cache' \in {cache, NoOutputs}
      BY <2>2 DEF Next, Running, StartRefresh, StartWatch, Poll, StopWatch, Invalidate,
         ReplaceEngine, Replace, ReadFile, InputTooLarge, Same, Plan, RefusePlan, CacheHit,
         StartProcess, Processed, OutputTooLarge, SeeCancelled, Succeed, Fault, Cancel, Edit,
         UpgradeTools, session, vars
    <3> QED
      BY <1>1, <1>2, <3>1
  <2> QED
    BY <2>1, <2>2
<1> QED
  BY <1>3, <1>4, PTL DEF Spec
=============================================================================
