--------------------------- MODULE EngineSession ---------------------------
(***************************************************************************)
(* A generation engine and the session that keeps its last result: files   *)
(* are read one by one while people edit them, the processors plan steps,  *)
(* the steps run in dependency order with a bounded cache, and a watch     *)
(* loop refreshes and tells its host what changed.  Another thread may     *)
(* cancel at any moment.                                                   *)
(*                                                                         *)
(* A digest is modelled by what it is of.  A processor's output is the     *)
(* term of everything it was given; a processor that does not declare all  *)
(* it depends on also carries the version of the tools it ran with.        *)
(***************************************************************************)
EXTENDS Naturals, FiniteSets, FiniteSetsExt

CONSTANTS
  Paths, Bytes,
  Contents,        \* what people save in each file
  Absent,          \* the file does not exist
  Engines,         \* sets of admitted processors
  Plans,           \* the steps each of them plans for a snapshot
  Cacheable,       \* processors whose outputs may be cached
  Broken,          \* contents a processor rejects
  Weight,          \* the size of each content, and of what is made of it
  MaxInput, MaxOutput, MaxGeneration,
  MaxCacheBytes, MaxCacheEntries,
  InitEngine, InitSource,
  MaxEdits, MaxTools, MaxFaults, MaxReplacements \* bounds on what happens outside

Snapshots == UNION {[S -> Bytes] : S \in SUBSET Paths}

ASSUME AbsentAssumption == Absent \notin Bytes
ASSUME InitAssumption ==
  InitEngine \in Engines /\ InitSource \in [Paths -> Bytes \union {Absent}]
ASSUME ContentsAssumption == Contents \in [Paths -> SUBSET Bytes]
ASSUME BudgetAssumption ==
  /\ Weight \in [Bytes -> Nat]
  /\ {MaxInput, MaxOutput, MaxGeneration, MaxCacheBytes} \subseteq Nat
  /\ MaxCacheEntries \in Nat \ {0}
  /\ MaxOutput <= MaxCacheBytes
ASSUME PlansAssumption ==
  \A e \in Engines, f \in Snapshots : \A s \in Plans[e][f] : s.id \in Nat
ASSUME BoundAssumption == {MaxEdits, MaxTools, MaxFaults, MaxReplacements} \subseteq Nat

VARIABLES
  source,    \* the files on disk
  tools,     \* the version of whatever processors use without declaring it
  engine,    \* the admitted processors
  cache,     \* outputs by the digest of what they were made from
  lastInput, \* the snapshot of the last success, unless invalidated
  current,   \* the generation of the last success
  cancelled, \* the token of the running call
  pc,        \* where the session is
  watching,  \* the call is watch
  snapshot, unread, \* the snapshot being read and the files still to come
  todo,      \* planned steps that have not run
  outputs,   \* the generation being made
  made,      \* the output of the step at hand
  began,     \* the tools when the running call began
  result,    \* what the last refresh returned
  lastError, \* watch: the failure last told
  told,      \* the last event the host received
  edits, faults, replacements

session == <<engine, cache, lastInput, current>>
call == <<snapshot, unread, todo, outputs, made, began>>
events == <<watching, lastError, told>>
outside == <<source, tools, edits, faults, replacements>>
vars == <<source, tools, engine, cache, lastInput, current, cancelled, pc,
          watching, snapshot, unread, todo, outputs, made, began, result,
          lastError, told, edits, faults, replacements>>

Nothing == [kind |-> "nothing"]
Failed(e, i) == [kind |-> "failed", error |-> e, step |-> i]
Updated(g) == [kind |-> "updated", generation |-> g]
Unchanged == [kind |-> "unchanged"]
Stopped == [kind |-> "stopped"]
NoOutputs == [i \in {} |-> Nothing]
NoFiles == [p \in {} |-> Absent]
NoOutput == [step |-> 0]

\* The files of the source tree.
Files == [p \in {q \in Paths : source[q] # Absent} |-> source[p]]
SizeOf(f) == MapThenSumSet(LAMBDA p : Weight[f[p]], DOMAIN f)

Init ==
  /\ source = InitSource
  /\ tools = 0
  /\ engine = InitEngine
  /\ cache = NoOutputs
  /\ lastInput = Nothing
  /\ current = Nothing
  /\ cancelled = FALSE
  /\ pc = "idle"
  /\ watching = FALSE
  /\ snapshot = NoFiles /\ unread = {} /\ todo = {}
  /\ outputs = NoOutputs /\ made = NoOutput /\ began = 0
  /\ result = Nothing /\ lastError = Nothing /\ told = Nothing
  /\ edits = 0 /\ faults = 0 /\ replacements = 0

----------------------------------------------------------------------------
\* Planning.

\* Mutant: steps run in the order of their identities.
ByIdentity(steps, done) == {s \in steps : s.id \notin done}

\* The steps that have not run and whose dependencies have.
Ready(steps, done) == {s \in steps : s.id \notin done /\ s.after \subseteq done}

\* plan's loop takes the least step that is ready.  execute completes the steps in
\* the order the loop took them, so taking them when they run gives the same order.
Chosen(steps, done) == CHOOSE s \in Ready(steps, done) : \A t \in Ready(steps, done) : s.id <= t.id

\* Steps that wait for each other, or for a step that nobody planned.
Stuck(steps) ==
  \E waiting \in (SUBSET steps) \ {{}} :
    Ready(waiting, {s.id : s \in steps \ waiting}) = {}

\* Why a plan is refused, if it is.
PlanErrors(steps, files) ==
  {"missing input" : s \in {t \in steps : ~(t.inputs \subseteq DOMAIN files)}}
  \union {"duplicate step" : s \in {t \in steps : \E u \in steps : t # u /\ t.id = u.id}}
  \union {"cycle" : x \in {y \in {steps} : Stuck(y)}}

----------------------------------------------------------------------------
\* Calls of the host.  A host that watches does nothing else with the session.

\* Mutant: files that are gone stay in the snapshot.
BeginAdding(there) ==
  /\ pc' = there
  /\ unread' = Paths /\ began' = tools
  /\ outputs' = NoOutputs /\ todo' = {} /\ made' = NoOutput
  /\ UNCHANGED snapshot

Begin(there) ==
  /\ pc' = there
  /\ unread' = Paths /\ snapshot' = NoFiles /\ began' = tools
  /\ outputs' = NoOutputs /\ todo' = {} /\ made' = NoOutput

StartRefresh ==
  /\ pc = "idle"
  /\ cancelled' = FALSE
  /\ Begin("reading")
  /\ UNCHANGED <<outside, session, events, result>>

StartWatch ==
  /\ pc = "idle"
  /\ pc' = "polling"
  /\ cancelled' = FALSE
  /\ watching' = TRUE
  /\ lastError' = Nothing
  /\ result' = Nothing /\ told' = Nothing
  /\ UNCHANGED <<outside, session, call>>

Poll ==
  /\ pc = "polling"
  /\ ~cancelled
  /\ Begin("reading")
  /\ UNCHANGED <<outside, session, events, cancelled, result>>

StopWatch ==
  /\ pc = "polling"
  /\ cancelled
  /\ pc' = "idle"
  /\ watching' = FALSE
  /\ told' = Stopped
  /\ lastError' = Nothing
  /\ UNCHANGED <<outside, session, call, cancelled, result>>

Invalidate ==
  /\ pc = "idle"
  /\ lastInput' = Nothing
  /\ UNCHANGED <<outside, engine, cache, current, cancelled, pc, events, call, result>>

\* Mutant: the input of the old processors still counts.
ReplaceOnly(e) == engine' = e /\ cache' = NoOutputs /\ UNCHANGED lastInput

\* The cache belongs to the engine that is dropped.
Replace(e) == engine' = e /\ cache' = NoOutputs /\ lastInput' = Nothing

ReplaceEngine(e) ==
  /\ pc = "idle"
  /\ replacements < MaxReplacements
  /\ replacements' = replacements + 1
  /\ Replace(e)
  /\ UNCHANGED <<source, tools, edits, faults, current, cancelled, pc, events, call, result>>

----------------------------------------------------------------------------
\* The end of a refresh, and what watch makes of it.

\* Mutant: a failure that was told once is never told again.
TellOnce(r) ==
  /\ told' = IF r.kind = "updated" \/ (r.kind = "failed" /\ lastError # r)
             THEN r ELSE told
  /\ lastError' = IF r.kind = "failed" THEN r ELSE lastError

Tell(r) ==
  /\ told' = IF r.kind = "updated" \/ (r.kind = "failed" /\ lastError # r)
             THEN r ELSE told
  /\ lastError' = CASE r.kind = "failed" -> r
                    [] r.kind = "updated" -> Nothing
                    [] OTHER -> lastError

\* What was made so far is dropped; the snapshot stays for the properties.
Return(r) ==
  /\ result' = r
  /\ IF watching THEN pc' = "polling" /\ Tell(r)
     ELSE pc' = "idle" /\ UNCHANGED <<told, lastError>>
  /\ unread' = {} /\ todo' = {} /\ outputs' = NoOutputs /\ made' = NoOutput
  /\ began' = 0
  /\ UNCHANGED <<watching, snapshot>>

Fail(e, i) ==
  /\ Return(Failed(e, i))
  /\ UNCHANGED <<source, tools, edits, replacements, engine, lastInput, current,
                 cancelled>>

----------------------------------------------------------------------------
\* Session::refresh.

ReadFile(p) ==
  /\ pc = "reading"
  /\ p \in unread
  /\ LET more == IF source[p] = Absent THEN snapshot
                 ELSE [q \in DOMAIN snapshot \union {p} |->
                         IF q = p THEN source[p] ELSE snapshot[q]]
     IN /\ SizeOf(more) <= MaxInput
        /\ snapshot' = more
  /\ unread' = unread \ {p}
  /\ UNCHANGED <<outside, session, events, cancelled, pc, todo, outputs, made,
                 began, result>>

InputTooLarge ==
  /\ pc = "reading"
  /\ \E p \in unread : source[p] # Absent /\ SizeOf(snapshot) + Weight[source[p]] > MaxInput
  /\ Fail("input budget", 0)
  /\ UNCHANGED <<cache, faults>>

Same ==
  /\ pc = "reading"
  /\ unread = {}
  /\ lastInput = snapshot
  /\ Return(Unchanged)
  /\ UNCHANGED <<outside, session, cancelled>>

Plan ==
  /\ pc = "reading"
  /\ unread = {}
  /\ lastInput # snapshot
  /\ PlanErrors(Plans[engine][snapshot], snapshot) = {}
  /\ ~cancelled
  /\ pc' = "executing"
  /\ todo' = Plans[engine][snapshot]
  /\ UNCHANGED <<outside, session, events, cancelled, snapshot, unread, outputs,
                 made, began, result>>

RefusePlan ==
  /\ pc = "reading"
  /\ unread = {}
  /\ lastInput # snapshot
  /\ LET errors == PlanErrors(Plans[engine][snapshot], snapshot)
     IN \E e \in IF errors = {} THEN {x \in {"cancelled"} : cancelled} ELSE errors : Fail(e, 0)
  /\ UNCHANGED <<cache, faults>>

----------------------------------------------------------------------------
\* Engine::execute, step by step.

\* The step at hand.
Step == Chosen(todo, DOMAIN outputs)

\* Mutant: what a step depends on is not part of its key.
KeyOfInputs(s) ==
  [step |-> s, files |-> [p \in s.inputs |-> snapshot[p]], dependencies |-> NoOutputs]

\* What the cache key is the digest of: the step, its files, its dependencies.
Key(s) ==
  [step |-> s, files |-> [p \in s.inputs |-> snapshot[p]],
   dependencies |-> [d \in s.after |-> outputs[d]]]

MayCacheAll(s) == TRUE \* Mutant.
MayCache(s) == s.plugin \in Cacheable

Hit(s) == MayCache(s) /\ Key(s) \in DOMAIN cache

CacheHit ==
  /\ pc = "executing"
  /\ todo # {}
  /\ ~cancelled
  /\ Hit(Step)
  /\ made' = cache[Key(Step)]
  /\ pc' = "made"
  /\ UNCHANGED <<outside, session, events, cancelled, snapshot, unread, todo,
                 outputs, began, result>>

StartProcess ==
  /\ pc = "executing"
  /\ todo # {}
  /\ ~cancelled
  /\ ~Hit(Step)
  /\ pc' = "processing"
  /\ UNCHANGED <<outside, session, events, cancelled, call, result>>

\* The processor returns: what it makes depends on what it was given, and on the
\* tools if it does not declare them.
Processed ==
  /\ pc = "processing"
  /\ LET s == Step
         files == [p \in s.inputs |-> snapshot[p]]
     IN IF \E p \in s.inputs : snapshot[p] \in Broken
        THEN /\ Fail("process", s.id)
             /\ UNCHANGED <<cache, faults>>
        ELSE /\ made' = [step |-> s, files |-> files,
                         dependencies |-> [d \in s.after |-> outputs[d]],
                         tools |-> IF s.plugin \in Cacheable THEN 0 ELSE tools]
             /\ pc' = "made"
             /\ UNCHANGED <<outside, session, events, cancelled, snapshot, unread,
                            todo, outputs, began, result>>

OutputSize(o) == SizeOf(o.files)
TotalSize(g) == MapThenSumSet(LAMBDA i : OutputSize(g[i]), DOMAIN g)

\* Mutant: the limit is looked at after the insertion it should make room for.
FullPast(o) ==
  \/ Cardinality(DOMAIN cache) > MaxCacheEntries
  \/ TotalSize(cache) + OutputSize(o) > MaxCacheBytes

Full(o) ==
  \/ Cardinality(DOMAIN cache) >= MaxCacheEntries
  \/ TotalSize(cache) + OutputSize(o) > MaxCacheBytes

\* The bounded cache after a step: cleared when full, whatever the step.
Cached(s, o) ==
  LET kept == IF Full(o) THEN NoOutputs ELSE cache
  IN IF ~MayCache(s) THEN kept
     ELSE [k \in DOMAIN kept \union {Key(s)} |-> IF k = Key(s) THEN o ELSE kept[k]]

With(g, i, o) == [j \in DOMAIN g \union {i} |-> IF j = i THEN o ELSE g[j]]

\* The output is kept if its size is within the budget, and then that of the
\* generation.
Keep ==
  /\ pc = "made"
  /\ ~cancelled
  /\ OutputSize(made) <= MaxOutput
  /\ LET s == Step
         more == With(outputs, s.id, made)
     IN /\ cache' = Cached(s, made)
        /\ IF TotalSize(more) > MaxGeneration
           THEN /\ Fail("generation budget", 0)
                /\ UNCHANGED faults
           ELSE /\ outputs' = more
                /\ todo' = todo \ {s}
                /\ made' = NoOutput
                /\ pc' = "executing"
                /\ UNCHANGED <<outside, engine, lastInput, current, events,
                               cancelled, snapshot, unread, began, result>>

OutputTooLarge ==
  /\ pc = "made"
  /\ ~cancelled
  /\ OutputSize(made) > MaxOutput
  /\ Fail("output budget", 0)
  /\ UNCHANGED <<cache, faults>>

\* The places in a step at which a cancellation is seen, one of them in those
\* processors that look at it.
SeeCancelled ==
  /\ \/ pc = "executing" /\ todo # {}
     \/ pc \in {"processing", "made"}
  /\ cancelled
  /\ Fail("cancelled", 0)
  /\ UNCHANGED <<cache, faults>>

\* Mutant: the caller gets the new generation and the session keeps the old one.
SucceedForCaller ==
  /\ pc = "executing"
  /\ todo = {}
  /\ lastInput' = snapshot
  /\ Return(Updated(outputs))
  /\ UNCHANGED <<outside, engine, cache, current, cancelled>>

\* The one place at which a refresh succeeds.
Succeed ==
  /\ pc = "executing"
  /\ todo = {}
  /\ lastInput' = snapshot
  /\ current' = outputs
  /\ Return(Updated(outputs))
  /\ UNCHANGED <<outside, engine, cache, cancelled>>

\* A file vanishes while the tree is walked, or a processor fails for a reason
\* outside its inputs.
Fault ==
  /\ pc \in {"reading", "processing"}
  /\ faults < MaxFaults
  /\ faults' = faults + 1
  /\ Fail("io", 0)
  /\ UNCHANGED cache

----------------------------------------------------------------------------
\* Everything around the session.

Cancel ==
  /\ pc # "idle"
  /\ ~cancelled
  /\ faults < MaxFaults
  /\ faults' = faults + 1
  /\ cancelled' = TRUE
  /\ UNCHANGED <<source, tools, edits, replacements, session, call, events, pc, result>>

Edit(p) ==
  /\ edits < MaxEdits
  /\ \E b \in (Contents[p] \union {Absent}) \ {source[p]} : source' = [source EXCEPT ![p] = b]
  /\ edits' = edits + 1
  /\ UNCHANGED <<tools, faults, replacements, session, call, events, cancelled,
                 pc, result>>

UpgradeTools ==
  /\ tools < MaxTools
  /\ tools' = tools + 1
  /\ UNCHANGED <<source, edits, faults, replacements, session, call, events,
                 cancelled, pc, result>>

Running ==
  \/ Poll \/ StopWatch
  \/ \E p \in Paths : ReadFile(p)
  \/ InputTooLarge \/ Same \/ Plan \/ RefusePlan
  \/ CacheHit \/ StartProcess \/ Processed \/ Keep \/ OutputTooLarge
  \/ SeeCancelled \/ Succeed

Next ==
  \/ Running
  \/ StartRefresh \/ StartWatch \/ Invalidate
  \/ \E e \in Engines : ReplaceEngine(e)
  \/ Fault \/ Cancel \/ UpgradeTools
  \/ \E p \in Paths : Edit(p)

Spec == Init /\ [][Next]_vars

\* A processor returns, at the latest when its time is up; the rest is the code
\* of one thread.
FairSpec == Spec /\ WF_vars(Running)

----------------------------------------------------------------------------
Steps == UNION {Plans[e][f] : e \in Engines, f \in Snapshots}
Errors == {"input budget", "output budget", "generation budget", "cancelled",
           "io", "missing input", "duplicate step", "cycle", "process"}
Failures == {Failed(e, i) : e \in Errors, i \in {0} \union {s.id : s \in Steps}}

\* Every variable has its type; outputs are terms of unbounded depth, of which
\* only the outermost layer is typed.
TypeOK ==
  /\ source \in [Paths -> Bytes \union {Absent}]
  /\ tools \in 0..MaxTools /\ began \in 0..tools
  /\ engine \in Engines
  /\ \A k \in DOMAIN cache : k.step \in Steps
  /\ lastInput \in Snapshots \union {Nothing}
  /\ cancelled \in BOOLEAN /\ watching \in BOOLEAN
  /\ pc \in {"idle", "polling", "reading", "executing", "processing", "made"}
  /\ snapshot \in Snapshots
  /\ unread \subseteq Paths
  /\ todo \subseteq Steps
  /\ DOMAIN outputs \subseteq {s.id : s \in Steps}
  /\ made = NoOutput \/ made.step = Step
  /\ lastError \in Failures \union {Nothing}
  /\ result \in Failures \union {Nothing, Unchanged, Updated(current)}
  /\ edits \in 0..MaxEdits /\ faults \in 0..MaxFaults
  /\ replacements \in 0..MaxReplacements

\* g holds, for each of the steps, what its processor makes of the files f and of
\* the other outputs of g.
MadeFrom(g, steps, f) ==
  /\ DOMAIN g = {s.id : s \in steps}
  /\ \A s \in steps :
       /\ g[s.id].step = s
       /\ g[s.id].files = [p \in s.inputs |-> f[p]]
       /\ g[s.id].dependencies = [d \in s.after |-> g[d]]

\* Unless the session was invalidated, its current generation is exactly what the
\* admitted processors make of the input it was made from: no output of a former
\* processor or of a file that is gone survives, and no cached output stands for
\* another input (Session::refresh, replace_engine, Engine::execute).
CurrentBelongsToInput ==
  lastInput # Nothing => MadeFrom(current, Plans[engine][lastInput], lastInput)

\* The generation in the making is consistent at every step: cached outputs are
\* those the processors would return, and outputs of processors with undeclared
\* inputs are of this very execution (Engine::execute).
OutputsAreFresh ==
  \A i \in DOMAIN outputs : LET o == outputs[i] IN
    /\ o.files = [p \in o.step.inputs |-> snapshot[p]]
    /\ o.dependencies = [d \in o.step.after |-> outputs[d]]
    /\ o.step.plugin \notin Cacheable => o.tools >= began

\* A step only runs once everything it reads exists: indexing the snapshot or the
\* outputs never panics (Engine::plan, Engine::execute).
NothingIsMissing ==
  pc \in {"executing", "processing", "made"} /\ todo # {} =>
    /\ Step.inputs \subseteq DOMAIN snapshot
    /\ Step.after \subseteq DOMAIN outputs

\* The cache never outgrows its budget, whatever the order of hits, failures and
\* cancelled executions (Engine::execute).
CacheWithinBudget ==
  /\ Cardinality(DOMAIN cache) <= MaxCacheEntries
  /\ TotalSize(cache) <= MaxCacheBytes

\* What the host of a watch was told last: the generation that is current after
\* every update, and every failure that is not yet followed by a success
\* (Session::watch).
HostIsTold ==
  pc = "polling" =>
    /\ result.kind = "updated" => told = Updated(current)
    /\ result.kind = "failed" => told = result

\* While nothing cancels a watch it catches up with the files once they rest: it
\* holds the generation of these very files or has told why there is none, also
\* when they changed while they were read (Session::watch).
WatchCatchesUp ==
  <>[](watching /\ ~cancelled) =>
    <>[](pc = "polling" =>
           \/ /\ snapshot = Files \/ SizeOf(Files) > MaxInput
              /\ result.kind = "failed" /\ told = result
           \/ lastInput = Files)
=============================================================================
