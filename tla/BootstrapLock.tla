---------------------------- MODULE BootstrapLock ----------------------------
(***************************************************************************)
(* The lock of local tools (src/crates/lenso-engine/src/bootstrap.rs and   *)
(* external.rs).  A workflow names presets, sources, directories of tools  *)
(* and the tools it selects; a tool is a manifest with a program and       *)
(* artifacts.  BootstrapLock::resolve reads them and records a digest of   *)
(* each (a proof), save replaces the lock file, load compares every proof, *)
(* and a tool compares its own before and after each run.  People edit the *)
(* files at any moment and never return to an earlier version.             *)
(***************************************************************************)
EXTENDS Naturals, SequencesExt

CONSTANTS
  Processes,
  Workflows,    \* workflow manifests
  Tools,        \* tool manifests
  Files,        \* programs and artifacts
  Text,         \* what each version of a manifest says
  Below,        \* the tool manifests below each directory of tools
  MaxDepth,     \* 8 in the code
  MaxEdits,     \* bound on edits of all files
  MaxCommands,  \* bound on commands
  None          \* no file; of a workflow also one that is refused

VARIABLES
  version,      \* of each file
  saved,        \* the lock file
  pc,
  job,          \* what each process has read and captured
  accepted,     \* history: the run of a tool whose outputs were accepted last
  edits,
  commands

vars == <<version, saved, pc, job, accepted, edits, commands>>
written == <<version, edits>>

Paths == Workflows \union Tools \union Files
Versions == 1..(MaxEdits + 1)
Says(f) == Text[f][version[f]]

Nothing == [f \in {} |-> None]
With(fn, x, y) == [z \in DOMAIN fn \union {x} |-> IF z = x THEN y ELSE fn[z]]
\* A lock: the versions its proofs are of, and whether a manifest was edited
\* between the reading it was made from and its proof.
NoLock == [configuration |-> Nothing, sources |-> {}, plugins |-> {}, slipped |-> FALSE]
NoJob == [workflow |-> None, stack |-> <<>>, visited |-> {}, roots |-> <<>>, selected |-> {},
          candidates |-> Nothing, todo |-> {}, lock |-> NoLock, began |-> Nothing,
          loaded |-> Nothing, tool |-> None, used |-> Nothing]

Init ==
  /\ version = [f \in Paths |-> 1]
  /\ saved = None
  /\ pc = [p \in Processes |-> "idle"]
  /\ job = [p \in Processes |-> NoJob]
  /\ accepted = None
  /\ edits = 0 /\ commands = 0

Goes(p, to, record) ==
  /\ pc' = [pc EXCEPT ![p] = to]
  /\ job' = [job EXCEPT ![p] = record]

Begins(p, to, record) ==
  /\ pc[p] = "idle" /\ commands < MaxCommands
  /\ commands' = commands + 1
  /\ Goes(p, to, record)
  /\ UNCHANGED <<written, saved, accepted>>

\* A file cannot be read, a limit is exceeded, a comparison fails: the command ends.
Fail(p) ==
  /\ pc[p] # "idle"
  /\ Goes(p, "idle", NoJob)
  /\ UNCHANGED <<written, saved, accepted, commands>>

-----------------------------------------------------------------------------
(* resolve: compose, depth first.                                           *)

BeginLock(p, w) == Begins(p, "composing", [NoJob EXCEPT !.workflow = w])

Presets(top) == Text[top.path][top.read].presets
\* The preset that is to be entered next.
NextPreset(j) == LET top == Last(j.stack) IN Presets(top)[top.next]
HasNext(j) == j.stack # <<>> /\ Last(j.stack).next <= Len(Presets(Last(j.stack)))

\* A workflow is read, which no other path of presets has led to.
Enter(p) ==
  LET j == job[p]
      path == IF j.stack = <<>> THEN j.workflow ELSE NextPreset(j)
  IN /\ pc[p] = "composing" /\ (j.stack = <<>> \/ HasNext(j))
     /\ Len(j.stack) <= MaxDepth /\ path \notin j.visited
     /\ Says(path) # None
     /\ Goes(p, "composing",
          [j EXCEPT !.visited = @ \union {path},
                    !.stack = Append(@, [path |-> path, read |-> version[path], next |-> 1])])
     /\ UNCHANGED <<written, saved, accepted, commands>>

Rest(stack) ==
  LET rest == Front(stack) IN
  IF rest = <<>> THEN rest ELSE [rest EXCEPT ![Len(rest)].next = @ + 1]
Found(roots) ==
  UNION {{<<k, t>> : t \in Below[roots[k]]} : k \in DOMAIN roots}

\* Its presets are composed: what it says is added, and then its proof captured.
Leave(p) ==
  LET j == job[p]
      top == Last(j.stack)
      says == Text[top.path][top.read]
      roots == j.roots \o says.roots
      left == [j EXCEPT
        !.stack = Rest(@), !.roots = roots, !.selected = @ \union says.plugins,
        !.lock.sources = @ \union says.sources,
        !.lock.configuration = With(@, top.path, version[top.path]),
        !.lock.slipped = @ \/ version[top.path] # top.read]
  IN /\ pc[p] = "composing" /\ j.stack # <<>> /\ ~HasNext(j)
     /\ IF Len(j.stack) > 1 THEN Goes(p, "composing", left)
        ELSE Goes(p, "discovering", [left EXCEPT !.todo = Found(roots)])
     /\ UNCHANGED <<written, saved, accepted, commands>>

-----------------------------------------------------------------------------
(* resolve: the tools below the directories, and the proofs of the selected. *)

\* A directory that two workflows name is walked twice, and its tools are ambiguous.
Discover(p) ==
  LET j == job[p] IN
  /\ pc[p] = "discovering"
  /\ \E item \in j.todo :
       LET t == item[2]
           rest == [j EXCEPT !.todo = @ \ {item}]
           found == [tool |-> t, read |-> version[t]]
       IN IF Says(t) = None THEN Goes(p, "discovering", rest)
          ELSE /\ Says(t).identity \notin DOMAIN j.candidates
               /\ Goes(p, "discovering",
                       [rest EXCEPT !.candidates = With(@, Says(t).identity, found)])
  /\ UNCHANGED <<written, saved, accepted, commands>>

\* What is proved of a tool: its manifest, its program, its artifacts.
Owned(t, text) == {t, text.program} \union text.artifacts

\* Each selected identity is a candidate.
Choose(p) ==
  LET j == job[p]
      text(i) == Text[j.candidates[i].tool][j.candidates[i].read]
      plugin(i) == [tool |-> j.candidates[i].tool, identity |-> i,
                    executable |-> text(i).program, proofs |-> Nothing]
      files(i) == {<<i, f>> : f \in Owned(j.candidates[i].tool, text(i))}
  IN /\ pc[p] = "discovering" /\ j.todo = {}
     /\ j.selected \subseteq DOMAIN j.candidates
     /\ Goes(p, "capturing",
             [j EXCEPT !.todo = UNION {files(i) : i \in j.selected},
                       !.lock.plugins = {plugin(i) : i \in j.selected}])
     /\ UNCHANGED <<written, saved, accepted, commands>>

Proved(plugins, i, f) ==
  {IF q.identity = i THEN [q EXCEPT !.proofs = With(@, f, version[f])] ELSE q : q \in plugins}

Capture(p) ==
  LET j == job[p] IN
  /\ pc[p] = "capturing"
  /\ \E item \in j.todo :
       LET from == j.candidates[item[1]]
           f == item[2]
       IN Goes(p, "capturing",
            [j EXCEPT !.todo = @ \ {item}, !.lock.plugins = Proved(@, item[1], f),
                      !.lock.slipped = @ \/ (f = from.tool /\ version[f] # from.read)])
  /\ UNCHANGED <<written, saved, accepted, commands>>

\* save: the lock file is replaced as a whole.
Save(p) ==
  /\ pc[p] = "capturing" /\ job[p].todo = {}
  /\ saved' = job[p].lock
  /\ Goes(p, "idle", NoJob)
  /\ UNCHANGED <<written, accepted, commands>>

-----------------------------------------------------------------------------
(* load and processors.                                                     *)

ProofsIn(function) == {<<f, function[f]>> : f \in DOMAIN function}
Proofs(q) == ProofsIn(q.proofs)

\* The workflow is among the configuration of the lock.
Load(p, w) ==
  /\ saved # None /\ w \in DOMAIN saved.configuration
  /\ Begins(p, "loading",
       [NoJob EXCEPT !.workflow = w, !.lock = saved, !.began = version,
         !.todo = ProofsIn(saved.configuration) \union UNION {Proofs(q) : q \in saved.plugins}])

Verifying == {"loading", "opening", "checking", "rechecking"}

\* One file is read and has the digest of its proof.
Verify(p) ==
  /\ pc[p] \in Verifying
  /\ \E item \in job[p].todo :
       /\ version[item[1]] = item[2]
       /\ Goes(p, pc[p], [job[p] EXCEPT !.todo = @ \ {item}])
  /\ UNCHANGED <<written, saved, accepted, commands>>

\* Every proof was compared.
Verified(p, phase) == pc[p] = phase /\ job[p].todo = {}

\* load_locked compares the proofs of a tool once more, and then reads its manifest.
Open(p) ==
  \E q \in job[p].lock.plugins :
    /\ Verified(p, "loading") /\ q.identity \notin DOMAIN job[p].loaded
    /\ Goes(p, "opening", [job[p] EXCEPT !.tool = q, !.todo = Proofs(q)])
    /\ UNCHANGED <<written, saved, accepted, commands>>

ReadManifest(p) ==
  LET q == job[p].tool IN
  /\ Verified(p, "opening")
  /\ Says(q.tool) # None /\ Says(q.tool).identity = q.identity
  /\ Goes(p, "loading", [job[p] EXCEPT !.loaded = With(@, q.identity, version[q.tool])])
  /\ UNCHANGED <<written, saved, accepted, commands>>

Ready(p) ==
  /\ Verified(p, "loading")
  /\ DOMAIN job[p].loaded = {q.identity : q \in job[p].lock.plugins}
  /\ Goes(p, "ready", job[p])
  /\ UNCHANGED <<written, saved, accepted, commands>>

-----------------------------------------------------------------------------
(* ProcessPlugin::process.                                                  *)

StartStep(p) ==
  \E q \in job[p].lock.plugins :
    /\ pc[p] = "ready"
    /\ Goes(p, "checking", [job[p] EXCEPT !.tool = q, !.todo = Proofs(q)])
    /\ UNCHANGED <<written, saved, accepted, commands>>

\* The locked program is started with what the loaded manifest says.
Spawn(p) ==
  LET q == job[p].tool IN
  /\ Verified(p, "checking")
  /\ Goes(p, "running", [job[p] EXCEPT !.used = With(Nothing, q.executable, version[q.executable])])
  /\ UNCHANGED <<written, saved, accepted, commands>>

Artifacts(p) == Text[job[p].tool.tool][job[p].loaded[job[p].tool.identity]].artifacts

\* It reads an artifact when it likes.
UseArtifact(p) ==
  /\ pc[p] = "running"
  /\ \E f \in Artifacts(p) \ DOMAIN job[p].used :
       Goes(p, "running", [job[p] EXCEPT !.used = With(@, f, version[f])])
  /\ UNCHANGED <<written, saved, accepted, commands>>

\* Mutant: the proofs are only compared before the run.
FinishUnchecked(p) ==
  /\ pc[p] = "running"
  /\ Goes(p, "rechecking", [job[p] EXCEPT !.todo = {}])
  /\ UNCHANGED <<written, saved, accepted, commands>>

\* It answered; the proofs are compared again.
Finish(p) ==
  /\ pc[p] = "running"
  /\ Goes(p, "rechecking", [job[p] EXCEPT !.todo = Proofs(job[p].tool)])
  /\ UNCHANGED <<written, saved, accepted, commands>>

Accept(p) ==
  LET j == job[p] IN
  /\ Verified(p, "rechecking")
  /\ accepted' = [plugin |-> j.tool, slipped |-> j.lock.slipped,
                  manifest |-> j.loaded[j.tool.identity], used |-> j.used]
  /\ Goes(p, "ready", [j EXCEPT !.tool = None, !.used = Nothing])
  /\ UNCHANGED <<written, saved, commands>>

\* A step fails; the tools stay loaded.
StepFails(p) ==
  /\ pc[p] \in {"checking", "running", "rechecking"}
  /\ Goes(p, "ready", [job[p] EXCEPT !.tool = None, !.used = Nothing, !.todo = {}])
  /\ UNCHANGED <<written, saved, accepted, commands>>

Edit(f) ==
  /\ edits < MaxEdits
  /\ edits' = edits + 1
  /\ version' = [version EXCEPT ![f] = @ + 1]
  /\ UNCHANGED <<saved, pc, job, accepted, commands>>

Step(p) ==
  \/ \E w \in Workflows : BeginLock(p, w) \/ Load(p, w)
  \/ Enter(p) \/ Leave(p) \/ Discover(p) \/ Choose(p) \/ Capture(p) \/ Save(p)
  \/ Verify(p) \/ Open(p) \/ ReadManifest(p) \/ Ready(p)
  \/ StartStep(p) \/ Spawn(p) \/ UseArtifact(p) \/ Finish(p) \/ Accept(p)
  \/ StepFails(p) \/ Fail(p)

Next == (\E p \in Processes : Step(p)) \/ (\E f \in Paths : Edit(f))

Spec == Init /\ [][Next]_vars

-----------------------------------------------------------------------------
\* Every variable has its type.
TypeOK ==
  /\ version \in [Paths -> Versions]
  /\ pc \in [Processes -> Verifying \union
       {"idle", "composing", "discovering", "capturing", "ready", "running"}]
  /\ edits \in 0..MaxEdits /\ commands \in 0..MaxCommands
  /\ \A p \in Processes : \A q \in job[p].lock.plugins : DOMAIN q.proofs \subseteq Paths

\* What a workflow is composed of, without an order: the least set of workflows that
\* holds the presets of each of them, when the files have certain versions.
Closed(set, at) ==
  \A w \in set : Text[w][at[w]] # None => ToSet(Text[w][at[w]].presets) \subseteq set
Composed(top, at) ==
  {w \in Workflows : \A set \in SUBSET Workflows : top \in set /\ Closed(set, at) => w \in set}

\* A lock that was loaded is the one that the files, as they were when it was read,
\* would be given: of a workflow that is, or is composed of, the one that was asked
\* for; unless a manifest was edited between its two readings by resolve.
LoadedIsCurrent ==
  \A p \in Processes :
    LET l == job[p].lock
        at == job[p].began
        text(f) == Text[f][at[f]]
    IN pc[p] \in {"opening", "ready", "checking", "running", "rechecking"} /\ ~l.slipped =>
         /\ \E top \in Workflows :
              LET all == Composed(top, at) IN
              /\ job[p].workflow \in all
              /\ l.configuration = [w \in all |-> at[w]]
              /\ l.sources = UNION {text(w).sources : w \in all}
              /\ {q.identity : q \in l.plugins} = UNION {text(w).plugins : w \in all}
              /\ \A q \in l.plugins :
                   \E w \in all : \E r \in ToSet(text(w).roots) : q.tool \in Below[r]
         /\ \A q \in l.plugins :
              /\ text(q.tool).identity = q.identity /\ text(q.tool).program = q.executable
              /\ q.proofs = [f \in Owned(q.tool, text(q.tool)) |-> at[f]]

\* Outputs are only accepted from a run whose manifest, program and artifacts were
\* those of the lock, whatever was edited before, while and after it ran.
AcceptedIsLocked ==
  accepted # None =>
    LET proofs == accepted.plugin.proofs IN
    /\ accepted.manifest = proofs[accepted.plugin.tool]
    /\ \A f \in DOMAIN accepted.used :
         IF f \in DOMAIN proofs THEN accepted.used[f] = proofs[f] ELSE accepted.slipped
=============================================================================
