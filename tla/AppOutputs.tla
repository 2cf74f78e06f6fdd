----------------------------- MODULE AppOutputs -----------------------------
(***************************************************************************)
(* The outputs of `lenso app build --source` (a Host authoring output), of *)
(* `lenso app prepare` (a distribution made from that output) and of       *)
(* `lenso app build` (the local App, by way of preset and assemble).  Each *)
(* command stages its output beside the destination and publishes it with  *)
(* one rename that replaces nothing.  No command locks its inputs: authors *)
(* edit sources, other commands write the Plugin Root and people delete or *)
(* change outputs at any moment in between.                                *)
(***************************************************************************)
EXTENDS Naturals

CONSTANTS
  Processes,
  Makes,        \* the outputs that each process may make, a bound
  Sources,
  Kinds,        \* the assignments of a kind to each source to begin with
  Resolvable,   \* the contents per source that make an App
  Releases,     \* the Release that each content declares
  MaxEdits,
  MaxMeddlings, \* outputs deleted or changed, sources changed back, Hosts replaced
  MaxCommands,
  None,
  Mixed         \* what a reader gets of a source that is edited meanwhile

Contents == 1..(MaxEdits + 1)
Outputs == {"host", "distribution", "local"}

VARIABLES
  kind,       \* of each source: bundle, project, convention or native
  src,        \* its content
  edits,
  reverted,   \* whether a content came back
  moments,    \* every content the sources had together
  binary,     \* the content the precompiled Host of lenso.toml was built from
  out,        \* the published outputs
  pc,
  job,        \* what a process read and staged so far
  meddlings,
  commands

vars == <<kind, src, edits, reverted, moments, binary, out, pc, job, meddlings, commands>>
inputs == <<kind, src, edits, reverted, moments, binary, meddlings>>

Unread == [s \in Sources |-> None]
Fresh == [output |-> "host", seen |-> Unread, todo |-> {}, digests |-> Unread,
          making |-> None, before |-> None, dirty |-> FALSE, files |-> Unread, described |-> Unread,
          artifacts |-> Unread, root |-> None, disturbed |-> FALSE]
Records == [files: [Sources -> Contents \union {None, Mixed}],
            described: [Sources -> Contents \union {None}],
            artifacts: [Sources -> Contents \union {None}],
            root: {None, "whole", "mixed", "torn"}, intact: BOOLEAN]

Bundled == {s \in Sources: kind[s] = "bundle"}
Conventions == {s \in Sources: kind[s] = "convention"}
Natives == {s \in Sources: kind[s] = "native"}

TypeOK ==
  /\ kind \in Kinds /\ src \in [Sources -> Contents] /\ edits \in 0..MaxEdits
  /\ moments \subseteq [Sources -> Contents] /\ src \in moments
  /\ binary \in {1, 2}
  /\ \A d \in Outputs: out[d] # None => out[d] \in Records
  /\ pc \in [Processes -> {"idle", "archive", "describe", "lower", "validate", "authority",
             "copy", "artifact", "planned", "root", "conventions", "compile", "digest",
             "make", "resolve", "recheck", "publish"}]
  /\ \A p \in Processes: job[p].todo \subseteq Sources /\ job[p].output \in Outputs
  /\ meddlings \in 0..MaxMeddlings /\ commands \in 0..MaxCommands /\ reverted \in BOOLEAN

\* What lowering and load_resolved_app decide; a project built from a mix of
\* two contents may well resolve, a Bundle of one fails its own digests.
Resolves(files) ==
  \E c \in Resolvable: \A s \in Sources: files[s] \in {c[s], Mixed, None}

Built(files, described) ==
  [files |-> files, described |-> described, artifacts |-> Unread, root |-> None,
   intact |-> TRUE]

Init ==
  /\ kind \in Kinds /\ src = [s \in Sources |-> 1] /\ edits = 0 /\ reverted = FALSE
  /\ moments = {src} /\ binary = 1
  /\ LET ones == [s \in Sources |-> IF s \in Bundled THEN 1 ELSE None] IN
       out \in {[d \in Outputs |-> None],
                [d \in Outputs |-> IF d = "host" THEN Built(ones, ones) ELSE None]}
  /\ pc = [p \in Processes |-> "idle"] /\ job = [p \in Processes |-> Fresh]
  /\ meddlings = 0 /\ commands = 0

-----------------------------------------------------------------------------
(* How steps go on, and how commands begin and end.                         *)

Goes(p, to, record) ==
  /\ pc' = [pc EXCEPT ![p] = to]
  /\ job' = [job EXCEPT ![p] = record]

Ends(p) ==
  /\ pc' = [pc EXCEPT ![p] = "idle"]
  /\ job' = [job EXCEPT ![p] = Fresh]

\* One more of a set of sources is done; the last one ends the phase.
Advances(p, phase, s, record, next, nextTodo) ==
  LET rest == job[p].todo \ {s} IN
  IF rest = {} THEN Goes(p, next, [record EXCEPT !.todo = nextTodo])
               ELSE Goes(p, phase, [record EXCEPT !.todo = rest])

\* The commands go through the sources in one order, whichever it is.
Turn(p) == CHOOSE s \in job[p].todo: TRUE

Requires(condition, p, continue) == IF condition THEN continue ELSE Ends(p)

Begins(p, output) ==
  /\ pc[p] = "idle" /\ output \in Makes[p]
  /\ commands < MaxCommands /\ commands' = commands + 1

-----------------------------------------------------------------------------
(* `app build --source`: each Bundle is archived into the staging directory *)
(* first, and what is staged is verified and described.                     *)

Build(p) ==
  /\ Begins(p, "host") /\ Bundled = Sources
  /\ Requires(out["host"] = None, p,
              Goes(p, "archive", [Fresh EXCEPT !.todo = Sources]))
  /\ UNCHANGED <<inputs, out>>

Archive(p) ==
  /\ pc[p] = "archive"
  /\ \E copy \in {src[Turn(p)], Mixed}:
       Goes(p, "describe", [job[p] EXCEPT !.files[Turn(p)] = copy, !.making = Turn(p)])
  /\ UNCHANGED <<inputs, out, commands>>

\* Mutant: those of the source Bundle, read once more.
DescribedLive(staged, live) == live

\* The Descriptor and the inventory are those of the staged archive.
Described(staged, live) == staged

Describe(p) ==
  LET s == job[p].making IN
  /\ pc[p] = "describe"
  /\ Requires(job[p].files[s] # Mixed, p,
       Advances(p, "archive", s,
         [job[p] EXCEPT !.described[s] = Described(job[p].files[s], src[s]),
                        !.making = None], "lower", {}))
  /\ UNCHANGED <<inputs, out, commands>>

Lower(p) ==
  /\ pc[p] = "lower"
  /\ Requires(Resolves(job[p].described), p, Goes(p, "publish", job[p]))
  /\ UNCHANGED <<inputs, out, commands>>

-----------------------------------------------------------------------------
(* `app prepare`: the inventory is read, every Bundle is verified against   *)
(* it, and then files are copied from the output once more.                 *)

Prepare(p) ==
  /\ Begins(p, "distribution") /\ Bundled = Sources
  /\ Requires(out["host"] # None /\ out["distribution"] = None, p,
       Goes(p, "validate", [Fresh EXCEPT !.output = "distribution", !.todo = Sources,
                                         !.seen = out["host"].described]))
  /\ UNCHANGED <<inputs, out>>

\* validate_bundle: identity, digests and selected Artifact as recorded.
Validates(bundle, recorded) == bundle = recorded

Validate(p) ==
  /\ pc[p] = "validate"
  /\ LET s == Turn(p) IN
       Requires(out["host"] # None /\ Validates(out["host"].files[s], job[p].seen[s]), p,
                Advances(p, "validate", s, job[p], "authority", Sources))
  /\ UNCHANGED <<inputs, out, commands>>

CopyAuthority(p) ==
  /\ pc[p] = "authority"
  /\ Requires(out["host"] # None, p,
       Goes(p, "copy", [job[p] EXCEPT !.described = out["host"].described]))
  /\ UNCHANGED <<inputs, out, commands>>

CopyBundle(p) ==
  /\ pc[p] = "copy"
  /\ LET s == Turn(p) IN
       Requires(out["host"] # None, p,
         Goes(p, "artifact", [job[p] EXCEPT !.files[s] = out["host"].files[s], !.making = s]))
  /\ UNCHANGED <<inputs, out, commands>>

CopyArtifact(p) ==
  LET s == job[p].making IN
  /\ pc[p] = "artifact"
  /\ Requires(out["host"] # None, p,
       Advances(p, "copy", s,
         [job[p] EXCEPT !.artifacts[s] = out["host"].files[s], !.making = None],
         "publish", {}))
  /\ UNCHANGED <<inputs, out, commands>>

-----------------------------------------------------------------------------
(* `app build`: preset plans with fingerprints of the sources; assemble     *)
(* copies the Plugin Root, takes digests, compiles, archives, resolves what *)
(* is staged and looks at the sources once more.                            *)

Plan(p) ==
  /\ Begins(p, "local")
  /\ Goes(p, "planned", [Fresh EXCEPT !.output = "local", !.seen = src])
  /\ UNCHANGED <<inputs, out>>

\* Host::load and Host::admit: native sources are those the Host was built
\* from, and the binary is the one its manifest names.
Admitted == binary = 1 /\ \A s \in Natives: src[s] = 1

StartAssembly(p) ==
  /\ pc[p] = "planned"
  /\ Requires(src = job[p].seen /\ out["local"] = None /\ (Natives # {} => Admitted), p,
              Goes(p, "root", job[p]))
  /\ UNCHANGED <<inputs, out, commands>>

\* copy_root, without the lock of the Plugin Root: of a root that a transaction or a
\* person is writing the copy may have files of several moments, which may resolve
\* ("mixed") or not ("torn").
CopyRoot(p) ==
  /\ pc[p] = "root"
  /\ \E copy \in {"whole", "mixed", "torn"}:
       LET copied == [job[p] EXCEPT !.root = copy] IN
       IF Conventions = {}
       THEN Goes(p, "digest", [copied EXCEPT !.todo = Sources])
       ELSE Goes(p, "conventions", [copied EXCEPT !.todo = Conventions])
  /\ UNCHANGED <<inputs, out, commands>>

Digest(p) ==
  /\ pc[p] \in {"conventions", "digest"}
  /\ LET s == Turn(p)
         record == [job[p] EXCEPT !.digests[s] = src[s]]
     IN IF pc[p] = "conventions"
        THEN Advances(p, "conventions", s, record, "compile", Conventions)
        ELSE Advances(p, "digest", s, record, "make", Sources \ Conventions)
  /\ UNCHANGED <<inputs, out, commands>>

\* A build or a compilation reads its source for a while.
StartMaking(p) ==
  /\ pc[p] \in {"compile", "make"} /\ job[p].making = None
  /\ Turn(p) \notin Natives
  /\ Goes(p, pc[p], [job[p] EXCEPT !.making = Turn(p), !.dirty = FALSE,
                                   !.before = src[Turn(p)]])
  /\ UNCHANGED <<inputs, out, commands>>

\* What a reader of a source gets that it began to read a while ago.
Reads(p) == {src[job[p].making]} \union (IF job[p].dirty THEN {Mixed} ELSE {})
Made(p, content) == [job[p] EXCEPT !.files[job[p].making] = content, !.making = None]

\* convention_build: the digests of its inputs before and after are equal.
Compile(p) ==
  LET others == Sources \ Conventions IN
  /\ pc[p] = "compile" /\ job[p].making # None
  /\ \E content \in Reads(p):
       Requires(src[job[p].making] = job[p].before, p,
         Advances(p, "compile", job[p].making, Made(p, content),
                  IF others = {} THEN "resolve" ELSE "digest", others))
  /\ UNCHANGED <<inputs, out, commands>>

\* A project is built and archived, a Bundle archived: a mixed Bundle fails
\* its digests, and another Release than the discovered one is refused.
Make(p) ==
  /\ pc[p] = "make" /\ job[p].making # None
  /\ \E content \in Reads(p):
       Requires(IF content = Mixed THEN kind[job[p].making] # "bundle"
                ELSE Releases[content] = Releases[job[p].seen[job[p].making]], p,
         Advances(p, "make", job[p].making, Made(p, content), "resolve", {}))
  /\ UNCHANGED <<inputs, out, commands>>

\* Host::install: admitted again, copied, and the copy compared.
InstallHost(p) ==
  /\ pc[p] = "make" /\ job[p].making = None
  /\ Turn(p) \in Natives
  /\ Requires(Admitted, p,
       Advances(p, "make", Turn(p), [job[p] EXCEPT !.files[Turn(p)] = binary], "resolve", {}))
  /\ UNCHANGED <<inputs, out, commands>>

SameSelection(seen) == \A s \in Sources: Releases[src[s]] = Releases[seen[s]]

\* The staged App resolves with the staged copy of the root, which nobody compares with
\* the root itself.
RootResolves(copy) == copy # "torn"

Resolve(p) ==
  /\ pc[p] = "resolve"
  /\ Requires(/\ SameSelection(job[p].seen)
              /\ RootResolves(job[p].root) /\ Resolves(job[p].files), p,
              Goes(p, "recheck", [job[p] EXCEPT !.todo = Sources]))
  /\ UNCHANGED <<inputs, out, commands>>

Unchanged(digest, live) == digest = live

Recheck(p) ==
  /\ pc[p] = "recheck"
  /\ LET s == Turn(p) IN
       Requires(Unchanged(job[p].digests[s], src[s]), p,
                Advances(p, "recheck", s, job[p], "publish", {}))
  /\ UNCHANGED <<inputs, out, commands>>

-----------------------------------------------------------------------------
\* Whoever reads the output meanwhile may see two of them.
Disturbs(jobs, d) ==
  [p \in Processes |-> IF jobs[p].output = "distribution" /\ d = "host"
                       THEN [jobs[p] EXCEPT !.disturbed = TRUE] ELSE jobs[p]]

\* Mutant: a plain rename.
Replaceable(d) == TRUE

\* publish_new_output: the rename replaces nothing.
Free(d) == out[d] = None

Publish(p) ==
  LET d == job[p].output IN
  /\ pc[p] = "publish"
  /\ IF Free(d)
     THEN /\ out' = [out EXCEPT ![d] =
                [files |-> job[p].files, described |-> job[p].described,
                 artifacts |-> job[p].artifacts, root |-> job[p].root,
                 intact |-> ~job[p].disturbed]]
          /\ pc' = [pc EXCEPT ![p] = "idle"]
          /\ job' = Disturbs([job EXCEPT ![p] = Fresh], d)
     ELSE Ends(p) /\ UNCHANGED out
  /\ UNCHANGED <<inputs, commands>>

\* An error, a cancellation before publication, or a kill: what is staged
\* stays where no one reads it.
Stop(p) ==
  /\ pc[p] # "idle"
  /\ Ends(p)
  /\ UNCHANGED <<inputs, out, commands>>

-----------------------------------------------------------------------------
(* The author, other commands and people meanwhile.                         *)

Dirties(s) ==
  job' = [p \in Processes |-> IF job[p].making = s THEN [job[p] EXCEPT !.dirty = TRUE]
                                                   ELSE job[p]]

Edit(s) ==
  /\ edits < MaxEdits
  /\ edits' = edits + 1
  /\ src' = [src EXCEPT ![s] = edits + 2]
  /\ moments' = moments \union {src'}
  /\ Dirties(s)
  /\ UNCHANGED <<kind, reverted, binary, out, pc, meddlings, commands>>

ChangeBack(s) ==
  /\ src[s] # 1 /\ meddlings < MaxMeddlings
  /\ meddlings' = meddlings + 1
  /\ src' = [src EXCEPT ![s] = 1]
  /\ moments' = moments \union {src'} /\ reverted' = TRUE
  /\ Dirties(s)
  /\ UNCHANGED <<kind, edits, binary, out, pc, commands>>

ReplaceHost ==
  /\ meddlings < MaxMeddlings
  /\ meddlings' = meddlings + 1
  /\ binary' = 2 /\ binary # 2
  /\ UNCHANGED <<kind, src, edits, reverted, moments, out, pc, job, commands>>

Meddle(d) ==
  /\ out[d] # None /\ meddlings < MaxMeddlings
  /\ meddlings' = meddlings + 1
  /\ \/ out' = [out EXCEPT ![d] = None]
     \/ \E s \in Sources:
          /\ out[d].files[s] # None
          /\ out' = [out EXCEPT ![d].files[s] = MaxEdits + 1, ![d].intact = FALSE]
          /\ out' # out
  /\ job' = Disturbs(job, d)
  /\ UNCHANGED <<kind, src, edits, reverted, moments, binary, pc, commands>>

Step(p) ==
  \/ Build(p) \/ Archive(p) \/ Describe(p) \/ Lower(p)
  \/ Prepare(p) \/ Validate(p) \/ CopyAuthority(p) \/ CopyBundle(p) \/ CopyArtifact(p)
  \/ Plan(p) \/ StartAssembly(p) \/ CopyRoot(p) \/ Digest(p) \/ StartMaking(p)
  \/ Compile(p) \/ Make(p) \/ InstallHost(p) \/ Resolve(p) \/ Recheck(p)
  \/ Publish(p) \/ Stop(p)

Next ==
  \/ \E p \in Processes: Step(p)
  \/ \E s \in Sources: Edit(s) \/ ChangeBack(s)
  \/ \E d \in Outputs: Meddle(d)
  \/ ReplaceHost

Spec == Init /\ [][Next]_vars

-----------------------------------------------------------------------------
\* A Host authoring output describes the bytes in it, and they make an App,
\* whatever was edited while it was built, unless somebody changed it later.
HostIsWhatItDescribes ==
  out["host"] # None /\ out["host"].intact =>
    out["host"].files = out["host"].described /\ Resolves(out["host"].described)

\* A distribution holds the bundles, the selected Artifacts and the authority
\* of one build that was verified, unless the build was deleted, replaced or
\* changed while the distribution was prepared from it.
DistributionIsTheBuild ==
  LET made == out["distribution"] IN
  made # None /\ made.intact =>
    made.files = made.described /\ made.artifacts = made.files /\ Resolves(made.files)

\* A local App is built of contents that its sources had all at one moment, although
\* nothing was locked while it was built, unless a source was changed back meanwhile. Its
\* plugins/ are those it resolves with; their files may be of several moments.
LocalIsOfOneMoment ==
  LET made == out["local"] IN
  made # None /\ made.intact =>
    (reverted \/ made.files \in moments) /\ Resolves(made.files) /\ made.root # "torn"

\* Of commands that race for one destination the first one wins: what is
\* published stays until somebody deletes or changes it.
FirstOutputStays ==
  [][\A d \in Outputs: out[d] # None /\ meddlings' = meddlings => out'[d] = out[d]]_vars
=============================================================================
