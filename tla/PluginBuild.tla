---------------------------- MODULE PluginBuild ----------------------------
(***************************************************************************)
(* How a Plugin project becomes a Bundle                                   *)
(* (src/crates/lenso-engine-app/src/plugin.rs, plugin/dev.rs): plugin      *)
(* check, pack and dev build the implementations the project declares, a   *)
(* Wasm module, a Process or a Bun program, and state one Contract for all *)
(* of them.  A Contract is read from what was built: from the Wasm module, *)
(* from what the Process answers when it is asked to describe itself, or   *)
(* from the report of the Bun build.  Cargo's target directory belongs to  *)
(* the project, and every command builds into it; cargo locks it only      *)
(* while it builds.  Sources are edited at any moment.                     *)
(***************************************************************************)
EXTENDS Naturals, Sequences

CONSTANTS
  Builders,     \* processes that run plugin commands on the project
  Metadata,     \* what projects declare: [package, implementations, runtime, outputs]
  Commands,     \* "pack", "check" and values of dev's --implementation
  Face,         \* what the sources of each version expose: [capability, requires]
  Release,      \* the release that the manifest of each version names
  Broken,       \* versions that do not compile
  MaxEdits,     \* bound on edits of all sources
  MaxCommands,  \* bound on commands
  None

VARIABLES
  metadata,     \* what the project declares
  authoring,    \* the authoring version of each Rust implementation
  source,       \* the version of what people wrote below each root
  target,       \* the version of what cargo built last, by profile and implementation
  out,          \* the packed Bundle
  pc,           \* where each builder is
  job,          \* what each builder has planned and made
  commands,
  swapped,      \* history: builders whose Process was replaced after it described itself
  mixed,        \* history: whether that happened to the builder that packed out
  ran           \* history: the Contract and the code that dev invoked last

vars == <<metadata, authoring, source, target, out, pc, job, commands, swapped, mixed, ran>>
projectVars == <<metadata, authoring, commands>>

Versions == 1..(MaxEdits + 1)
Profiles == {"development", "release"}
Roots == {"main", "process", "bun"}

-----------------------------------------------------------------------------
\* The runtime a project declares; Bun projects do not use Cargo metadata.
ProjectRuntime(m) ==
  CASE m.package = "npm" -> "npm"
    [] m.implementations # <<>> ->
         IF m.runtime = None /\ m.outputs = <<>> THEN "composite" ELSE "refused"
    [] m.implementations = <<>> /\ m.outputs # <<>> ->
         CASE m.outputs = <<"wasm">> -> "wasm"
           [] m.outputs = <<"process">> -> "process"
           [] m.outputs = <<"wasm", "process">> -> "multi"
           [] OTHER -> "refused"
    [] OTHER -> IF m.runtime = None THEN "wasm" ELSE m.runtime

\* A declared implementation lies below a root of its own.
RootOf(i) == IF ProjectRuntime(metadata) = "composite" THEN i ELSE "main"

Do(what, i) == [do |-> what, of |-> i]
Refused == <<Do("refuse", None)>>
\* One implementation.
StepsOf(i) ==
  CASE i = "wasm" -> <<Do("build", i), Do("bundle", i)>>
    [] i = "process" -> <<Do("build", i), Do("describe", i), Do("bundle", i)>>
    [] i = "npm" -> <<Do("typecheck", "bun"), Do("bundle", "bun")>>
    [] OTHER -> Refused
\* Both Rust implementations.
Multi == <<Do("build", "wasm"), Do("build", "process"), Do("bundle", "wasm"),
           Do("describe", "process"), Do("bundle", "process")>>
\* Declared implementations are built one after the other. Each is named after its
\* runtime; names are unique.
Declared(i) == CASE i = "process" -> StepsOf(i) [] i = "bun" -> StepsOf("npm") [] OTHER -> Refused
Composite(declared) ==
  IF Len(declared) < 2 THEN <<Refused>>
  ELSE [k \in DOMAIN declared |->
          IF \E earlier \in 1..(k - 1) : declared[earlier] = declared[k]
          THEN Refused ELSE Declared(declared[k])]

\* The implementations that dev builds for its --implementation.
Selection(runtime, argument) ==
  CASE runtime = "multi" -> IF argument = "auto" THEN "process"
                            ELSE IF argument = "all" THEN "multi" ELSE argument
    [] runtime \in {"wasm", "process"} ->
         IF argument \in {"auto", "all", runtime} THEN runtime ELSE "refused"
    [] OTHER -> "refused"

\* dev of a composite project builds one implementation, which is declared once, or all.
DevComposite(declared, argument) ==
  LET only == IF argument = "auto" THEN "process" ELSE argument
  IN CASE argument = "all" -> Composite(declared)
       [] only \in {"process", "bun"} ->
            IF \E k \in DOMAIN declared : \A n \in DOMAIN declared : declared[n] = only <=> n = k
            THEN <<Declared(only)>> ELSE <<Refused>>
       [] OTHER -> <<Refused>>

\* The steps of a command, for each implementation it builds by itself.
Plan(m, command) ==
  LET runtime == ProjectRuntime(m)
      build == IF command \in {"pack", "check"} THEN runtime
               ELSE IF runtime # "npm" THEN Selection(runtime, command)
               ELSE IF command \in {"auto", "bun", "all"} THEN "npm" ELSE "refused"
  IN CASE runtime = "composite" ->
            IF command \in {"pack", "check"} THEN Composite(m.implementations)
            ELSE DevComposite(m.implementations, command)
       [] build = "multi" -> <<Multi>>
       [] OTHER -> <<StepsOf(build)>>

Command(command) == IF command \in {"pack", "check"} THEN command ELSE "dev"
Profile(b) == IF job[b].command = "pack" THEN "release" ELSE "development"

-----------------------------------------------------------------------------
\* What an implementation of some code states.
Contract(i, code, release) ==
  [face |-> Face[code], release |-> release, authoring |-> IF i = "bun" THEN 2 ELSE authoring[i]]

\* Without requirements a Contract of version 1 is the same in version 2.
Promoted(c, other) ==
  IF c.authoring # other.authoring /\ ~c.face.requires /\ ~other.face.requires
  THEN [c EXCEPT !.authoring = 2] ELSE c

\* Mutant: the first Contract is stated for both.
SharesAnyContract(left, right) == TRUE

\* The two Rust implementations expose one Contract.
SharesContract(left, right) == Promoted(left, right) = Promoted(right, left)

NoJob == [command |-> None, steps |-> <<>>, later |-> <<>>, read |-> None, described |-> None,
          bundles |-> <<>>, result |-> None]

Init ==
  /\ metadata \in Metadata
  /\ authoring \in [{"wasm", "process"} -> {1, 2}]
  /\ source = [r \in Roots |-> 1]
  /\ target = [p \in Profiles |-> [i \in {"wasm", "process"} |-> None]]
  /\ out = None
  /\ pc = [b \in Builders |-> "idle"]
  /\ job = [b \in Builders |-> NoJob]
  /\ commands = 0
  /\ swapped = {}
  /\ mixed = FALSE
  /\ ran = None

\* A command ends; its temporary directories go with it.
End(b) ==
  /\ pc' = [pc EXCEPT ![b] = "idle"]
  /\ job' = [job EXCEPT ![b] = NoJob]
  /\ swapped' = swapped \ {b}

Due(b) == Head(job[b].steps)
At(b, what) == pc[b] = "making" /\ job[b].steps # <<>> /\ Due(b).do = what
\* After the last step of an implementation comes the next implementation.
Follows(b) == Len(job[b].steps) = 1 /\ job[b].later # <<>>
Advanced(b) ==
  [job[b] EXCEPT !.steps = IF Follows(b) THEN Head(job[b].later) ELSE Tail(@),
                 !.later = IF Follows(b) THEN Tail(@) ELSE @]

Begin(b, command) ==
  /\ pc[b] = "idle"
  /\ commands < MaxCommands
  /\ commands' = commands + 1
  /\ pc' = [pc EXCEPT ![b] = "making"]
  /\ LET plan == Plan(metadata, command) IN
     job' = [job EXCEPT ![b] = [NoJob EXCEPT !.command = Command(command),
                                             !.steps = Head(plan), !.later = Tail(plan)]]
  /\ UNCHANGED <<metadata, authoring, source, target, out, swapped, mixed, ran>>

\* cargo build. Another command that asked the old executable to describe itself
\* will bundle this one.
Build(b) ==
  LET i == Due(b).of
  IN /\ At(b, "build")
     /\ source[RootOf(i)] \notin Broken
     /\ target' = [target EXCEPT ![Profile(b)][i] = source[RootOf(i)]]
     /\ job' = [job EXCEPT ![b] = Advanced(b)]
     /\ swapped' = swapped \union
          {c \in Builders \ {b} : /\ At(c, "bundle") /\ Due(c).of = i /\ i = "process"
                                  /\ Profile(c) = Profile(b)}
     /\ UNCHANGED <<projectVars, source, out, pc, mixed, ran>>

\* The executable is started with --lenso-describe.
Describe(b) ==
  /\ At(b, "describe")
  /\ job' = [job EXCEPT ![b] = [Advanced(b) EXCEPT !.described = target[Profile(b)]["process"]]]
  /\ UNCHANGED <<projectVars, source, target, out, pc, swapped, mixed, ran>>

\* package.json is read, and bun run check passes.
Typecheck(b) ==
  /\ At(b, "typecheck")
  /\ source[RootOf("bun")] \notin Broken
  /\ job' = [job EXCEPT ![b] = [Advanced(b) EXCEPT !.read = source[RootOf("bun")]]]
  /\ UNCHANGED <<projectVars, source, target, out, pc, swapped, mixed, ran>>

\* One implementation is bundled with its Contract: Cargo.toml is read again, and
\* the Bun program is compiled from the sources of now.
Bundled(b, i) ==
  LET code == IF i = "bun" THEN source[RootOf(i)] ELSE target[Profile(b)][i]
      stated == IF i = "process" THEN job[b].described ELSE code
      manifest == IF i = "bun" THEN job[b].read ELSE source[RootOf(i)]
  IN [of |-> i, code |-> code, contract |-> Contract(i, stated, Release[manifest])]

\* Declared implementations state the same Contract as the first.
Bundle(b) ==
  LET made == Bundled(b, Due(b).of)
  IN /\ At(b, "bundle")
     /\ job[b].bundles # <<>> /\ ProjectRuntime(metadata) = "composite"
          => made.contract = job[b].bundles[1].contract
     /\ job' = [job EXCEPT ![b] = [Advanced(b) EXCEPT !.bundles = Append(@, made)]]
     /\ UNCHANGED <<projectVars, source, target, out, pc, swapped, mixed, ran>>

\* The Bundle of all implementations.
Assemble(b) ==
  LET made == job[b].bundles
      two == Len(made) = 2 /\ ProjectRuntime(metadata) = "multi"
      left == made[1].contract
      right == made[2].contract
  IN /\ pc[b] = "making" /\ job[b].steps = <<>>
     /\ two => SharesContract(left, right)
     /\ job' = [job EXCEPT ![b].result =
          [contract |-> IF two THEN Promoted(left, right) ELSE left,
           code |-> [i \in {made[k].of : k \in DOMAIN made} |->
                       made[CHOOSE k \in DOMAIN made : made[k].of = i].code]]]
     /\ pc' = [pc EXCEPT ![b] = "assembled"]
     /\ UNCHANGED <<projectVars, source, target, out, swapped, mixed, ran>>

-----------------------------------------------------------------------------
\* pack writes an archive beside an output that does not exist yet.
Archive(b) ==
  /\ pc[b] = "assembled" /\ job[b].command = "pack"
  /\ out = None
  /\ pc' = [pc EXCEPT ![b] = "archived"]
  /\ UNCHANGED <<projectVars, source, target, out, job, swapped, mixed, ran>>

\* The archive is renamed to the output, which another pack may have made by now.
Persist(b) ==
  /\ pc[b] = "archived"
  /\ out' = job[b].result
  /\ mixed' = (b \in swapped)
  /\ pc' = [pc EXCEPT ![b] = "persisted"]
  /\ UNCHANGED <<projectVars, source, target, job, swapped, ran>>

\* The output is opened again and has to be what was built.
Reopen(b) ==
  /\ pc[b] = "persisted"
  /\ out = job[b].result
  /\ End(b)
  /\ UNCHANGED <<projectVars, source, target, out, mixed, ran>>

\* dev invokes the Process, or else the one implementation there is; what is in
\* the Bundle has to describe itself as the Bundle states.
Invoke(b) ==
  LET codes == job[b].result.code
      i == IF "process" \in DOMAIN codes THEN "process" ELSE CHOOSE x \in DOMAIN codes : TRUE
  IN /\ pc[b] = "assembled" /\ job[b].command = "dev"
     /\ i # "bun" => Face[codes[i]].capability = job[b].result.contract.face.capability
     /\ i # "wasm" => ~job[b].result.contract.face.requires
     /\ ran' = [contract |-> job[b].result.contract, code |-> codes[i]]
     /\ End(b)
     /\ UNCHANGED <<projectVars, source, target, out, mixed>>

\* check is done; or a comparison, a build or any other call fails, or the process
\* is killed.
Stop(b) ==
  /\ pc[b] # "idle"
  /\ End(b)
  /\ UNCHANGED <<projectVars, source, target, out, mixed, ran>>

Step(b) ==
  \/ \E command \in Commands : Begin(b, command)
  \/ Build(b) \/ Describe(b) \/ Typecheck(b) \/ Bundle(b) \/ Assemble(b)
  \/ Archive(b) \/ Persist(b) \/ Reopen(b) \/ Invoke(b) \/ Stop(b)

\* A person saves another version below a root that the project uses.
Edit(r) ==
  /\ r \in {RootOf(i) : i \in {"process", "bun"}}
  /\ source["main"] + source["process"] + source["bun"] < MaxEdits + 3
  /\ source' = [source EXCEPT ![r] = @ + 1]
  /\ UNCHANGED <<projectVars, target, out, pc, job, swapped, mixed, ran>>

\* A person removes the packed Bundle.
Delete ==
  /\ out # None
  /\ out' = None
  /\ mixed' = FALSE
  /\ UNCHANGED <<projectVars, source, target, pc, job, swapped, ran>>

Next == (\E b \in Builders : Step(b)) \/ (\E r \in Roots : Edit(r)) \/ Delete

Spec == Init /\ [][Next]_vars

-----------------------------------------------------------------------------
\* Every variable has its type.
TypeOK ==
  /\ metadata \in Metadata
  /\ source \in [Roots -> Versions]
  /\ target \in [Profiles -> [{"wasm", "process"} -> Versions \union {None}]]
  /\ pc \in [Builders -> {"idle", "making", "assembled", "archived", "persisted"}]
  /\ commands \in 0..MaxCommands
  /\ swapped \subseteq Builders /\ mixed \in BOOLEAN

\* The packed Bundle states for all its implementations what each of them exposes
\* and was written against, whatever was edited between the builds, unless another
\* command built the Process anew between its description and its copy
\* (materialize_multi, materialize_composite, shared_portable_contract).
PackedAsStated ==
  out # None /\ ~mixed =>
    \A i \in DOMAIN out.code :
      /\ Face[out.code[i]] = out.contract.face
      /\ LET own == Contract(i, out.code[i], out.contract.release)
         IN \/ out.contract.authoring = own.authoring
            \/ out.contract.authoring = 2 /\ ~out.contract.face.requires

\* What dev invokes exposes the Capability of its Bundle, also where another
\* command builds the Process anew at any moment (invoke_selected_dev).
RunsAsStated ==
  ran # None => Face[ran.code].capability = ran.contract.face.capability
=============================================================================
