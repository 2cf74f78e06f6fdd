---------------------------- MODULE ContractSync ----------------------------
(***************************************************************************)
(* synchronize (src/crates/lenso-engine-app/src/app/contracts.rs): before  *)
(* an App is assembled, the generated files of its contracts are brought   *)
(* in step with what people wrote.  A contract is described by a Rust      *)
(* source, from which its descriptor is extracted, or by a descriptor that *)
(* is written by hand; a package may also project the descriptor of        *)
(* another contract.  Generated files are the projections of every         *)
(* contract and the extracted descriptors; a baseline below                *)
(* .lenso/contracts remembers the descriptor of the last generation.  A    *)
(* build asks for some of the contracts: those of the Plugins it selects,  *)
(* and those below contracts/.                                             *)
(*                                                                         *)
(* People edit at any moment and never return to an earlier version; the   *)
(* declarations, which are read before the lock is taken, do not change.   *)
(***************************************************************************)
EXTENDS Naturals

CONSTANTS
  Builders,     \* processes that assemble the App
  Contracts,    \* packages that declare a contract
  Owned,        \* contracts whose descriptor is extracted from their source
  Uses,         \* the contract whose descriptor each one is generated from
  Asks,         \* the sets of contracts that a build may ask for
  Family,       \* versions of one family may replace one another (lint_compatibility)
  MaxEdits,     \* bound on edits of all contracts
  MaxFaults,    \* bound on failing writes and killed processes
  None,         \* no file
  Torn          \* a file, or a directory of files, whose writing was broken off

VARIABLES
  source,       \* the version of what people wrote for each described contract
  disk,         \* the version every generated file is of
  baseline,     \* the version the last generation recorded
  lock,         \* the builder that holds contracts.lock
  pc,           \* where each builder is
  asked,        \* the contracts of the builder that holds the lock, or held it last
  job,          \* what each builder has read, staged and saved
  moments,      \* history: what the sources were at each moment since the lock was taken
  accepted,     \* history: the version the last successful generation was of
  doubted,      \* history: contracts whose previous version was read torn
  found,        \* history: the generated files when the lock was taken
  report,       \* history: how the last builder ended
  edits, faults

inputVars == <<source, moments, edits>>
historyVars == <<accepted, doubted, found, report>>
vars == <<source, disk, baseline, lock, asked, pc, job, moments, accepted,
          doubted, found, report, edits, faults>>

Versions == 1..(MaxEdits + 1)
\* Contracts with a description of their own.
Described == {c \in Contracts : Uses[c] = c}
Descriptor(c) == <<"descriptor", c>>
Projection(c) == <<"projection", c>>
Generated == {Descriptor(c) : c \in Owned} \union {Projection(c) : c \in Contracts}
Contents == Versions \union {None, Torn}
Nothing == [f \in {} |-> None]
NoJob == [digests |-> Nothing, staged |-> Nothing, kept |-> {}, compared |-> {},
          saved |-> Nothing, todo |-> {}, recorded |-> {}]
With(fn, x, v) == [y \in DOMAIN fn \union {x} |-> IF y = x THEN v ELSE fn[y]]

Compatible(old, new) == Family[old] = Family[new]

\* A checkout in which nothing, or everything, was generated before; .lenso may be missing.
Init ==
  /\ source = [c \in Described |-> 1]
  /\ \E old \in {None, 1} :
       /\ disk = [f \in Generated |-> old]
       /\ \E base \in {None, old} : baseline = [c \in Described |-> base]
       /\ accepted = [c \in Described |->
            IF baseline[c] = None /\ c \notin Owned THEN None ELSE old]
  /\ lock = None
  /\ asked = {}
  /\ pc = [b \in Builders |-> "idle"]
  /\ job = [b \in Builders |-> NoJob]
  /\ moments = {}
  /\ doubted = {}
  /\ found = disk
  /\ report = "none"
  /\ edits = 0 /\ faults = 0

-----------------------------------------------------------------------------
Goto(b, there) == pc' = [pc EXCEPT ![b] = there]

\* The lock file is closed and the staging directory removed, however it ends.
End(b, result) ==
  /\ Goto(b, "idle")
  /\ job' = [job EXCEPT ![b] = NoJob]
  /\ lock' = None
  /\ report' = result

\* The contracts are collected and the lock is taken.
Lock(b) ==
  /\ pc[b] = "idle"
  /\ lock = None
  /\ lock' = b
  /\ asked' \in Asks
  /\ Goto(b, "reading")
  /\ moments' = {source}
  /\ found' = disk
  /\ report' = "none"
  /\ UNCHANGED <<source, disk, baseline, job, accepted, doubted, edits, faults>>

\* The packages are digested one by one.
Digest(b, c) ==
  /\ pc[b] = "reading"
  /\ c \in (asked \intersect Described) \ DOMAIN job[b].digests
  /\ job' = [job EXCEPT ![b].digests = With(@, c, source[c])]
  /\ UNCHANGED <<inputVars, disk, baseline, lock, asked, pc, historyVars, faults>>

AllDigested(b) ==
  /\ pc[b] = "reading"
  /\ asked \intersect Described \subseteq DOMAIN job[b].digests
  /\ Goto(b, "staging")
  /\ UNCHANGED <<inputVars, disk, baseline, lock, asked, job, historyVars, faults>>

-----------------------------------------------------------------------------
\* What a contract is generated from: what people wrote, the descriptor staged for
\* the contract it uses, or the one extracted before.
Input(b, c) ==
  IF c \in Owned \/ Uses[c] \notin Owned THEN source[Uses[c]]
  ELSE IF Uses[c] \in asked THEN job[b].staged[Uses[c]] ELSE disk[Descriptor(Uses[c])]

\* What the contract was before: its baseline, or the descriptor that was extracted before.
Previous(c) ==
  IF baseline[Uses[c]] # None THEN baseline[Uses[c]]
  ELSE IF c \in Owned THEN disk[Descriptor(c)] ELSE None

\* A torn previous version may fail to load or be judged by what is left of it.
MayReplace(old, new) == old \in Versions => Compatible(old, new)

\* A projection that names the digest already is left alone unless the contract
\* has a source; a torn one may name it.
LeftAlone(c) == IF c \notin Owned /\ disk[Projection(c)] = Torn THEN {{}, {c}} ELSE {{}}

\* Contracts with a source come first.
Turn(b, c) ==
  /\ c \in asked \ DOMAIN job[b].staged
  /\ c \in Owned \/ asked \intersect Owned \subseteq DOMAIN job[b].staged

\* One contract is extracted or copied to the staging directory, compared with
\* its previous version, and its projections are generated.  A descriptor written
\* by hand outside the packages is remembered for the second reading.
Stage(b, c) ==
  /\ pc[b] = "staging"
  /\ Turn(b, c)
  /\ Input(b, c) \in Versions
  /\ MayReplace(Previous(c), Input(b, c))
  /\ \E kept \in LeftAlone(c) :
       job' = [job EXCEPT ![b].staged = With(@, c, Input(b, c)), ![b].kept = @ \union kept,
         ![b].digests = IF Uses[c] \in DOMAIN @ \union Owned THEN @
                        ELSE With(@, Uses[c], source[Uses[c]])]
  /\ doubted' = IF Previous(c) = Torn THEN doubted \union {Uses[c]} ELSE doubted
  /\ UNCHANGED <<inputVars, disk, baseline, lock, asked, pc, accepted, found, report, faults>>

AllStaged(b) ==
  /\ pc[b] = "staging"
  /\ DOMAIN job[b].staged = asked
  /\ Goto(b, "comparing")
  /\ UNCHANGED <<inputVars, disk, baseline, lock, asked, job, historyVars, faults>>

\* A contract does not compile or load, is not compatible, or an authored file,
\* for which a torn projection may be taken, is in the way.
Refuse(b) ==
  /\ pc[b] = "staging"
  /\ End(b, "refused")
  /\ UNCHANGED <<inputVars, asked, disk, baseline, accepted, doubted, found, faults>>

-----------------------------------------------------------------------------
\* Mutant: the inputs are not read again.
CompareNothing(b, c) ==
  /\ pc[b] = "comparing"
  /\ c \in DOMAIN job[b].digests \ job[b].compared
  /\ job' = [job EXCEPT ![b].compared = @ \union {c}]
  /\ UNCHANGED <<inputVars, disk, baseline, lock, asked, pc, historyVars, faults>>

\* Every input is read again and must be what it was.
CompareInput(b, c) ==
  /\ pc[b] = "comparing"
  /\ c \in DOMAIN job[b].digests \ job[b].compared
  /\ source[c] = job[b].digests[c]
  /\ job' = [job EXCEPT ![b].compared = @ \union {c}]
  /\ UNCHANGED <<inputVars, disk, baseline, lock, asked, pc, historyVars, faults>>

\* "changed during generation; retry after edits settle"
InputChanged(b) ==
  /\ pc[b] = "comparing"
  /\ \E c \in DOMAIN job[b].digests \ job[b].compared : source[c] # job[b].digests[c]
  /\ End(b, "refused")
  /\ UNCHANGED <<inputVars, asked, disk, baseline, accepted, doubted, found, faults>>

Made(b, f) == job[b].staged[f[2]]
Changes(b) == {f \in Generated : f[2] \in asked} \ {Projection(c) : c \in job[b].kept}
Differing(b) == {f \in Changes(b) : disk[f] # Made(b, f)}

\* Everything is valid: the files that may change are read for the case of an error.
Backup(b) ==
  /\ pc[b] = "comparing"
  /\ job[b].compared = DOMAIN job[b].digests
  /\ job' = [job EXCEPT ![b].saved = [f \in Changes(b) |-> disk[f]], ![b].todo = Differing(b)]
  /\ Goto(b, "installing")
  /\ UNCHANGED <<inputVars, disk, baseline, lock, asked, historyVars, faults>>

Install(b, f) ==
  /\ pc[b] = "installing"
  /\ f \in job[b].todo
  /\ disk' = [disk EXCEPT ![f] = Made(b, f)]
  /\ job' = [job EXCEPT ![b].todo = @ \ {f}]
  /\ UNCHANGED <<inputVars, baseline, lock, asked, pc, historyVars, faults>>

\* A file cannot be written: what was installed is put back.
InstallFails(b, f) ==
  /\ pc[b] = "installing"
  /\ f \in job[b].todo
  /\ faults < MaxFaults
  /\ faults' = faults + 1
  /\ \E left \in {disk[f], Torn} : disk' = [disk EXCEPT ![f] = left]
  /\ job' = [job EXCEPT ![b].todo = Changes(b)]
  /\ Goto(b, "restoring")
  /\ UNCHANGED <<inputVars, baseline, lock, asked, historyVars>>

Restore(b, f) ==
  /\ pc[b] = "restoring"
  /\ f \in job[b].todo
  /\ disk' = [disk EXCEPT ![f] = job[b].saved[f]]
  /\ job' = [job EXCEPT ![b].todo = @ \ {f}]
  /\ UNCHANGED <<inputVars, baseline, lock, asked, pc, historyVars, faults>>

\* Errors of putting back are not looked at.
RestoreFails(b, f) ==
  /\ pc[b] = "restoring"
  /\ f \in job[b].todo
  /\ faults < MaxFaults
  /\ faults' = faults + 1
  /\ \E left \in {disk[f], Torn} : disk' = [disk EXCEPT ![f] = left]
  /\ job' = [job EXCEPT ![b].todo = @ \ {f}]
  /\ report' = "mixed"
  /\ UNCHANGED <<inputVars, baseline, lock, asked, pc, accepted, doubted, found>>

\* A builder that put everything back ends with the error of the write.
Restored(b) ==
  /\ pc[b] = "restoring"
  /\ job[b].todo = {}
  /\ End(b, IF report = "mixed" THEN "mixed" ELSE "undone")
  /\ UNCHANGED <<inputVars, asked, disk, baseline, accepted, doubted, found, faults>>

-----------------------------------------------------------------------------
\* Every file is installed: the staged descriptors become the baselines.
Installed(b) == pc[b] = "installing" /\ job[b].todo = {}

\* Bytes that are there already are not written.
Record(b, c) ==
  /\ Installed(b)
  /\ c \in asked \ job[b].recorded
  /\ baseline' = [baseline EXCEPT ![Uses[c]] = job[b].staged[c]]
  /\ job' = [job EXCEPT ![b].recorded = @ \union {c}]
  /\ UNCHANGED <<inputVars, disk, lock, asked, pc, historyVars, faults>>

\* The baseline of c is still to be written.
Unrecorded(b, c) == c \in asked \ job[b].recorded /\ baseline[Uses[c]] # job[b].staged[c]

\* The generated files stay as they are.
RecordFails(b, c) ==
  /\ Installed(b)
  /\ Unrecorded(b, c)
  /\ faults < MaxFaults
  /\ faults' = faults + 1
  /\ \E left \in {baseline[Uses[c]], Torn} : baseline' = [baseline EXCEPT ![Uses[c]] = left]
  /\ End(b, "unrecorded")
  /\ UNCHANGED <<inputVars, asked, disk, accepted, doubted, found>>

\* "Synchronized ... local contract packages"
Synchronized(b) ==
  /\ Installed(b)
  /\ job[b].recorded = asked
  /\ accepted' = [d \in Described |-> IF d \in {Uses[c] : c \in asked} THEN baseline[d]
                                      ELSE accepted[d]]
  /\ End(b, "synchronized")
  /\ UNCHANGED <<inputVars, asked, disk, baseline, doubted, found, faults>>

\* The process is killed, perhaps while it writes a file.
Kill(b) ==
  /\ pc[b] # "idle"
  /\ faults < MaxFaults
  /\ faults' = faults + 1
  /\ \/ UNCHANGED <<disk, baseline>>
     \/ /\ pc[b] \in {"installing", "restoring"}
        /\ \E f \in job[b].todo : disk' = [disk EXCEPT ![f] = Torn]
        /\ UNCHANGED baseline
     \/ /\ Installed(b)
        /\ \E c \in Contracts :
             /\ Unrecorded(b, c)
             /\ baseline' = [baseline EXCEPT ![Uses[c]] = Torn]
        /\ UNCHANGED disk
  /\ End(b, "killed")
  /\ UNCHANGED <<inputVars, asked, accepted, doubted, found>>

\* A person saves another version of a source or of a descriptor written by hand.
Edit(c) ==
  /\ edits < MaxEdits
  /\ edits' = edits + 1
  /\ source' = [source EXCEPT ![c] = @ + 1]
  /\ moments' = IF lock = None THEN moments ELSE moments \union {source'}
  /\ UNCHANGED <<disk, baseline, lock, asked, pc, job, historyVars, faults>>

Step(b) ==
  \/ Lock(b) \/ AllDigested(b) \/ AllStaged(b) \/ Refuse(b) \/ InputChanged(b) \/ Backup(b)
  \/ Restored(b) \/ Synchronized(b) \/ Kill(b)
  \/ \E c \in Contracts :
       \/ Digest(b, c) \/ Stage(b, c) \/ CompareInput(b, c) \/ Record(b, c) \/ RecordFails(b, c)
  \/ \E f \in Generated : Install(b, f) \/ InstallFails(b, f) \/ Restore(b, f) \/ RestoreFails(b, f)

Next == (\E b \in Builders : Step(b)) \/ (\E c \in Described : Edit(c))

Spec == Init /\ [][Next]_vars

-----------------------------------------------------------------------------
\* Every variable has its type.
TypeOK ==
  /\ source \in [Described -> Versions]
  /\ disk \in [Generated -> Contents] /\ found \in [Generated -> Contents]
  /\ baseline \in [Described -> Contents]
  /\ accepted \in [Described -> Versions \union {None}]
  /\ lock \in Builders \union {None}
  /\ asked \in Asks \union {{}}
  /\ pc \in [Builders -> {"idle", "reading", "staging", "comparing", "installing", "restoring"}]
  /\ doubted \subseteq Described
  /\ edits \in 0..MaxEdits /\ faults \in 0..MaxFaults

\* What was generated is of one moment of what people wrote, also where a contract
\* projects the descriptor of another one and whatever an earlier run left; only a
\* torn projection of a descriptor that was not extracted may stay.
FollowsTheSources ==
  LET used == {Uses[c] : c \in asked}
  IN /\ \E m \in moments : \A d \in used \ (Owned \ asked) : accepted[d] = m[d]
     /\ \A d \in used : baseline[d] = accepted[d]
     /\ \A f \in Generated : f[2] \in asked =>
          \/ disk[f] = accepted[Uses[f[2]]]
          \/ disk[f] = Torn /\ f[2] \notin Owned

\* A generation that reports success leaves generated files and baselines of
\* versions that the sources held together while it ran, and one whose write failed
\* puts all files back as they were (synchronize: the second reading of the inputs,
\* the staging before any installation, the backups).
GeneratedTogether ==
  /\ report = "synchronized" => FollowsTheSources
  /\ report = "undone" => disk = found

\* From one successful generation to the next a contract changes compatibly,
\* however many failed in between, unless its baseline was torn.
ChangesCompatibly ==
  [][\A c \in Described \ doubted' :
       accepted[c] # None => Compatible(accepted[c], accepted'[c])]_vars
=============================================================================
