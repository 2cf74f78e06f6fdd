--------------------------- MODULE RootAuthority ---------------------------
(***************************************************************************)
(* Reviewed changes of the Plugin Root: a client inspects the root, asks   *)
(* for a proposal against the revision it saw, reviews it without holding  *)
(* any lock, and publishes it later if nothing it was reviewed for has     *)
(* changed.  Enabling or disabling an instance is one command, optionally  *)
(* fenced by a revision.                                                   *)
(*                                                                         *)
(* A revision is the digest of what the files mean, a source digest is the *)
(* digest of the bytes of one file, and the Host digest that of the Host   *)
(* catalog; each is modelled by what it is the digest of.  The publication *)
(* of a change set is one step here: RootTransaction implements it.        *)
(***************************************************************************)
EXTENDS Naturals

CONSTANTS
  Clients,      \* processes that inspect, propose and publish
  Nobody,       \* no process holds the exclusive lock
  Paths,        \* files below plugins/
  Bytes,        \* the byte strings they can hold
  Absent,       \* the file does not exist
  Meaning,      \* what each byte string means once parsed
  Choices,      \* the path of the dependency selections
  Requests,     \* change sets clients ask for
  Markers,      \* the change sets of disabled markers
  Hosts,        \* Host catalogs
  Resolves,     \* the meanings of a root that each Host resolves
  Materialized, \* the dependency selections each Host proposes
  InitBytes,
  InitHost,
  RacingEdits,  \* a person may edit while a command runs
  RacingHost,   \* the Host catalog may be replaced while a command runs
  MaxEdits, MaxHosts, MaxFaults \* bounds on edits, Host changes and stops

Values == Bytes \union {Absent}
Roots == [Paths -> Values]
ChangeSets == UNION {[S -> Values] : S \in SUBSET Paths}
Meanings == {Meaning[v] : v \in Values}
Revisions == [Paths -> Meanings]

ASSUME NobodyAssumption == Nobody \notin Clients
ASSUME AbsentAssumption == Absent \notin Bytes
ASSUME ChoicesAssumption == Choices \in Paths
ASSUME RequestsAssumption == Requests \union Markers \subseteq ChangeSets
ASSUME InitAssumption == InitBytes \in Roots /\ InitHost \in Hosts
ASSUME HostAssumption ==
  /\ Resolves \in [Hosts -> SUBSET Revisions]
  /\ Materialized \in [Hosts -> Bytes]
ASSUME BoundAssumption ==
  /\ {MaxEdits, MaxHosts, MaxFaults} \subseteq Nat
  /\ {RacingEdits, RacingHost} \subseteq BOOLEAN

VARIABLES
  bytes,     \* the bytes of every path below plugins/
  host,      \* the Host catalog file
  holder,    \* the client holding the exclusive lock
  pc,        \* where each client is
  expected,  \* the revision each client has inspected
  request,   \* the change set it asks for
  proposal,  \* the proposal it reviews
  loaded,    \* the Host catalog its command has read
  seen,      \* the revision its command has read
  edits, hosts, faults \* how many edits, Host changes and stops there were

world == <<bytes, host>>
counts == <<edits, hosts, faults>>
clientVars == <<expected, request, proposal, loaded, seen>>
vars == <<bytes, host, holder, pc, expected, request, proposal, loaded, seen,
          edits, hosts, faults>>

NoRevision == [p \in {} |-> Absent]
NoChange == [p \in {} |-> Absent]
NoProposal == [ready |-> FALSE]

\* revision_for_snapshot of a root with the bytes b.
Revision(b) == [p \in Paths |-> Meaning[b[p]]]

\* Mutant: a source is compared by what it means.
ParsedSources(b, c) == [p \in DOMAIN c |-> Meaning[b[p]]]

\* source_digests_for_changes: the bytes at the paths of c.
Sources(b, c) == [p \in DOMAIN c |-> b[p]]

\* The files a change set writes: the Host fills in the dependency selections.
Written(h, c) ==
  [p \in DOMAIN c |-> IF p = Choices /\ c[p] # Absent THEN Materialized[h] ELSE c[p]]

\* The revision of a root with revision s once the files f are written.
Candidate(s, f) ==
  [p \in Paths |-> IF p \in DOMAIN f THEN Meaning[f[p]] ELSE s[p]]

\* build_root_change_proposal with the Host h and revision s read before, and
\* the Host file d and bytes b read now.
Build(h, s, d, b, c) ==
  LET files == Written(h, c)
  IN [base |-> s, host |-> d, sources |-> Sources(b, c), changes |-> c,
      files |-> files, candidate |-> Candidate(s, files),
      ready |-> Candidate(s, files) \in Resolves[h]]

\* The digest of a proposal covers everything but its status.
SameDigest(p, q) ==
  \A part \in {"base", "host", "sources", "changes", "files", "candidate"} :
    p[part] = q[part]

Init ==
  /\ bytes = InitBytes
  /\ host = InitHost
  /\ holder = Nobody
  /\ pc = [c \in Clients |-> "idle"]
  /\ expected = [c \in Clients |-> NoRevision]
  /\ request = [c \in Clients |-> NoChange]
  /\ proposal = [c \in Clients |-> NoProposal]
  /\ loaded = [c \in Clients |-> InitHost]
  /\ seen = [c \in Clients |-> NoRevision]
  /\ edits = 0 /\ hosts = 0 /\ faults = 0

----------------------------------------------------------------------------
Goto(c, there) == pc' = [pc EXCEPT ![c] = there]

\* The command of c returns, with a result or an error; the lock goes with it.
Return(c, there) ==
  /\ Goto(c, there)
  /\ holder' = IF holder = c THEN Nobody ELSE holder
  /\ loaded' = [loaded EXCEPT ![c] = InitHost]
  /\ seen' = [seen EXCEPT ![c] = NoRevision]

\* After any error a client keeps what it has: the proposal can be tried again.
Fail(c) ==
  /\ Return(c, IF proposal[c] = NoProposal THEN "idle" ELSE "reviewing")
  /\ request' = [request EXCEPT ![c] = NoChange]
  /\ UNCHANGED <<world, expected, proposal, counts>>

\* inspect_plugin_root under the shared lock: the client starts over.
Inspect(c) ==
  /\ pc[c] \in {"idle", "reviewing"}
  /\ holder = Nobody
  /\ Revision(bytes) \in Resolves[host]
  /\ expected' = [expected EXCEPT ![c] = Revision(bytes)]
  /\ proposal' = [proposal EXCEPT ![c] = NoProposal]
  /\ Goto(c, "idle")
  /\ UNCHANGED <<world, holder, request, loaded, seen, counts>>

\* Mutant: the lock is advisory and nobody waits for it.
LockAnyway(c, there) ==
  /\ holder' = c
  /\ loaded' = [loaded EXCEPT ![c] = host]
  /\ Goto(c, there)

\* lock_plugin_root, then load_host_catalog.
LockAndLoad(c, there) ==
  /\ holder = Nobody
  /\ holder' = c
  /\ loaded' = [loaded EXCEPT ![c] = host]
  /\ Goto(c, there)

----------------------------------------------------------------------------
\* propose_plugin_root_changes and propose_instance_configuration.

StartProposal(c, r) ==
  /\ pc[c] = "idle"
  /\ expected[c] # NoRevision
  /\ LockAndLoad(c, "proposing")
  /\ request' = [request EXCEPT ![c] = r]
  /\ UNCHANGED <<world, expected, proposal, seen, counts>>

ProposeFor(c) ==
  /\ pc[c] = "proposing"
  /\ Revision(bytes) = expected[c]
  /\ seen' = [seen EXCEPT ![c] = Revision(bytes)]
  /\ Goto(c, "building")
  /\ UNCHANGED <<world, holder, expected, request, proposal, loaded, counts>>

\* The proposal is returned whether it is ready or not.
Propose(c) ==
  /\ pc[c] = "building"
  /\ proposal' = [proposal EXCEPT
       ![c] = Build(loaded[c], seen[c], host, bytes, request[c])]
  /\ request' = [request EXCEPT ![c] = NoChange]
  /\ Return(c, "reviewing")
  /\ UNCHANGED <<world, expected, counts>>

----------------------------------------------------------------------------
\* publish_instance_configuration checks revision and source, under the shared
\* lock, before it publishes; publish_plugin_root_changes checks everything.

Precheck(c) ==
  /\ pc[c] = "reviewing"
  /\ holder = Nobody
  /\ Revision(bytes) = proposal[c].base
  /\ Sources(bytes, proposal[c].changes) = proposal[c].sources
  /\ Goto(c, "prechecked")
  /\ UNCHANGED <<world, holder, clientVars, counts>>

StartPublication(c) ==
  /\ pc[c] \in {"reviewing", "prechecked"}
  /\ LockAndLoad(c, "publishing")
  /\ UNCHANGED <<world, expected, request, proposal, seen, counts>>

PublishFor(c) ==
  /\ pc[c] = "publishing"
  /\ Revision(bytes) = proposal[c].base
  /\ seen' = [seen EXCEPT ![c] = Revision(bytes)]
  /\ Goto(c, "snapped")
  /\ UNCHANGED <<world, holder, expected, request, proposal, loaded, counts>>

\* The Host file and the source files are what they were at the review.
Unchanged(c) ==
  /\ host = proposal[c].host
  /\ Sources(bytes, proposal[c].changes) = proposal[c].sources

Fence(c) ==
  /\ pc[c] = "snapped"
  /\ Unchanged(c)
  /\ Goto(c, "fenced")
  /\ UNCHANGED <<world, holder, clientVars, counts>>

\* Mutant: the rebuilt proposal is compared but its status is not looked at.
StillReviewed(c) ==
  SameDigest(proposal[c],
    Build(loaded[c], seen[c], host, bytes, proposal[c].changes))

\* The proposal is built once more: it has the same digest and is ready.
StillReady(c) ==
  LET verified == Build(loaded[c], seen[c], host, bytes, proposal[c].changes)
  IN SameDigest(proposal[c], verified) /\ verified.ready

Rebuild(c) ==
  /\ pc[c] = "fenced"
  /\ StillReady(c)
  /\ Goto(c, "rebuilt")
  /\ UNCHANGED <<world, holder, clientVars, counts>>

\* Mutant: the dependency selections of the reviewer, not the Host's.
WriteRequested(c) ==
  /\ pc[c] = "rebuilt"
  /\ bytes' = [p \in Paths |-> IF p \in DOMAIN proposal[c].changes
                               THEN proposal[c].changes[p] ELSE bytes[p]]
  /\ Goto(c, "written")
  /\ UNCHANGED <<host, holder, clientVars, counts>>

\* publish_root_files.
Write(c) ==
  /\ pc[c] = "rebuilt"
  /\ bytes' = [p \in Paths |-> IF p \in DOMAIN proposal[c].files
                               THEN proposal[c].files[p] ELSE bytes[p]]
  /\ Goto(c, "written")
  /\ UNCHANGED <<host, holder, clientVars, counts>>

\* The root is read back: it has the reviewed revision and resolves.
Confirmed(c) ==
  /\ Revision(bytes) = proposal[c].candidate
  /\ Revision(bytes) \in Resolves[loaded[c]]

Confirm(c) ==
  /\ pc[c] = "written"
  /\ Confirmed(c)
  /\ expected' = [expected EXCEPT ![c] = proposal[c].candidate]
  /\ proposal' = [proposal EXCEPT ![c] = NoProposal]
  /\ Return(c, "idle")
  /\ UNCHANGED <<world, request, counts>>

----------------------------------------------------------------------------
\* set_instance_disabled_inner, with or without an expected revision.

StartSelection(c, m) ==
  /\ pc[c] = "idle"
  /\ LockAndLoad(c, "selecting")
  /\ request' = [request EXCEPT ![c] = m]
  /\ UNCHANGED <<world, expected, proposal, seen, counts>>

\* The root is the expected one, an instance to enable is disabled, and the Host
\* resolves the candidate.
Selectable(c) ==
  /\ expected[c] # NoRevision => Revision(bytes) = expected[c]
  /\ \A p \in DOMAIN request[c] : request[c][p] = Absent => bytes[p] # Absent
  /\ Candidate(Revision(bytes), request[c]) \in Resolves[loaded[c]]

SelectFor(c) ==
  /\ pc[c] = "selecting"
  /\ Selectable(c)
  /\ seen' = [seen EXCEPT ![c] = Revision(bytes)]
  /\ Goto(c, "selected")
  /\ UNCHANGED <<world, holder, expected, request, proposal, loaded, counts>>

\* The marker is written; the revision returned was computed before.
Select(c) ==
  /\ pc[c] = "selected"
  /\ bytes' = [p \in Paths |-> IF p \in DOMAIN request[c]
                               THEN request[c][p] ELSE bytes[p]]
  /\ expected' = [expected EXCEPT ![c] = Candidate(seen[c], request[c])]
  /\ request' = [request EXCEPT ![c] = NoChange]
  /\ Return(c, "idle")
  /\ UNCHANGED <<host, proposal, counts>>

----------------------------------------------------------------------------
Locked == {"proposing", "building", "publishing", "snapped", "fenced",
           "rebuilt", "written", "selecting", "selected"}

\* A check that fails ends the command with an error.
Refuse(c) ==
  /\ \/ pc[c] = "proposing" /\ Revision(bytes) # expected[c]
     \/ pc[c] = "publishing" /\ Revision(bytes) # proposal[c].base
     \/ pc[c] = "snapped" /\ ~Unchanged(c)
     \/ pc[c] = "fenced" /\ ~StillReady(c)
     \/ pc[c] = "written" /\ ~Confirmed(c)
     \/ pc[c] = "selecting" /\ ~Selectable(c)
  /\ Fail(c)

\* A file operation fails, or the process stops; what was written stays.
Stop(c) ==
  /\ pc[c] \in Locked
  /\ faults < MaxFaults
  /\ faults' = faults + 1
  /\ Return(c, IF proposal[c] = NoProposal THEN "idle" ELSE "reviewing")
  /\ request' = [request EXCEPT ![c] = NoChange]
  /\ UNCHANGED <<world, expected, proposal, edits, hosts>>

Quiet == holder = Nobody

\* A person, who takes no lock, saves a file.
ManualEdit(p) ==
  /\ edits < MaxEdits
  /\ RacingEdits \/ Quiet
  /\ \E v \in Values \ {bytes[p]} : bytes' = [bytes EXCEPT ![p] = v]
  /\ edits' = edits + 1
  /\ UNCHANGED <<host, holder, pc, clientVars, hosts, faults>>

\* Another Host build is installed; no lock is taken.
ReplaceHost(h) ==
  /\ hosts < MaxHosts
  /\ RacingHost \/ Quiet
  /\ h # host
  /\ host' = h
  /\ hosts' = hosts + 1
  /\ UNCHANGED <<bytes, holder, pc, clientVars, edits, faults>>

Next ==
  \/ \E c \in Clients :
       \/ Inspect(c)
       \/ \E r \in Requests : StartProposal(c, r)
       \/ \E m \in Markers : StartSelection(c, m)
       \/ ProposeFor(c) \/ Propose(c)
       \/ Precheck(c) \/ StartPublication(c)
       \/ PublishFor(c) \/ Fence(c) \/ Rebuild(c) \/ Write(c) \/ Confirm(c)
       \/ SelectFor(c) \/ Select(c)
       \/ Refuse(c) \/ Stop(c)
  \/ \E p \in Paths : ManualEdit(p)
  \/ \E h \in Hosts : ReplaceHost(h)

Spec == Init /\ [][Next]_vars

----------------------------------------------------------------------------
Proposals == {NoProposal} \union
  [base : Revisions, host : Hosts, sources : ChangeSets, changes : ChangeSets,
   files : ChangeSets, candidate : Revisions, ready : BOOLEAN]

\* Every variable has its type.
TypeOK ==
  /\ bytes \in Roots
  /\ host \in Hosts
  /\ holder \in Clients \union {Nobody}
  /\ pc \in [Clients -> Locked \union {"idle", "reviewing", "prechecked"}]
  /\ expected \in [Clients -> Revisions \union {NoRevision}]
  /\ request \in [Clients -> ChangeSets]
  /\ proposal \in [Clients -> Proposals]
  /\ loaded \in [Clients -> Hosts]
  /\ seen \in [Clients -> Revisions \union {NoRevision}]
  /\ edits \in 0..MaxEdits /\ hosts \in 0..MaxHosts /\ faults \in 0..MaxFaults

\* c's step changes files of the root.
Writes(c) == (pc[c] = "rebuilt" /\ pc'[c] = "written") \/ (pc[c] = "selected" /\ bytes' # bytes)

\* A reviewed change is published only onto the root it was reviewed for: not a
\* single path means anything else than at the review, and the bytes it replaces
\* are the reviewed ones.  No second proposal for the same root, no retry of a
\* publication that succeeded, and no selection in between gets lost
\* (publish_plugin_root_changes).
PublishedOntoReviewedRoot ==
  [][\A c \in Clients :
       (pc[c] = "rebuilt" /\ pc'[c] = "written") =>
         /\ Revision(bytes) = proposal[c].base
         /\ \A p \in DOMAIN proposal[c].changes : bytes[p] = proposal[c].sources[p]]_vars

\* Unless files are edited under the command, reading the root back never finds
\* anything but the reviewed candidate: no publication is committed and then
\* reported as an error (publish_plugin_root_changes).
CommittedIsConfirmed == \A c \in Clients : pc[c] = "written" => Confirmed(c)

\* The root a command leaves resolves under the Host installed at that moment,
\* the one a published proposal was reviewed for.
ResolvesUnderReviewedHost ==
  [][\A c \in Clients :
       Writes(c) => /\ Revision(bytes') \in Resolves[host]
                    /\ pc[c] = "rebuilt" => host = proposal[c].host]_vars

\* An expected revision that is still current when a fenced command commits is
\* current because nothing happened, or everything was undone: a selection is
\* never applied to a root its client has not seen.
SelectedForSeenRoot ==
  [][\A c \in Clients :
       (pc[c] = "selected" /\ pc'[c] = "idle" /\ faults' = faults) =>
         Revision(bytes) = seen[c] /\ Revision(bytes') = expected'[c]]_vars
=============================================================================
