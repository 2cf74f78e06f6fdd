-------------------------- MODULE Authoring_proofs --------------------------
(***************************************************************************)
(* Theorems about the commands of Authoring and RootAuthority, for all     *)
(* clients, paths, byte strings, change sets, Bundles, contracts and Hosts,*)
(* and any number of commands that fail or are stopped.                    *)
(***************************************************************************)
EXTENDS Authoring, TLAPS

\* People and installers wait until no command runs.
NothingRaces == RacingEdits = FALSE /\ RacingHost = FALSE

Reviewing == {"reviewing", "prechecked", "publishing", "snapped", "fenced", "rebuilt", "written"}
Seeing == {"building", "snapped", "fenced", "rebuilt", "written", "selected"}

\* Who reviews has a proposal, and a command that goes on has read the root.
ProgressInv ==
  \A c \in Clients :
    /\ pc[c] \in Reviewing => proposal[c] # NoProposal
    /\ pc[c] \in Seeing => seen[c] \in Revisions

\* The lock belongs to the one command that runs, which has the present Host.
LockInv ==
  \A c \in Clients :
    /\ pc[c] \in Locked <=> holder = c
    /\ pc[c] \in Locked => loaded[c] = host

\* What the command of c has established under the lock stays true until it writes,
\* and what it has written is what was reviewed.
Fenced(c) ==
  /\ pc[c] \in {"snapped", "fenced", "rebuilt"} =>
       Revision(bytes) = proposal[c].base /\ seen[c] = Revision(bytes)
  /\ pc[c] \in {"fenced", "rebuilt"} => Unchanged(c)
  /\ pc[c] = "rebuilt" => StillReady(c)
  /\ pc[c] = "written" => Confirmed(c)
  /\ pc[c] = "selected" => Selectable(c) /\ seen[c] = Revision(bytes)

AuthorityInv == LockInv /\ \A c \in Clients : Fenced(c)

----------------------------------------------------------------------------
(* Revisions, change sets and proposals.                                   *)

LEMMA ChangeSetElim ==
  ASSUME NEW f \in ChangeSets
  PROVE  DOMAIN f \subseteq Paths /\ \A p \in DOMAIN f : f[p] \in Values
<1>1. PICK S \in SUBSET Paths : f \in [S -> Values]
  BY DEF ChangeSets
<1> QED
  BY <1>1

LEMMA ChangeSetIntro ==
  ASSUME NEW S \in SUBSET Paths, NEW f \in [S -> Values]
  PROVE  f \in ChangeSets
BY DEF ChangeSets

LEMMA NoChangeType == NoChange \in ChangeSets
<1>1. NoChange \in [{} -> Values]
  BY DEF NoChange
<1> QED
  BY <1>1, ChangeSetIntro

LEMMA RevisionType ==
  ASSUME NEW b \in Roots
  PROVE  Revision(b) \in Revisions
BY DEF Roots, Revision, Revisions, Meanings

LEMMA CandidateType ==
  ASSUME NEW s \in Revisions, NEW f \in ChangeSets
  PROVE  Candidate(s, f) \in Revisions
<1>1. \A p \in DOMAIN f : Meaning[f[p]] \in Meanings
  BY ChangeSetElim DEF Meanings
<1> QED
  BY <1>1 DEF Candidate, Revisions

\* Reading a root back gives the candidate that was computed before it was written.
LEMMA CandidateIsWritten ==
  ASSUME NEW b \in Roots, NEW f \in ChangeSets
  PROVE  LET after == [p \in Paths |-> IF p \in DOMAIN f THEN f[p] ELSE b[p]]
         IN after \in Roots /\ Revision(after) = Candidate(Revision(b), f)
<1> DEFINE after == [p \in Paths |-> IF p \in DOMAIN f THEN f[p] ELSE b[p]]
<1>1. \A p \in DOMAIN f : f[p] \in Values
  BY ChangeSetElim
<1>2. after \in Roots
  BY <1>1 DEF Roots
<1>3. \A p \in Paths : Meaning[after[p]] = IF p \in DOMAIN f THEN Meaning[f[p]] ELSE Meaning[b[p]]
  OBVIOUS
<1>4. Revision(after) = Candidate(Revision(b), f)
  BY <1>3 DEF Revision, Candidate
<1> QED
  BY <1>2, <1>4

LEMMA BuildType ==
  ASSUME NEW h \in Hosts, NEW s \in Revisions, NEW d \in Hosts, NEW b \in Roots,
         NEW c \in ChangeSets
  PROVE  /\ Build(h, s, d, b, c) \in Proposals
         /\ Build(h, s, d, b, c) # NoProposal
<1>1. DOMAIN c \in SUBSET Paths /\ \A p \in DOMAIN c : c[p] \in Values
  BY ChangeSetElim
<1>2. Sources(b, c) \in ChangeSets
  <2>1. Sources(b, c) \in [DOMAIN c -> Values]
    BY <1>1 DEF Sources, Roots
  <2> QED
    BY <1>1, <2>1, ChangeSetIntro
<1>3. Written(h, c) \in ChangeSets
  <2>1. Written(h, c) \in [DOMAIN c -> Values]
    BY <1>1, HostAssumption DEF Written, Values
  <2> QED
    BY <1>1, <2>1, ChangeSetIntro
<1>4. Candidate(s, Written(h, c)) \in Revisions
  BY <1>3, CandidateType
<1>5. (Candidate(s, Written(h, c)) \in Resolves[h]) \in BOOLEAN
  OBVIOUS
<1>6. Build(h, s, d, b, c).base = s
  BY DEF Build
<1>7. Build(h, s, d, b, c) # NoProposal
  BY DEF Build, NoProposal
<1> QED
  BY <1>2, <1>3, <1>4, <1>5, <1>7 DEF Build, Proposals

\* A command returns: the lock goes with it.
LEMMA ReturnTypes ==
  ASSUME TypeOK, NEW c \in Clients, NEW there \in {"idle", "reviewing"}, Return(c, there)
  PROVE  /\ pc' = [pc EXCEPT ![c] = there]
         /\ pc' \in [Clients -> Locked \union {"idle", "reviewing", "prechecked"}]
         /\ holder' \in Clients \union {Nobody}
         /\ loaded' \in [Clients -> Hosts]
         /\ seen' \in [Clients -> Revisions \union {NoRevision}]
BY InitAssumption DEF TypeOK, Return, Goto

LEMMA InitAuthority == Init => TypeOK /\ ProgressInv /\ AuthorityInv
<1> SUFFICES ASSUME Init PROVE TypeOK /\ ProgressInv /\ AuthorityInv
  OBVIOUS
<1>1. 0 \in 0..MaxEdits /\ 0 \in 0..MaxHosts /\ 0 \in 0..MaxFaults
  BY BoundAssumption
<1>2. NoChange \in ChangeSets
  BY NoChangeType
<1>3. TypeOK
  BY <1>1, <1>2, InitAssumption DEF Init, TypeOK, Proposals
<1>4. ProgressInv /\ AuthorityInv
  BY NobodyAssumption DEF Init, ProgressInv, AuthorityInv, LockInv, Fenced,
     Reviewing, Seeing, Locked
<1> QED
  BY <1>3, <1>4

----------------------------------------------------------------------------
(* Types and progress, whoever races with a command.                       *)

LEMMA ClientTypes ==
  ASSUME TypeOK, ProgressInv, NEW c \in Clients,
         \/ Inspect(c)
         \/ \E r \in Requests : StartProposal(c, r)
         \/ \E m \in Markers : StartSelection(c, m)
         \/ ProposeFor(c) \/ Propose(c)
         \/ Precheck(c) \/ StartPublication(c)
         \/ PublishFor(c) \/ Fence(c) \/ Rebuild(c) \/ Write(c) \/ Confirm(c)
         \/ SelectFor(c) \/ Select(c)
         \/ Refuse(c) \/ Stop(c)
  PROVE  TypeOK' /\ ProgressInv'
<1> USE DEF TypeOK, ProgressInv, Goto, LockAndLoad, world, counts, clientVars
<1>1. Revision(bytes) \in Revisions
  BY RevisionType
<1>2. NoChange \in ChangeSets
  BY NoChangeType
<1>3. CASE Inspect(c)
  BY <1>1, <1>3 DEF Inspect, Reviewing, Seeing, Proposals
<1>4. CASE (\E r \in Requests : StartProposal(c, r)) \/ (\E m \in Markers : StartSelection(c, m))
  BY <1>4, RequestsAssumption DEF StartProposal, StartSelection, Locked, Reviewing, Seeing
<1>5. CASE ProposeFor(c)
  BY <1>1, <1>5 DEF ProposeFor, Locked, Reviewing, Seeing
<1>6. CASE Propose(c)
  <2>1. seen[c] \in Revisions
    BY <1>6 DEF Propose, Seeing
  <2>2. /\ Build(loaded[c], seen[c], host, bytes, request[c]) \in Proposals
        /\ Build(loaded[c], seen[c], host, bytes, request[c]) # NoProposal
    BY <2>1, BuildType
  <2>3. Return(c, "reviewing")
    BY <1>6 DEF Propose
  <2>4. TypeOK'
    BY <1>2, <1>6, <2>2, <2>3, ReturnTypes DEF Propose
  <2>5. ProgressInv'
    BY <1>6, <2>2, <2>3, ReturnTypes DEF Propose, Return, Reviewing, Seeing
  <2> QED
    BY <2>4, <2>5
<1>7. CASE Precheck(c)
  BY <1>7 DEF Precheck, Reviewing, Seeing
<1>8. CASE StartPublication(c)
  BY <1>8 DEF StartPublication, Locked, Reviewing, Seeing
<1>9. CASE PublishFor(c)
  BY <1>1, <1>9 DEF PublishFor, Locked, Reviewing, Seeing
<1>10. CASE Fence(c) \/ Rebuild(c)
  BY <1>10 DEF Fence, Rebuild, Locked, Reviewing, Seeing
<1>11. CASE Write(c)
  <2>1. proposal[c] # NoProposal
    BY <1>11 DEF Write, Reviewing
  <2>2. proposal[c].files \in ChangeSets
    BY <2>1 DEF Proposals
  <2>3. bytes' \in Roots
    BY <1>11, <2>2, CandidateIsWritten DEF Write
  <2> QED
    BY <1>11, <2>3 DEF Write, Locked, Reviewing, Seeing
<1>12. CASE Confirm(c)
  <2>1. proposal[c] # NoProposal
    BY <1>12 DEF Confirm, Reviewing
  <2>2. proposal[c].candidate \in Revisions
    BY <2>1 DEF Proposals
  <2>3. Return(c, "idle") /\ NoProposal \in Proposals
    BY <1>12 DEF Confirm, Proposals
  <2>4. TypeOK'
    BY <1>12, <2>2, <2>3, ReturnTypes DEF Confirm
  <2>5. ProgressInv'
    BY <1>12, <2>3, ReturnTypes DEF Confirm, Return, Reviewing, Seeing
  <2> QED
    BY <2>4, <2>5
<1>13. CASE SelectFor(c)
  BY <1>1, <1>13 DEF SelectFor, Locked, Reviewing, Seeing
<1>14. CASE Select(c)
  <2>1. seen[c] \in Revisions
    BY <1>14 DEF Select, Seeing
  <2>2. Candidate(seen[c], request[c]) \in Revisions
    BY <2>1, CandidateType
  <2>3. bytes' \in Roots
    BY <1>14, CandidateIsWritten DEF Select
  <2>4. Return(c, "idle")
    BY <1>14 DEF Select
  <2>5. TypeOK'
    BY <1>2, <1>14, <2>2, <2>3, <2>4, ReturnTypes DEF Select
  <2>6. ProgressInv'
    BY <1>14, <2>4, ReturnTypes DEF Select, Return, Reviewing, Seeing
  <2> QED
    BY <2>5, <2>6
<1>15. CASE Refuse(c) \/ Stop(c)
  <2>1. PICK there \in {"idle", "reviewing"} :
          Return(c, there) /\ (there = "reviewing" => proposal[c] # NoProposal)
    BY <1>15 DEF Refuse, Fail, Stop
  <2>2. /\ request' = [request EXCEPT ![c] = NoChange]
        /\ UNCHANGED <<bytes, host, expected, proposal, edits, hosts>>
        /\ faults' \in 0..MaxFaults
    BY <1>15, BoundAssumption DEF Refuse, Fail, Stop
  <2>3. TypeOK'
    BY <1>2, <2>1, <2>2, ReturnTypes
  <2>4. ProgressInv'
    BY <2>1, <2>2, ReturnTypes DEF Return, Reviewing, Seeing
  <2> QED
    BY <2>3, <2>4
<1> QED
  BY <1>3, <1>4, <1>5, <1>6, <1>7, <1>8, <1>9, <1>10, <1>11, <1>12, <1>13, <1>14, <1>15

LEMMA TypesKeep == TypeOK /\ ProgressInv /\ [Next]_vars => TypeOK' /\ ProgressInv'
<1> SUFFICES ASSUME TypeOK, ProgressInv, [Next]_vars PROVE TypeOK' /\ ProgressInv'
  OBVIOUS
<1>1. ASSUME NEW p \in Paths, ManualEdit(p)
      PROVE  TypeOK' /\ ProgressInv'
  <2>1. bytes' \in Roots
    BY <1>1 DEF ManualEdit, TypeOK, Roots
  <2>2. edits' \in 0..MaxEdits
    BY <1>1, BoundAssumption DEF ManualEdit, TypeOK
  <2> QED
    BY <1>1, <2>1, <2>2 DEF ManualEdit, TypeOK, ProgressInv, clientVars
<1>2. ASSUME NEW h \in Hosts, ReplaceHost(h)
      PROVE  TypeOK' /\ ProgressInv'
  <2>1. hosts' \in 0..MaxHosts
    BY <1>2, BoundAssumption DEF ReplaceHost, TypeOK
  <2> QED
    BY <1>2, <2>1 DEF ReplaceHost, TypeOK, ProgressInv, clientVars
<1>3. CASE UNCHANGED vars
  BY <1>3 DEF vars, TypeOK, ProgressInv
<1> QED
  BY <1>1, <1>2, <1>3, ClientTypes DEF Next

LEMMA TypesCorrect == Spec => [](TypeOK /\ ProgressInv)
BY InitAuthority, TypesKeep, PTL DEF Spec

----------------------------------------------------------------------------
(* Under the lock.                                                         *)

\* Others have established nothing, or nothing that they rely on changes.
LEMMA OthersStayFenced ==
  ASSUME AuthorityInv, NEW d \in Clients,
         pc'[d] = pc[d],
         \/ d # holder
         \/ UNCHANGED <<bytes, host, loaded[d], seen[d], proposal[d], request[d], expected[d]>>
  PROVE  Fenced(d)'
<1>1. CASE d # holder
  BY <1>1 DEF AuthorityInv, LockInv, Fenced, Locked
<1>2. CASE UNCHANGED <<bytes, host, loaded[d], seen[d], proposal[d], request[d], expected[d]>>
  BY <1>2 DEF AuthorityInv, Fenced, Unchanged, StillReady, Confirmed, Selectable
<1> QED
  BY <1>1, <1>2

\* Inspections and commands that begin.
LEMMA BeginKeeps ==
  ASSUME TypeOK, AuthorityInv, NEW c \in Clients,
         \/ Inspect(c) \/ Precheck(c) \/ StartPublication(c)
         \/ \E r \in Requests : StartProposal(c, r)
         \/ \E m \in Markers : StartSelection(c, m)
  PROVE  AuthorityInv'
<1>1. holder = Nobody /\ UNCHANGED <<bytes, host>>
  BY DEF Inspect, Precheck, StartPublication, StartProposal, StartSelection, LockAndLoad, world
<1>2. \A d \in Clients : d # holder
  BY <1>1, NobodyAssumption
<1>3. CASE Inspect(c) \/ Precheck(c)
  <2>1. PICK there \in {"idle", "prechecked"} : pc' = [pc EXCEPT ![c] = there]
    BY <1>3 DEF Inspect, Precheck, Goto
  <2>2. UNCHANGED <<holder, loaded>>
    BY <1>3 DEF Inspect, Precheck, clientVars
  <2>3. LockInv'
    BY <1>1, <1>2, <2>1, <2>2 DEF AuthorityInv, LockInv, TypeOK, Locked
  <2>4. Fenced(c)'
    BY <2>1 DEF Fenced, TypeOK
  <2>5. \A d \in Clients \ {c} : Fenced(d)'
    BY <1>2, <2>1, OthersStayFenced DEF TypeOK
  <2> QED
    BY <2>3, <2>4, <2>5 DEF AuthorityInv
<1>4. CASE ~(Inspect(c) \/ Precheck(c))
  <2>1. PICK there \in {"publishing", "proposing", "selecting"} : LockAndLoad(c, there)
    BY <1>4 DEF StartPublication, StartProposal, StartSelection
  <2>2. /\ pc' = [pc EXCEPT ![c] = there] /\ holder' = c
        /\ loaded' = [loaded EXCEPT ![c] = host]
    BY <2>1 DEF LockAndLoad, Goto
  <2>3. LockInv'
    BY <1>1, <1>2, <2>2 DEF AuthorityInv, LockInv, TypeOK, Locked
  <2>4. Fenced(c)'
    BY <2>2 DEF Fenced, TypeOK
  <2>5. \A d \in Clients \ {c} : Fenced(d)'
    BY <1>2, <2>2, OthersStayFenced DEF TypeOK
  <2> QED
    BY <2>3, <2>4, <2>5 DEF AuthorityInv
<1> QED
  BY <1>3, <1>4

\* A command goes on: each check holds of the root it will write.
LEMMA CheckKeeps ==
  ASSUME TypeOK, AuthorityInv, NEW c \in Clients,
         ProposeFor(c) \/ PublishFor(c) \/ Fence(c) \/ Rebuild(c) \/ SelectFor(c)
  PROVE  AuthorityInv'
<1>1. /\ UNCHANGED <<bytes, host, holder, loaded, expected, request, proposal>>
      /\ pc[c] \in Locked
    BY DEF ProposeFor, PublishFor, Fence, Rebuild, SelectFor, world, clientVars, Locked
<1>2. PICK there \in {"building", "snapped", "fenced", "rebuilt", "selected"} :
        pc' = [pc EXCEPT ![c] = there]
  BY DEF ProposeFor, PublishFor, Fence, Rebuild, SelectFor, Goto
<1>3. holder = c
  BY <1>1 DEF AuthorityInv, LockInv
<1>4. LockInv'
  BY <1>1, <1>2, <1>3 DEF AuthorityInv, LockInv, TypeOK, Locked
<1>5. \A d \in Clients \ {c} : Fenced(d)'
  BY <1>2, <1>3, OthersStayFenced DEF TypeOK
<1>6. Fenced(c)'
  <2>1. CASE ProposeFor(c)
    BY <2>1 DEF ProposeFor, Goto, Fenced, TypeOK
  <2>2. CASE PublishFor(c)
    BY <1>1, <2>2 DEF PublishFor, Goto, Fenced, TypeOK
  <2>3. CASE Fence(c)
    BY <1>1, <2>3 DEF Fence, Goto, Fenced, Unchanged, AuthorityInv, TypeOK, clientVars
  <2>4. CASE Rebuild(c)
    BY <1>1, <2>4 DEF Rebuild, Goto, Fenced, Unchanged, StillReady, AuthorityInv, TypeOK, clientVars
  <2>5. CASE SelectFor(c)
    BY <1>1, <2>5 DEF SelectFor, Goto, Fenced, Selectable, TypeOK
  <2> QED
    BY <2>1, <2>2, <2>3, <2>4, <2>5
<1> QED
  BY <1>4, <1>5, <1>6 DEF AuthorityInv

\* What Write makes of the root is what the proposal promised, under the Host it was
\* reviewed for.
LEMMA WriteIsReviewed ==
  ASSUME TypeOK, ProgressInv, AuthorityInv, NEW c \in Clients, Write(c)
  PROVE  /\ Revision(bytes') = proposal[c].candidate
         /\ Revision(bytes') \in Resolves[host]
         /\ host = proposal[c].host
         /\ loaded[c] = host
         /\ Revision(bytes) = proposal[c].base
         /\ Sources(bytes, proposal[c].changes) = proposal[c].sources
<1>1. /\ pc[c] = "rebuilt" /\ StillReady(c) /\ Unchanged(c) /\ loaded[c] = host
      /\ Revision(bytes) = proposal[c].base /\ seen[c] = Revision(bytes)
  BY DEF Write, AuthorityInv, LockInv, Fenced, Locked
<1>2. proposal[c] # NoProposal
  BY <1>1 DEF ProgressInv, Reviewing
<1>3. proposal[c].files \in ChangeSets
  BY <1>2 DEF TypeOK, Proposals
<1>4. bytes' = [p \in Paths |-> IF p \in DOMAIN proposal[c].files
                                THEN proposal[c].files[p] ELSE bytes[p]]
  BY DEF Write
<1>5. Revision(bytes') = Candidate(Revision(bytes), proposal[c].files)
  BY <1>3, <1>4, CandidateIsWritten DEF TypeOK
<1> DEFINE verified == Build(loaded[c], seen[c], host, bytes, proposal[c].changes)
<1>6. SameDigest(proposal[c], verified) /\ verified.ready
  BY <1>1 DEF StillReady
<1>7. /\ verified.candidate = Candidate(seen[c], verified.files)
      /\ verified.ready => verified.candidate \in Resolves[loaded[c]]
  BY DEF Build
<1>8. proposal[c].files = verified.files /\ proposal[c].candidate = verified.candidate
  BY <1>6 DEF SameDigest
<1> HIDE DEF verified
<1> QED
  BY <1>1, <1>5, <1>6, <1>7, <1>8 DEF Unchanged

LEMMA WriteKeeps ==
  ASSUME TypeOK, ProgressInv, AuthorityInv, NEW c \in Clients, Write(c)
  PROVE  AuthorityInv'
<1>1. /\ pc[c] = "rebuilt" /\ pc' = [pc EXCEPT ![c] = "written"]
      /\ UNCHANGED <<host, holder, loaded, proposal>>
  BY DEF Write, Goto, clientVars
<1>2. holder = c
  BY <1>1 DEF AuthorityInv, LockInv, Locked
<1>3. LockInv'
  BY <1>1, <1>2 DEF AuthorityInv, LockInv, TypeOK, Locked
<1>4. \A d \in Clients \ {c} : Fenced(d)'
  BY <1>1, <1>2, OthersStayFenced DEF TypeOK
<1>5. Fenced(c)'
  BY <1>1, WriteIsReviewed DEF Fenced, Confirmed, TypeOK
<1> QED
  BY <1>3, <1>4, <1>5 DEF AuthorityInv

\* A command returns, with a result or an error.
LEMMA ReturnKeeps ==
  ASSUME TypeOK, AuthorityInv, NEW c \in Clients,
         Propose(c) \/ Confirm(c) \/ Select(c) \/ Refuse(c) \/ Stop(c)
  PROVE  AuthorityInv'
<1>1. pc[c] \in Locked /\ host' = host
  BY DEF Propose, Confirm, Select, Refuse, Stop, Fail, world, Locked
<1>2. PICK there \in {"idle", "reviewing"} : Return(c, there)
  BY DEF Propose, Confirm, Select, Refuse, Stop, Fail
<1>3. holder = c
  BY <1>1 DEF AuthorityInv, LockInv
<1>4. /\ pc' = [pc EXCEPT ![c] = there] /\ holder' = Nobody
      /\ loaded' = [loaded EXCEPT ![c] = InitHost]
  BY <1>2, <1>3 DEF Return, Goto
<1>5. LockInv'
  BY <1>1, <1>3, <1>4, NobodyAssumption DEF AuthorityInv, LockInv, TypeOK, Locked
<1>6. \A d \in Clients \ {c} : Fenced(d)'
  BY <1>3, <1>4, OthersStayFenced DEF TypeOK
<1>7. Fenced(c)'
  BY <1>4 DEF Fenced, TypeOK
<1> QED
  BY <1>5, <1>6, <1>7 DEF AuthorityInv

LEMMA AuthorityKeeps ==
  ASSUME NothingRaces, TypeOK, ProgressInv, AuthorityInv, [Next]_vars
  PROVE  AuthorityInv'
<1>1. ASSUME (\E p \in Paths : ManualEdit(p)) \/ (\E h \in Hosts : ReplaceHost(h))
      PROVE  AuthorityInv'
  <2>1. holder = Nobody /\ UNCHANGED <<holder, pc, loaded>>
    BY <1>1 DEF ManualEdit, ReplaceHost, Quiet, NothingRaces, clientVars
  <2>2. \A d \in Clients : d # holder
    BY <2>1, NobodyAssumption
  <2>3. LockInv'
    BY <2>1, <2>2 DEF AuthorityInv, LockInv
  <2>4. \A d \in Clients : Fenced(d)'
    BY <2>1, <2>2, OthersStayFenced
  <2> QED
    BY <2>3, <2>4 DEF AuthorityInv
<1>2. CASE UNCHANGED vars
  BY <1>2, OthersStayFenced DEF vars, AuthorityInv, LockInv
<1> QED
  BY <1>1, <1>2, BeginKeeps, CheckKeeps, WriteKeeps, ReturnKeeps DEF Next

LEMMA AuthorityCorrect ==
  ASSUME NothingRaces
  PROVE  Spec => [](TypeOK /\ ProgressInv /\ AuthorityInv)
<1>1. TypeOK /\ ProgressInv /\ AuthorityInv /\ [Next]_vars => AuthorityInv'
  BY AuthorityKeeps
<1> QED
  BY <1>1, InitAuthority, TypesCorrect, PTL DEF Spec

----------------------------------------------------------------------------
(* Theorems.                                                               *)

\* Every variable has its type, whoever edits files or replaces the Host while a
\* command runs.
THEOREM AuthorityTypes == Spec => []TypeOK
BY TypesCorrect, PTL

\* While edits and Host changes wait for commands, no publication is committed and
\* then reported as an error: reading the root back finds the reviewed candidate
\* (publish_plugin_root_changes).
THEOREM CommitsAreConfirmed ==
  ASSUME NothingRaces
  PROVE  Spec => []CommittedIsConfirmed
<1>1. AuthorityInv => CommittedIsConfirmed
  BY DEF AuthorityInv, Fenced, CommittedIsConfirmed
<1> QED
  BY <1>1, AuthorityCorrect, PTL

LEMMA OnlyWriteWrites ==
  ASSUME TypeOK, Next, NEW c \in Clients, pc[c] = "rebuilt", pc'[c] = "written"
  PROVE  Write(c)
<1>1. ASSUME NEW d \in Clients,
             \/ Inspect(d)
             \/ \E r \in Requests : StartProposal(d, r)
             \/ \E m \in Markers : StartSelection(d, m)
             \/ ProposeFor(d) \/ Propose(d)
             \/ Precheck(d) \/ StartPublication(d)
             \/ PublishFor(d) \/ Fence(d) \/ Rebuild(d) \/ Confirm(d)
             \/ SelectFor(d) \/ Select(d)
             \/ Refuse(d) \/ Stop(d)
      PROVE  FALSE
  <2>1. \E there : there # "written" /\ pc' = [pc EXCEPT ![d] = there]
    BY <1>1 DEF Inspect, StartProposal, StartSelection, LockAndLoad, ProposeFor, Propose, Precheck,
       StartPublication, PublishFor, Fence, Rebuild, Confirm, SelectFor, Select, Refuse, Fail, Stop,
       Return, Goto
  <2> QED
    BY <2>1 DEF TypeOK
<1>2. ASSUME NEW d \in Clients, Write(d)
      PROVE  d = c
  BY <1>2 DEF Write, Goto, TypeOK
<1>3. ASSUME (\E p \in Paths : ManualEdit(p)) \/ (\E h \in Hosts : ReplaceHost(h))
      PROVE  FALSE
  BY <1>3 DEF ManualEdit, ReplaceHost
<1> QED
  BY <1>1, <1>2, <1>3 DEF Next

\* A reviewed change is published only onto the root, and onto the very bytes, it was
\* reviewed for, however many clients publish, retry and select in between
\* (publish_plugin_root_changes).
THEOREM PublishesOntoReviewed ==
  ASSUME NothingRaces
  PROVE  Spec => PublishedOntoReviewedRoot
<1>1. TypeOK /\ ProgressInv /\ AuthorityInv /\ [Next]_vars =>
        [\A c \in Clients :
           (pc[c] = "rebuilt" /\ pc'[c] = "written") =>
             /\ Revision(bytes) = proposal[c].base
             /\ \A p \in DOMAIN proposal[c].changes : bytes[p] = proposal[c].sources[p]]_vars
  <2> SUFFICES ASSUME TypeOK, ProgressInv, AuthorityInv, Next, NEW c \in Clients,
                      pc[c] = "rebuilt", pc'[c] = "written"
               PROVE  /\ Revision(bytes) = proposal[c].base
                      /\ \A p \in DOMAIN proposal[c].changes : bytes[p] = proposal[c].sources[p]
    OBVIOUS
  <2>1. Write(c)
    BY OnlyWriteWrites
  <2>2. /\ Revision(bytes) = proposal[c].base
        /\ Sources(bytes, proposal[c].changes) = proposal[c].sources
    BY <2>1, WriteIsReviewed
  <2> QED
    BY <2>2 DEF Sources
<1> QED
  BY <1>1, AuthorityCorrect, PTL DEF Spec, PublishedOntoReviewedRoot

\* The root a command leaves resolves under the Host that is installed then, which is
\* the one a published proposal was reviewed for (publish_plugin_root_changes,
\* set_instance_disabled_inner).
THEOREM ResolvesUnderPresentHost ==
  ASSUME NothingRaces
  PROVE  Spec => ResolvesUnderReviewedHost
<1>1. TypeOK /\ ProgressInv /\ AuthorityInv /\ [Next]_vars =>
        [\A c \in Clients :
           Writes(c) => /\ Revision(bytes') \in Resolves[host]
                        /\ pc[c] = "rebuilt" => host = proposal[c].host]_vars
  <2> SUFFICES ASSUME TypeOK, ProgressInv, AuthorityInv, Next, NEW c \in Clients, Writes(c)
               PROVE  /\ Revision(bytes') \in Resolves[host]
                      /\ pc[c] = "rebuilt" => host = proposal[c].host
    OBVIOUS
  <2>1. CASE pc[c] = "rebuilt" /\ pc'[c] = "written"
    BY <2>1, OnlyWriteWrites, WriteIsReviewed
  <2>2. CASE pc[c] = "selected" /\ bytes' # bytes
    <3>1. holder = c
      BY <2>2 DEF AuthorityInv, LockInv, Locked
    <3>2. Select(c)
      <4>1. ASSUME NEW d \in Clients, Write(d) \/ Select(d)
            PROVE  d = c
        BY <3>1, <4>1 DEF Write, Select, AuthorityInv, LockInv, Locked
      <4>2. ~Write(c)
        BY <2>2 DEF Write
      <4>3. ASSUME (\E p \in Paths : ManualEdit(p)) \/ (\E h \in Hosts : ReplaceHost(h))
            PROVE  FALSE
        BY <2>2, <3>1, <4>3, NobodyAssumption DEF ManualEdit, ReplaceHost, Quiet, NothingRaces
      <4> QED
        BY <2>2, <4>1, <4>2, <4>3 DEF Next, Inspect, StartProposal, StartSelection, ProposeFor,
           Propose, Precheck, StartPublication, PublishFor, Fence, Rebuild, Confirm, SelectFor,
           Refuse, Fail, Stop, world
    <3>3. Selectable(c) /\ loaded[c] = host
      BY <2>2 DEF AuthorityInv, LockInv, Fenced, Locked
    <3>4. Revision(bytes') = Candidate(Revision(bytes), request[c])
      BY <3>2, CandidateIsWritten DEF Select, TypeOK
    <3> QED
      BY <2>2, <3>3, <3>4 DEF Selectable
  <2> QED
    BY <2>1, <2>2 DEF Writes
<1> QED
  BY <1>1, AuthorityCorrect, PTL DEF Spec, ResolvesUnderReviewedHost

----------------------------------------------------------------------------
(* Commands change the root as AtomicRoot says.                            *)

\* The change sets that commands publish: a request whose dependency selections some
\* Host filled in, or a marker.
Published == {Written(h, r) : h \in Hosts, r \in Requests} \union Markers

WholeRoot == INSTANCE AtomicRoot WITH
  root <- bytes, half <- FALSE,
  Files <- Paths, Contents <- Bytes, Changes <- Published, Removals <- {}, Markers <- {},
  Resolvable <- {r \in Roots : \E h \in Hosts : Revision(r) \in Resolves[h]},
  InitRoot <- InitBytes

\* What is reviewed writes a change set that was asked for, and so does what runs.
PublishedInv ==
  \A c \in Clients :
    /\ pc[c] \in {"proposing", "building"} => request[c] \in Requests
    /\ pc[c] \in {"selecting", "selected"} => request[c] \in Markers
    /\ proposal[c] # NoProposal => proposal[c].files \in Published

LEMMA PublishedKeeps ==
  ASSUME TypeOK, PublishedInv, [Next]_vars
  PROVE  PublishedInv'
<1> USE DEF TypeOK, PublishedInv, Goto, LockAndLoad, Return, clientVars
<1>1. ASSUME NEW c \in Clients, NEW r \in Requests, StartProposal(c, r)
      PROVE  PublishedInv'
  BY <1>1 DEF StartProposal
<1>2. ASSUME NEW c \in Clients, NEW m \in Markers, StartSelection(c, m)
      PROVE  PublishedInv'
  BY <1>2 DEF StartSelection
<1>3. ASSUME NEW c \in Clients, Propose(c)
      PROVE  PublishedInv'
  <2> DEFINE built == Build(loaded[c], seen[c], host, bytes, request[c])
  <2>1. built.files = Written(loaded[c], request[c])
    BY DEF Build
  <2>2. request[c] \in Requests /\ loaded[c] \in Hosts
    BY <1>3 DEF Propose
  <2>3. built.files \in Published
    BY <2>1, <2>2 DEF Published
  <2>4. proposal' = [proposal EXCEPT ![c] = built] /\ pc' = [pc EXCEPT ![c] = "reviewing"]
        /\ request' = [request EXCEPT ![c] = NoChange]
    BY <1>3 DEF Propose
  <2> HIDE DEF built
  <2> QED
    BY <2>3, <2>4
<1>4. ASSUME NEW c \in Clients, Inspect(c) \/ Confirm(c)
      PROVE  PublishedInv'
  BY <1>4 DEF Inspect, Confirm
<1>5. ASSUME NEW c \in Clients, Select(c) \/ Refuse(c) \/ Stop(c)
      PROVE  PublishedInv'
  BY <1>5 DEF Select, Refuse, Fail, Stop
<1>6. ASSUME NEW c \in Clients, ProposeFor(c) \/ SelectFor(c)
      PROVE  PublishedInv'
  BY <1>6 DEF ProposeFor, SelectFor
<1>7. ASSUME NEW c \in Clients,
             \/ Precheck(c) \/ StartPublication(c) \/ PublishFor(c)
             \/ Fence(c) \/ Rebuild(c) \/ Write(c)
      PROVE  PublishedInv'
  BY <1>7 DEF Precheck, StartPublication, PublishFor, Fence, Rebuild, Write
<1>8. ASSUME (\E p \in Paths : ManualEdit(p)) \/ (\E h \in Hosts : ReplaceHost(h))
      PROVE  PublishedInv'
  BY <1>8 DEF ManualEdit, ReplaceHost
<1>9. CASE UNCHANGED vars
  BY <1>9 DEF vars
<1> QED
  BY <1>1, <1>2, <1>3, <1>4, <1>5, <1>6, <1>7, <1>8, <1>9 DEF Next

\* A command that replaces the paths of a published change set, to a root that some Host
\* resolves, makes one step of AtomicRoot.
LEMMA WritesWhole ==
  ASSUME TypeOK, NEW f \in Published, UNCHANGED edits,
         bytes' = [p \in Paths |-> IF p \in DOMAIN f THEN f[p] ELSE bytes[p]],
         NEW h \in Hosts, Revision(bytes') \in Resolves[h], bytes' \in Roots
  PROVE  WholeRoot!Next
<1>1. WholeRoot!Update(f)
  BY DEF WholeRoot!Update, WholeRoot!Overlay
<1> QED
  BY <1>1 DEF WholeRoot!Next

LEMMA WholeSteps ==
  ASSUME NothingRaces, TypeOK, TypeOK', ProgressInv, AuthorityInv, PublishedInv, [Next]_vars
  PROVE  [WholeRoot!Next]_<<bytes, FALSE, edits>>
<1>1. ASSUME NEW c \in Clients, Write(c)
      PROVE  WholeRoot!Next
  <2>1. proposal[c].files \in Published
    BY <1>1 DEF Write, ProgressInv, Reviewing, PublishedInv
  <2>2. /\ UNCHANGED edits
        /\ bytes' = [p \in Paths |-> IF p \in DOMAIN proposal[c].files
                                     THEN proposal[c].files[p] ELSE bytes[p]]
    BY <1>1 DEF Write, counts
  <2>3. Revision(bytes') \in Resolves[host]
    BY <1>1, WriteIsReviewed
  <2> QED
    BY <2>1, <2>2, <2>3, WritesWhole DEF TypeOK
<1>2. ASSUME NEW c \in Clients, Select(c)
      PROVE  WholeRoot!Next
  <2>1. pc[c] = "selected" /\ request[c] \in Published
    BY <1>2 DEF Select, PublishedInv, Published
  <2>2. /\ UNCHANGED edits
        /\ bytes' = [p \in Paths |-> IF p \in DOMAIN request[c]
                                     THEN request[c][p] ELSE bytes[p]]
    BY <1>2 DEF Select, counts
  <2>3. Selectable(c) /\ loaded[c] = host
    BY <2>1 DEF AuthorityInv, LockInv, Fenced, Locked
  <2>4. Revision(bytes') = Candidate(Revision(bytes), request[c])
    BY <2>2, CandidateIsWritten DEF TypeOK
  <2>5. Revision(bytes') \in Resolves[host]
    BY <2>3, <2>4 DEF Selectable
  <2> QED
    BY <2>1, <2>2, <2>5, WritesWhole DEF TypeOK
<1>3. ASSUME NEW p \in Paths, ManualEdit(p)
      PROVE  WholeRoot!Next
  <2>1. WholeRoot!Edit(p)
    BY <1>3 DEF ManualEdit, WholeRoot!Edit, WholeRoot!Values, Values
  <2> QED
    BY <2>1 DEF WholeRoot!Next
<1>4. ASSUME NEW c \in Clients,
             \/ Inspect(c)
             \/ \E r \in Requests : StartProposal(c, r)
             \/ \E m \in Markers : StartSelection(c, m)
             \/ ProposeFor(c) \/ Propose(c)
             \/ Precheck(c) \/ StartPublication(c)
             \/ PublishFor(c) \/ Fence(c) \/ Rebuild(c) \/ Confirm(c)
             \/ SelectFor(c)
             \/ Refuse(c) \/ Stop(c)
      PROVE  UNCHANGED <<bytes, edits>>
  BY <1>4 DEF Inspect, StartProposal, StartSelection, ProposeFor, Propose, Precheck,
     StartPublication, PublishFor, Fence, Rebuild, Confirm, SelectFor, Refuse, Fail, Stop,
     world, counts
<1>5. CASE (\E h \in Hosts : ReplaceHost(h)) \/ UNCHANGED vars
  BY <1>5 DEF ReplaceHost, vars
<1> QED
  BY <1>1, <1>2, <1>3, <1>4, <1>5 DEF Next

\* While edits and Host changes wait for commands, the commands change the root only as
\* AtomicRoot does: a reviewed change set, or a marker, on all its paths in one step, to a
\* root that a Host resolves; inspections, reviews, refusals and stops change nothing
\* (publish_plugin_root_changes, set_instance_disabled_inner).
THEOREM CommandsKeepTheRootWhole ==
  ASSUME NothingRaces
  PROVE  Spec => WholeRoot!Spec
<1>1. Init => WholeRoot!Init /\ PublishedInv
  BY DEF Init, WholeRoot!Init, PublishedInv
<1>2. Spec => []PublishedInv
  BY <1>1, PublishedKeeps, TypesCorrect, PTL DEF Spec
<1>3. TypeOK /\ TypeOK' /\ ProgressInv /\ AuthorityInv /\ PublishedInv /\ [Next]_vars =>
        [WholeRoot!Next]_<<bytes, FALSE, edits>>
  BY WholeSteps
<1> QED
  BY <1>1, <1>2, <1>3, AuthorityCorrect, PTL DEF Spec, WholeRoot!Spec

-----------------------------------------------------------------------------
(* The signed catalog.                                                     *)

Accepts(s) == Catalog!Browsable(s, TRUE, cCheckpoint, cNow)

\* The checkpoint is the newest accepted snapshot, one of its own revision, and knows
\* the bytes of every Release that was ever accepted.
HistoryInv ==
  /\ cCheckpoint = None => cAccepted = {} /\ cHeld = None
  /\ cHeld # None => cHeld = cCheckpoint.snapshot
  /\ cCheckpoint # None =>
       /\ Catalog!Valid(cCheckpoint.snapshot) /\ cCheckpoint.snapshot.catalog = "ours"
       /\ \A s \in cAccepted :
            /\ s.revision <= cCheckpoint.snapshot.revision
            /\ s.revision = cCheckpoint.snapshot.revision => s = cCheckpoint.snapshot
            /\ \A r \in Releases : s.releases[r] # None =>
                 cCheckpoint.identities[r] = s.releases[r].identity
  /\ \A s, t \in cAccepted : s.revision = t.revision => s = t

\* What is being installed is named by an accepted snapshot, and so is its archive.
SelectedInv ==
  /\ cSelected # None =>
       \E s \in cAccepted : /\ s.releases[cSelected.release] # None
                            /\ s.releases[cSelected.release].identity = cSelected.identity
  /\ cArchive # None => /\ cSelected # None
                        /\ Holds[cArchive] = cSelected.identity.manifest

CatalogInv == Catalog!TypeOK /\ HistoryInv /\ SelectedInv /\ Catalog!InstalledAsSigned

LEMMA InitCatalog == Catalog!Init => CatalogInv
<1> SUFFICES ASSUME Catalog!Init
             PROVE  CatalogInv
  OBVIOUS
<1> USE DEF Catalog!Init
<1>1. Catalog!TypeOK
  BY CatalogAssumption DEF Catalog!TypeOK
<1>2. HistoryInv /\ SelectedInv
  BY DEF HistoryInv, SelectedInv
<1>3. Catalog!InstalledAsSigned
  BY DEF Catalog!InstalledAsSigned
<1> QED
  BY <1>1, <1>2, <1>3 DEF CatalogInv

\* A snapshot that follows the checkpoint continues the history.
LEMMA Continues ==
  ASSUME CatalogInv, NEW s \in Catalog!Snapshots, Accepts(s), Catalog!Checkpointed(s),
         cHeld' \in {None, s}
  PROVE  CatalogInv'
<1>1. /\ cAccepted' = cAccepted \union {s}
      /\ cCheckpoint' = [snapshot |-> s, identities |-> Catalog!IdentitiesWith(s, cCheckpoint)]
      /\ UNCHANGED <<cNow, cSelected, cArchive, cDirectory, cInstalled, cTampers>>
  BY DEF Catalog!Checkpointed
<1>2. /\ Catalog!Valid(s) /\ s.catalog = "ours"
      /\ Catalog!SameIdentities(s, cCheckpoint) /\ Catalog!Follows(s, cCheckpoint)
  BY DEF Accepts, Catalog!Browsable
<1>3. s.revision \in Nat /\ s.releases \in [Releases -> Catalog!Entries \union {None}]
  BY DEF Catalog!Snapshots
<1>4. \A r \in Releases : s.releases[r] # None => s.releases[r].identity \in Identities
  BY <1>3 DEF Catalog!Entries
<1>5. Catalog!Known(cCheckpoint) \in [Releases -> Identities \union {None}]
  <2>1. CASE cCheckpoint = None
    BY <2>1 DEF Catalog!Known
  <2>2. CASE cCheckpoint # None
    BY <2>2 DEF Catalog!Known, CatalogInv, Catalog!TypeOK
  <2> QED
    BY <2>1, <2>2
<1>6. Catalog!IdentitiesWith(s, cCheckpoint) \in [Releases -> Identities \union {None}]
  BY <1>4, <1>5 DEF Catalog!IdentitiesWith
<1>7. cCheckpoint' # None
  BY <1>1, <1>6, CatalogAssumption
<1>8. Catalog!TypeOK'
  <2>1. cCheckpoint' \in [snapshot : cAccepted', identities : [Releases -> Identities \union {None}]]
    BY <1>1, <1>6
  <2>2. cHeld' \in cAccepted' \union {None} /\ cAccepted' \subseteq Catalog!Snapshots
    BY <1>1 DEF CatalogInv, Catalog!TypeOK
  <2> QED
    BY <1>1, <2>1, <2>2 DEF CatalogInv, Catalog!TypeOK
<1>9. ASSUME NEW t \in cAccepted
      PROVE  /\ t.revision <= s.revision
             /\ t.revision = s.revision => t = s
             /\ \A r \in Releases : t.releases[r] # None =>
                  Catalog!IdentitiesWith(s, cCheckpoint)[r] = t.releases[r].identity
  <2>1. cCheckpoint # None
    BY DEF CatalogInv, HistoryInv
  <2>2. t.revision \in Nat /\ t.releases \in [Releases -> Catalog!Entries \union {None}]
    BY DEF CatalogInv, Catalog!TypeOK, Catalog!Snapshots
  <2>3. cCheckpoint.snapshot.revision \in Nat
    BY <2>1 DEF CatalogInv, Catalog!TypeOK, Catalog!Snapshots
  <2>4. /\ s.revision >= cCheckpoint.snapshot.revision
        /\ s.revision = cCheckpoint.snapshot.revision => s = cCheckpoint.snapshot
    BY <1>2, <2>1 DEF Catalog!Follows
  <2>5. /\ t.revision <= cCheckpoint.snapshot.revision
        /\ t.revision = cCheckpoint.snapshot.revision => t = cCheckpoint.snapshot
    BY <2>1 DEF CatalogInv, HistoryInv
  <2>6. t.revision <= s.revision /\ (t.revision = s.revision => t = s)
    BY <1>3, <2>2, <2>3, <2>4, <2>5
  <2>7. ASSUME NEW r \in Releases, t.releases[r] # None
        PROVE  Catalog!IdentitiesWith(s, cCheckpoint)[r] = t.releases[r].identity
    <3>1. Catalog!Known(cCheckpoint)[r] = t.releases[r].identity
      BY <2>1, <2>7 DEF Catalog!Known, CatalogInv, HistoryInv
    <3>2. t.releases[r].identity # None
      BY <2>2, <2>7, CatalogAssumption DEF Catalog!Entries
    <3>3. s.releases[r] # None => t.releases[r].identity = s.releases[r].identity
      BY <1>2, <3>1, <3>2 DEF Catalog!SameIdentities
    <3> QED
      BY <3>1, <3>3 DEF Catalog!IdentitiesWith
  <2> QED
    BY <2>6, <2>7
<1>10. HistoryInv'
  <2>1. \A r \in Releases : s.releases[r] # None =>
          Catalog!IdentitiesWith(s, cCheckpoint)[r] = s.releases[r].identity
    BY DEF Catalog!IdentitiesWith
  <2>2. Catalog!Valid(cCheckpoint'.snapshot)
    BY <1>1, <1>2
  <2>3. \A x, y \in cAccepted' : x.revision = y.revision => x = y
    <3> SUFFICES ASSUME NEW x \in cAccepted', NEW y \in cAccepted', x.revision = y.revision
                 PROVE  x = y
      OBVIOUS
    <3>1. CASE x = s \/ y = s
      BY <1>1, <1>9, <3>1
    <3>2. CASE x \in cAccepted /\ y \in cAccepted
      BY <3>2 DEF CatalogInv, HistoryInv
    <3> QED
      BY <1>1, <3>1, <3>2
  <2>4. s.revision <= s.revision
    BY <1>3
  <2> QED
    BY <1>1, <1>2, <1>7, <1>9, <2>1, <2>2, <2>3, <2>4 DEF HistoryInv, Catalog!Valid
<1>11. SelectedInv'
  BY <1>1 DEF CatalogInv, SelectedInv
<1>12. Catalog!InstalledAsSigned'
  BY <1>1 DEF CatalogInv, Catalog!InstalledAsSigned
<1> QED
  BY <1>8, <1>10, <1>11, <1>12 DEF CatalogInv

LEMMA CatalogSteps == CatalogInv /\ [Catalog!Next]_catalogVars => CatalogInv'
<1> SUFFICES ASSUME CatalogInv, [Catalog!Next]_catalogVars
             PROVE  CatalogInv'
  OBVIOUS
<1>1. ASSUME Catalog!Fetch \/ Catalog!Browse
      PROVE  CatalogInv'
  <2>1. PICK e \in Envelopes : /\ Catalog!Browsable(e.snapshot, e.signed, cCheckpoint, cNow)
                               /\ cHeld' \in {None, e.snapshot}
                               /\ Catalog!Checkpointed(e.snapshot)
    BY <1>1 DEF Catalog!Fetch, Catalog!Browse, Catalog!Verified
  <2>2. Accepts(e.snapshot)
    BY <2>1 DEF Accepts, Catalog!Browsable
  <2> QED
    BY <2>1, <2>2, CatalogAssumption, Continues
<1>2. ASSUME Catalog!Select
      PROVE  CatalogInv'
  <2>1. PICK r \in Releases :
          /\ cHeld # None /\ cSelected = None /\ Catalog!Selectable(cHeld, r, cNow)
          /\ cSelected' = [release |-> r, identity |-> cHeld.releases[r].identity,
                           revision |-> cHeld.revision]
          /\ UNCHANGED <<cNow, cCheckpoint, cHeld, cAccepted, cArchive, cDirectory, cInstalled,
                         cTampers>>
    BY <1>2 DEF Catalog!Select
  <2>2. cHeld \in cAccepted /\ cHeld \in Catalog!Snapshots /\ cHeld.releases[r] # None
    BY <2>1 DEF CatalogInv, Catalog!TypeOK, Catalog!Selectable
  <2>3. cHeld.releases[r].identity \in Identities /\ cHeld.revision \in Nat
    BY <2>2 DEF Catalog!Snapshots, Catalog!Entries
  <2>4. Catalog!TypeOK'
    BY <2>1, <2>3 DEF CatalogInv, Catalog!TypeOK
  <2>5. HistoryInv'
    BY <2>1 DEF CatalogInv, HistoryInv, Catalog!Valid
  <2>6. cArchive = None
    BY <2>1 DEF CatalogInv, SelectedInv
  <2>7. SelectedInv'
    BY <2>1, <2>2, <2>6 DEF SelectedInv
  <2> QED
    BY <2>1, <2>4, <2>5, <2>7 DEF CatalogInv, Catalog!InstalledAsSigned
<1>3. ASSUME Catalog!Download
      PROVE  CatalogInv'
  <2>1. PICK response \in Catalog!Responses :
          /\ cSelected # None /\ Catalog!Admitted(response, cSelected.identity)
          /\ cArchive' = response.body /\ cDirectory' = Holds[response.body]
          /\ UNCHANGED <<cNow, cCheckpoint, cHeld, cAccepted, cSelected, cInstalled, cTampers>>
    BY <1>3 DEF Catalog!Download
  <2>2. /\ response.body = cSelected.identity.archive
        /\ Holds[response.body] = cSelected.identity.manifest
    BY <2>1 DEF Catalog!Admitted
  <2>3. cSelected.identity \in Identities
    BY <2>1 DEF CatalogInv, Catalog!TypeOK
  <2>4. cArchive' \in CatalogArchives
    BY <2>1, <2>2, <2>3, CatalogAssumption
  <2>5. cDirectory' \in Catalog!Manifests
    BY <2>1, <2>4 DEF Catalog!Manifests
  <2>6. Catalog!TypeOK'
    BY <2>1, <2>4, <2>5 DEF CatalogInv, Catalog!TypeOK
  <2>7. HistoryInv'
    BY <2>1 DEF CatalogInv, HistoryInv, Catalog!Valid
  <2>8. SelectedInv'
    BY <2>1, <2>2 DEF CatalogInv, SelectedInv
  <2> QED
    BY <2>1, <2>6, <2>7, <2>8 DEF CatalogInv, Catalog!InstalledAsSigned
<1>4. ASSUME Catalog!Install
      PROVE  CatalogInv'
  <2>1. /\ cArchive # None /\ cDirectory = Holds[cArchive]
        /\ cInstalled' = [cInstalled EXCEPT ![cSelected.release] = cDirectory]
        /\ cSelected' = None /\ cArchive' = None /\ cDirectory' = None
        /\ UNCHANGED <<cNow, cCheckpoint, cHeld, cAccepted, cTampers>>
    BY <1>4 DEF Catalog!Install, Catalog!StagedIsArchive
  <2>2. cSelected # None /\ cSelected.release \in Releases /\ cArchive \in CatalogArchives
          /\ cInstalled \in [Releases -> Catalog!Manifests \union {None}]
    BY <2>1 DEF CatalogInv, SelectedInv, Catalog!TypeOK
  <2>3. cDirectory \in Catalog!Manifests
    BY <2>1, <2>2 DEF Catalog!Manifests
  <2>4. cInstalled' \in [Releases -> Catalog!Manifests \union {None}]
    BY <2>1, <2>2, <2>3
  <2>5. Catalog!TypeOK'
    BY <2>1, <2>4 DEF CatalogInv, Catalog!TypeOK
  <2>6. HistoryInv'
    BY <2>1 DEF CatalogInv, HistoryInv, Catalog!Valid
  <2>7. SelectedInv'
    BY <2>1 DEF SelectedInv
  <2>8. Catalog!InstalledAsSigned'
    <3> SUFFICES ASSUME NEW r \in Releases, cInstalled'[r] # None
                 PROVE  \E s \in cAccepted : /\ s.releases[r] # None
                                             /\ s.releases[r].identity.manifest = cInstalled'[r]
      BY <2>1 DEF Catalog!InstalledAsSigned
    <3>1. CASE r = cSelected.release
      BY <2>1, <2>2, <3>1 DEF CatalogInv, SelectedInv
    <3>2. CASE r # cSelected.release
      BY <2>1, <2>2, <3>2 DEF CatalogInv, Catalog!InstalledAsSigned
    <3> QED
      BY <3>1, <3>2
  <2> QED
    BY <2>5, <2>6, <2>7, <2>8 DEF CatalogInv
<1>5. ASSUME Catalog!Restart
      PROVE  CatalogInv'
  <2>1. /\ cHeld' \in {None, cCheckpoint.snapshot} /\ (cHeld' # None => cCheckpoint # None)
        /\ cSelected' = None /\ cArchive' = None /\ cDirectory' = None
        /\ UNCHANGED <<cNow, cCheckpoint, cAccepted, cInstalled, cTampers>>
    BY <1>5 DEF Catalog!Restart
  <2>2. Catalog!TypeOK'
    BY <2>1 DEF CatalogInv, Catalog!TypeOK
  <2>3. HistoryInv'
    BY <2>1 DEF CatalogInv, HistoryInv, Catalog!Valid
  <2> QED
    BY <2>1, <2>2, <2>3 DEF CatalogInv, SelectedInv, Catalog!InstalledAsSigned
<1>6. ASSUME Catalog!GiveUp \/ Catalog!Tamper \/ Catalog!SetClock \/ UNCHANGED catalogVars
      PROVE  CatalogInv'
  <2>1. /\ UNCHANGED <<cCheckpoint, cHeld, cAccepted, cInstalled>>
        /\ \/ UNCHANGED <<cSelected, cArchive>>
           \/ cSelected' = None /\ cArchive' = None
    BY <1>6 DEF Catalog!GiveUp, Catalog!Tamper, Catalog!SetClock, catalogVars
  <2>2. Catalog!TypeOK'
    BY <1>6, CatalogAssumption DEF Catalog!GiveUp, Catalog!Tamper, Catalog!SetClock, catalogVars,
       CatalogInv, Catalog!TypeOK
  <2>3. HistoryInv' /\ SelectedInv'
    BY <2>1 DEF CatalogInv, HistoryInv, SelectedInv, Catalog!Valid
  <2> QED
    BY <2>1, <2>2, <2>3 DEF CatalogInv, Catalog!InstalledAsSigned
<1> QED
  BY <1>1, <1>2, <1>3, <1>4, <1>5, <1>6 DEF Catalog!Next

\* A Release is selected from the checkpoint, while it is fresh.
LEMMA SelectsFresh ==
  ASSUME CatalogInv, Catalog!Next, cSelected = None, cSelected' # None
  PROVE  /\ \A s \in cAccepted : s.revision <= cSelected'.revision
         /\ \E s \in cAccepted : /\ s.revision = cSelected'.revision
                                 /\ cNow < s.expiresAt
                                 /\ s.releases[cSelected'.release] # None
                                 /\ s.releases[cSelected'.release].availability = "listed"
<1>1. Catalog!Select
  BY DEF Catalog!Next, Catalog!Fetch, Catalog!Browse, Catalog!Checkpointed, Catalog!Download,
     Catalog!GiveUp, Catalog!Install, Catalog!Tamper, Catalog!SetClock, Catalog!Restart
<1>2. PICK r \in Releases :
        /\ cHeld # None /\ Catalog!Selectable(cHeld, r, cNow)
        /\ cSelected' = [release |-> r, identity |-> cHeld.releases[r].identity,
                         revision |-> cHeld.revision]
  BY <1>1 DEF Catalog!Select
<1>3. cHeld \in cAccepted /\ cHeld \in Catalog!Snapshots
  BY <1>2 DEF CatalogInv, Catalog!TypeOK
<1>4. cHeld.expiresAt \in Nat /\ cNow \in Nat
  BY <1>3, CatalogAssumption DEF CatalogInv, Catalog!TypeOK, Catalog!Snapshots
<1>5. cNow < cHeld.expiresAt /\ cHeld.releases[r] # None
        /\ cHeld.releases[r].availability = "listed"
  BY <1>2, <1>4 DEF Catalog!Selectable, Catalog!Stale
<1>6. \A s \in cAccepted : s.revision <= cHeld.revision
  BY <1>2 DEF CatalogInv, HistoryInv
<1> QED
  BY <1>2, <1>3, <1>5, <1>6

LEMMA HistoryIsOne ==
  ASSUME CatalogInv
  PROVE  /\ Catalog!AcceptedIsOneHistory /\ Catalog!InstalledAsSigned
         /\ Catalog!CheckpointReadsBack
<1>1. Catalog!AcceptedIsOneHistory
  BY DEF CatalogInv, HistoryInv, Catalog!AcceptedIsOneHistory
<1>2. ASSUME cCheckpoint # None, cCheckpoint.snapshot.issuedAt <= cNow
      PROVE  Catalog!Browsable(cCheckpoint.snapshot, TRUE, cCheckpoint, cNow)
  <2>1. cCheckpoint.snapshot \in cAccepted /\ cCheckpoint.snapshot \in Catalog!Snapshots
    BY <1>2 DEF CatalogInv, Catalog!TypeOK
  <2>2. Catalog!SameIdentities(cCheckpoint.snapshot, cCheckpoint)
    BY <1>2, <2>1 DEF CatalogInv, HistoryInv, Catalog!SameIdentities, Catalog!Known
  <2>3. Catalog!Follows(cCheckpoint.snapshot, cCheckpoint)
    BY <2>1 DEF Catalog!Follows, Catalog!Snapshots
  <2> QED
    BY <1>2, <2>2, <2>3 DEF CatalogInv, HistoryInv, Catalog!Browsable
<1>3. Catalog!CheckpointReadsBack
  BY <1>2 DEF Catalog!CheckpointReadsBack
<1> QED
  BY <1>1, <1>3 DEF CatalogInv

\* The steps of the other kinds leave the catalog alone.
LEMMA CatalogRuns == AuthoringSpec => Catalog!Init /\ [][Catalog!Next]_catalogVars
<1>1. AuthoringInit => Catalog!Init
  BY DEF AuthoringInit
<1>2. [AuthoringNext]_authoringVars => [Catalog!Next]_catalogVars
  BY DEF AuthoringNext, authoringVars, otherVars, catalogVars, Rests
<1> QED
  BY <1>1, <1>2, PTL DEF AuthoringSpec

\* For any Releases, archives and envelopes a mirror may serve: one snapshot per
\* revision and one identity per Release for good, no selection from what is withdrawn
\* or stale, no installation that was not signed, a checkpoint that reads back.
THEOREM OneCatalogHistory == AuthoringSpec => CatalogIsOneHistory
<1>1. AuthoringSpec => []CatalogInv
  BY InitCatalog, CatalogSteps, CatalogRuns, PTL
<1>2. CatalogInv => Catalog!AcceptedIsOneHistory /\ Catalog!InstalledAsSigned
                     /\ Catalog!CheckpointReadsBack
  BY HistoryIsOne
<1>3. CatalogInv /\ [Catalog!Next]_catalogVars =>
        [cSelected = None /\ cSelected' # None =>
           /\ \A s \in cAccepted : s.revision <= cSelected'.revision
           /\ \E s \in cAccepted : /\ s.revision = cSelected'.revision
                                   /\ cNow < s.expiresAt
                                   /\ s.releases[cSelected'.release] # None
                                   /\ s.releases[cSelected'.release].availability = "listed"]_(Catalog!vars)
  BY SelectsFresh DEF catalogVars, Catalog!vars
<1> QED
  BY <1>1, <1>2, <1>3, CatalogRuns, PTL DEF CatalogIsOneHistory, Catalog!SelectsFromTheNewest

-----------------------------------------------------------------------------
(* The files below plugins/.                                               *)

Keys == UNION {DOMAIN c : c \in RootRequests}

LEMMA ChoiceSetType ==
  ASSUME NEW S \in SUBSET Keys, NEW f \in [S -> Instances]
  PROVE  f \in Differences!ChoiceSets
BY DEF Differences!ChoiceSets, Keys

LEMMA ChoiceSetParts ==
  ASSUME NEW f \in Differences!ChoiceSets
  PROVE  DOMAIN f \subseteq Keys /\ f \in [DOMAIN f -> Instances] /\ f # None
BY DifferencesAssumption DEF Differences!ChoiceSets, Keys

LEMMA SavedType ==
  ASSUME Differences!TypeOK
  PROVE  Differences!Saved(Differences!Snapshot) \in Differences!ChoiceSets
<1>1. <<>> \in [{} -> Instances]
  OBVIOUS
<1>2. <<>> \in Differences!ChoiceSets
  BY <1>1, ChoiceSetType
<1>3. Differences!Snapshot.choices \in Differences!ChoiceSets \union {None}
  BY DEF Differences!TypeOK, Differences!Snapshot
<1> QED
  BY <1>2, <1>3 DEF Differences!Saved

\* What a Host proposes for a Root it resolves are choices it lets the App make.
LEMMA ProposedType ==
  ASSUME NEW n \in HostNames, NEW root, Differences!HostResolves(HostBuilds[n], root)
  PROVE  Differences!Proposed(HostBuilds[n], root) \in Differences!ChoiceSets
<1> DEFINE h == HostBuilds[n]
           app == Differences!App(h, root)
           keys == Differences!Selectable(h, app)
           domain == {<<k[1], k[2].id>> : k \in keys}
           key(d) == CHOOSE k \in keys : <<k[1], k[2].id>> = d
<1>1. \A k \in Differences!Requirements(app) :
        Differences!Bound(h, root, app, k) \in Differences!Candidates(h, app, k)
  BY DEF Differences!HostResolves, Differences!Resolved
<1>2. ASSUME NEW k \in keys
      PROVE  /\ <<k[1], k[2].id>> \in Keys
             /\ Differences!Bound(h, root, app, k) \in Instances
  <2>1. k \in Differences!Requirements(app)
    BY DEF Differences!Selectable
  <2>2. PICK b \in h.bindings : b.consumer = k[1] /\ b.requirement = k[2].id /\ b.selectable
    BY DEF Differences!Selectable
  <2>3. Differences!Bound(h, root, app, k) \in b.providers
    BY <1>1, <2>1, <2>2 DEF Differences!Candidates
  <2> QED
    BY <2>2, <2>3, SelectableAssumption DEF Keys
<1>3. \A d \in domain : key(d) \in keys /\ <<key(d)[1], key(d)[2].id>> = d
  OBVIOUS
<1>4. domain \in SUBSET Keys
  BY <1>2
<1>5. [d \in domain |-> Differences!Bound(h, root, app, key(d))] \in [domain -> Instances]
  BY <1>2, <1>3
<1>6. Differences!Proposed(h, root) = [d \in domain |-> Differences!Bound(h, root, app, key(d))]
  BY DEF Differences!Proposed
<1> HIDE DEF h, app, keys, domain, key
<1> QED
  BY <1>4, <1>5, <1>6, ChoiceSetType DEF h

FilesTyped ==
  /\ dToml \in [Instances -> Configurations \union {None}]
  /\ dMarker \subseteq Instances /\ dResources \subseteq Instances
  /\ dBundle \subseteq RootBundles
  /\ \A b, c \in dBundle : b.descriptor.plugin = c.descriptor.plugin => b = c
  /\ {dCanonical, dLegacy} \subseteq Differences!ChoiceSets \union {None}

LastTyped ==
  dLast # None =>
    /\ dLast.op \in {"configure", "select", "replace", "publish", "disable", "enable", "reset",
                     "remove"}
    /\ dLast.root.disabled \subseteq Instances
    /\ DOMAIN dLast.root.instances \subseteq Instances

CountsTyped ==
  /\ dInstalled \in HostNames
  /\ dCommands \in 0..MaxRootCommands /\ dEdits \in 0..MaxPersonEdits
  /\ dHosts \in 0..MaxNewHosts /\ dFaults \in 0..MaxFailures

LEMMA DifferenceTypes == Differences!TypeOK <=> FilesTyped /\ LastTyped /\ CountsTyped
BY DEF Differences!TypeOK, FilesTyped, LastTyped, CountsTyped

DifferencesInv == Differences!TypeOK /\ Differences!LoadsWhatItResolved

LEMMA InitDifferences == Differences!Init => DifferencesInv
<1> SUFFICES ASSUME Differences!Init
             PROVE  DifferencesInv
  OBVIOUS
<1>1. PICK f \in InitFiles :
        /\ dToml = f.toml /\ dMarker = f.marker /\ dResources = f.resources
        /\ dBundle = f.bundle /\ dCanonical = f.canonical /\ dLegacy = f.legacy
  BY DEF Differences!Init
<1>2. FilesTyped
  BY <1>1, DifferencesAssumption DEF FilesTyped
<1>3. CountsTyped
  BY DifferencesAssumption, StoreAssumption DEF Differences!Init, CountsTyped
<1>4. LastTyped /\ Differences!LoadsWhatItResolved
  BY DEF Differences!Init, LastTyped, Differences!LoadsWhatItResolved
<1> QED
  BY <1>2, <1>3, <1>4, DifferenceTypes DEF DifferencesInv

LEMMA CommandCounts ==
  ASSUME Differences!TypeOK, Differences!Begins,
         \/ dFaults' = dFaults
         \/ dFaults < MaxFailures /\ dFaults' = dFaults + 1
  PROVE  CountsTyped'
<1>1. {MaxRootCommands, MaxFailures} \subseteq Nat
  BY DifferencesAssumption, StoreAssumption
<1>2. dFaults' \in 0..MaxFailures
  BY <1>1 DEF Differences!TypeOK
<1> QED
  BY <1>1, <1>2 DEF Differences!TypeOK, Differences!Begins, CountsTyped

LEMMA RefusedKeeps ==
  ASSUME DifferencesInv, Differences!Begins, NEW root, Differences!Refused(root)
  PROVE  DifferencesInv'
<1>1. CountsTyped'
  BY CommandCounts DEF DifferencesInv, Differences!Refused
<1>2. FilesTyped'
  BY DifferenceTypes DEF DifferencesInv, Differences!Refused, Differences!files, FilesTyped
<1>3. LastTyped' /\ Differences!LoadsWhatItResolved'
  BY DEF Differences!Refused, LastTyped, Differences!LoadsWhatItResolved
<1>4. Differences!TypeOK'
  BY <1>1, <1>2, <1>3, DifferenceTypes DEF FilesTyped, LastTyped, CountsTyped, Differences!TypeOK
<1> QED
  BY <1>3, <1>4 DEF DifferencesInv

\* A command of files that say afterwards what was resolved.
LEMMA ReadsBack ==
  ASSUME DifferencesInv, Differences!Begins, NEW op, NEW root, NEW asked,
         Differences!Succeeds(op, root, asked), dFaults' = dFaults,
         op \in {"configure", "select", "replace", "publish", "disable", "enable", "reset", "remove"},
         FilesTyped',
         root.disabled \subseteq Instances, DOMAIN root.instances \subseteq Instances,
         \/ /\ dBundle' \subseteq dBundle /\ None \in {dCanonical', dLegacy'}
            /\ Differences!Orphans' = {} /\ Differences!Snapshot' = root
         \/ op = "reset" /\ Differences!Orphans' # {}
  PROVE  DifferencesInv'
<1>1. CountsTyped'
  BY CommandCounts DEF DifferencesInv
<1>2. dLast' = [op |-> op, root |-> root, asked |-> asked]
        /\ Differences!Readable /\ Differences!HostResolves(Differences!host, root)
        /\ dInstalled' = dInstalled
  BY DEF Differences!Succeeds, Differences!Begins
<1>3. LastTyped'
  BY <1>2 DEF LastTyped
<1>4. Differences!TypeOK'
  BY <1>1, <1>3 DEF FilesTyped, LastTyped, CountsTyped, Differences!TypeOK
<1>5. Differences!host' = Differences!host
  BY <1>2 DEF Differences!host
<1>6. CASE op = "reset" /\ Differences!Orphans' # {}
  BY <1>2, <1>4, <1>6 DEF DifferencesInv, Differences!LoadsWhatItResolved
<1>7. CASE /\ dBundle' \subseteq dBundle /\ None \in {dCanonical', dLegacy'}
           /\ Differences!Orphans' = {} /\ Differences!Snapshot' = root
  <2>1. Differences!Readable'
    BY <1>2, <1>5, <1>7 DEF Differences!Readable
  <2>2. Differences!HostResolves(Differences!host, dLast.root)'
    BY <1>2, <1>5
  <2> QED
    BY <1>2, <1>4, <1>7, <2>1, <2>2 DEF DifferencesInv, Differences!LoadsWhatItResolved
<1> QED
  BY <1>6, <1>7

IsRoot(r) == r = [releases |-> r.releases, instances |-> r.instances,
                  disabled |-> r.disabled, choices |-> r.choices]

LEMMA SameRoot ==
  ASSUME NEW r, NEW s, IsRoot(r), IsRoot(s), r.releases = s.releases,
         r.instances = s.instances, r.disabled = s.disabled, r.choices = s.choices
  PROVE  r = s
BY DEF IsRoot

\* What the files say, and what they say afterwards.
LEMMA SnapshotIs ==
  /\ IsRoot(Differences!Snapshot)
  /\ Differences!Snapshot.releases =
       {Differences!SelectBundle(Differences!host, b) : b \in dBundle}
  /\ Differences!Snapshot.instances = [i \in Differences!Configured |-> dToml[i]]
  /\ DOMAIN Differences!Snapshot.instances = Differences!Configured
  /\ \A i \in Differences!Configured : Differences!Snapshot.instances[i] = dToml[i]
  /\ Differences!Snapshot.disabled = dMarker
  /\ Differences!Snapshot.choices = IF dCanonical # None THEN dCanonical ELSE dLegacy
BY DEF Differences!Snapshot, IsRoot

LEMMA SnapshotNext ==
  /\ IsRoot(Differences!Snapshot')
  /\ dInstalled' = dInstalled =>
       Differences!Snapshot'.releases =
         {Differences!SelectBundle(Differences!host, b) : b \in dBundle'}
  /\ Differences!Snapshot'.instances = [i \in Differences!Configured' |-> dToml'[i]]
  /\ Differences!Snapshot'.disabled = dMarker'
  /\ Differences!Snapshot'.choices = IF dCanonical' # None THEN dCanonical' ELSE dLegacy'
<1>1. dInstalled' = dInstalled => Differences!host' = Differences!host
  BY DEF Differences!host
<1>2. Differences!Snapshot'.releases =
        {Differences!SelectBundle(Differences!host', b) : b \in dBundle'}
  BY DEF Differences!Snapshot
<1>3. /\ IsRoot(Differences!Snapshot')
      /\ Differences!Snapshot'.instances = [i \in Differences!Configured' |-> dToml'[i]]
      /\ Differences!Snapshot'.disabled = dMarker'
      /\ Differences!Snapshot'.choices = IF dCanonical' # None THEN dCanonical' ELSE dLegacy'
  BY DEF Differences!Snapshot, IsRoot
<1> QED
  BY <1>1, <1>2, <1>3

LEMMA WithoutIs ==
  ASSUME NEW ids
  PROVE  Differences!Without(ids) =
           [releases |-> Differences!Snapshot.releases,
            instances |-> [j \in Differences!Configured \ ids |-> Differences!Snapshot.instances[j]],
            disabled |-> dMarker \ ids, choices |-> Differences!Snapshot.choices]
<1> DEFINE kept == [j \in Differences!Configured \ ids |-> Differences!Snapshot.instances[j]]
           now == [releases |-> Differences!Snapshot.releases,
                   instances |-> Differences!Snapshot.instances,
                   disabled |-> dMarker, choices |-> Differences!Snapshot.choices]
           other == [releases |-> Differences!Snapshot.releases, instances |-> kept,
                     disabled |-> dMarker, choices |-> Differences!Snapshot.choices]
<1>1. Differences!Without(ids) =
        [[Differences!Snapshot EXCEPT !.instances = kept] EXCEPT !.disabled = dMarker \ ids]
  BY SnapshotIs DEF Differences!Without, Differences!Restrict
<1>2. Differences!Snapshot = now
  BY SnapshotIs DEF IsRoot
<1> HIDE DEF kept
<1>3. [now EXCEPT !.instances = kept] = other
  OBVIOUS
<1>4. [other EXCEPT !.disabled = dMarker \ ids] =
        [releases |-> Differences!Snapshot.releases, instances |-> kept,
         disabled |-> dMarker \ ids, choices |-> Differences!Snapshot.choices]
  OBVIOUS
<1> HIDE DEF now, other
<1> QED
  BY <1>1, <1>2, <1>3, <1>4, Zenon DEF kept

LEMMA WithoutPluginIs ==
  ASSUME NEW p
  PROVE  LET gone == {i \in Instances : i[1] = p} IN
         Differences!WithoutPlugin(p) =
           [releases |-> {d \in Differences!Snapshot.releases : d.plugin # p},
            instances |-> [j \in Differences!Configured \ gone |-> Differences!Snapshot.instances[j]],
            disabled |-> dMarker \ gone, choices |-> Differences!Snapshot.choices]
<1> DEFINE gone == {i \in Instances : i[1] = p}
           root == Differences!Without(gone)
           kept == [j \in Differences!Configured \ gone |-> Differences!Snapshot.instances[j]]
           left == {d \in Differences!Snapshot.releases : d.plugin # p}
           marked == dMarker \ gone
           shape == [releases |-> Differences!Snapshot.releases, instances |-> kept,
                     disabled |-> marked, choices |-> Differences!Snapshot.choices]
<1>1. root = shape
  BY WithoutIs
<1>2. shape.releases = Differences!Snapshot.releases
  OBVIOUS
<1> HIDE DEF shape
<1>3. {d \in shape.releases : d.plugin # p} = left
  BY <1>2
<1> HIDE DEF root
<1>4. Differences!WithoutPlugin(p) =
        [root EXCEPT !.releases = {d \in root.releases : d.plugin # p}]
  BY DEF Differences!WithoutPlugin, root
<1> HIDE DEF gone, kept, left, marked
<1>5. [shape EXCEPT !.releases = left] =
        [releases |-> left, instances |-> kept, disabled |-> marked,
         choices |-> Differences!Snapshot.choices]
  BY DEF shape
<1>6. Differences!WithoutPlugin(p) =
        [releases |-> left, instances |-> kept, disabled |-> marked,
         choices |-> Differences!Snapshot.choices]
  BY <1>1, <1>3, <1>4, <1>5, Zenon
<1> QED
  BY <1>6 DEF gone, kept, left, marked

LEMMA ConfigureKeeps ==
  ASSUME DifferencesInv, NEW i \in Instances, NEW c \in Configurations,
         Differences!Configure(i, c)
  PROVE  DifferencesInv'
<1> DEFINE root == Differences!WithConfiguration(i, c)
<1>1. CASE Differences!Refused(root)
  BY <1>1, RefusedKeeps DEF Differences!Configure
<1>2. CASE /\ Differences!Succeeds("configure", root, {})
           /\ dToml' = [dToml EXCEPT ![i] = c]
           /\ UNCHANGED <<dMarker, dResources, dBundle, dCanonical, dLegacy, dFaults>>
  <2>1. /\ FilesTyped /\ Differences!Readable /\ c # None
        /\ dInstalled' = dInstalled /\ Differences!Begins
    BY <1>2, DifferenceTypes, DifferencesAssumption
    DEF DifferencesInv, Differences!Succeeds, Differences!Configure, Differences!Begins
  <2>2. FilesTyped'
    BY <1>2, <2>1 DEF FilesTyped
  <2>3. Differences!Configured' = Differences!Configured \union {i}
    BY <1>2, <2>1 DEF Differences!Configured, FilesTyped
  <2>4. \A j \in Differences!Configured' :
          dToml'[j] = IF j = i THEN c ELSE dToml[j]
    BY <1>2, <2>1 DEF Differences!Configured, FilesTyped
  <2>5. Differences!Snapshot' = root
    <3>1. /\ IsRoot(root) /\ root.releases = Differences!Snapshot.releases
          /\ root.disabled = dMarker /\ root.choices = Differences!Snapshot.choices
          /\ root.instances = [j \in Differences!Configured \union {i} |->
                                 IF j = i THEN c ELSE Differences!Snapshot.instances[j]]
      BY SnapshotIs DEF Differences!WithConfiguration, IsRoot
    <3>2. Differences!Snapshot'.instances = root.instances
      BY <2>3, <2>4, <3>1, SnapshotIs, SnapshotNext
    <3>3. Differences!Snapshot'.releases = root.releases
      BY <1>2, <2>1, <3>1, SnapshotIs, SnapshotNext
    <3>4. Differences!Snapshot'.disabled = root.disabled
            /\ Differences!Snapshot'.choices = root.choices
      BY <1>2, <3>1, SnapshotIs, SnapshotNext
    <3> HIDE DEF root
    <3> QED
      BY <3>1, <3>2, <3>3, <3>4, SameRoot, SnapshotNext
  <2>6. Differences!Orphans' = {} /\ None \in {dCanonical', dLegacy'}
    BY <1>2, <2>1, <2>3 DEF Differences!Readable, Differences!Orphans
  <2>7. root.disabled \subseteq Instances /\ DOMAIN root.instances \subseteq Instances
    BY <2>1
    DEF Differences!WithConfiguration, Differences!Snapshot, FilesTyped, Differences!Configured
  <2> QED
    BY <1>2, <2>1, <2>2, <2>5, <2>6, <2>7, ReadsBack
<1> QED
  BY <1>1, <1>2 DEF Differences!Configure

LEMMA SetDisabledKeeps ==
  ASSUME DifferencesInv, NEW i \in Instances, NEW disabling \in BOOLEAN,
         Differences!SetDisabled(i, disabling)
  PROVE  DifferencesInv'
<1> DEFINE root == Differences!Marked(i, disabling)
           op == IF disabling THEN "disable" ELSE "enable"
<1>1. CASE Differences!Refused(root)
  BY <1>1, RefusedKeeps DEF Differences!SetDisabled
<1>2. CASE /\ Differences!Succeeds(op, root, {})
           /\ dMarker' = IF disabling THEN dMarker \union {i} ELSE dMarker \ {i}
           /\ UNCHANGED <<dToml, dResources, dBundle, dCanonical, dLegacy, dFaults>>
  <2>1. FilesTyped /\ Differences!Readable /\ dInstalled' = dInstalled /\ Differences!Begins
    BY <1>2, DifferenceTypes
    DEF DifferencesInv, Differences!Succeeds, Differences!SetDisabled, Differences!Begins
  <2>2. FilesTyped'
    BY <1>2, <2>1 DEF FilesTyped
  <2>3. Differences!Configured' = Differences!Configured
    BY <1>2 DEF Differences!Configured
  <2>4. Differences!Snapshot' = root
    <3>1. /\ IsRoot(root) /\ root.releases = Differences!Snapshot.releases
          /\ root.instances = Differences!Snapshot.instances
          /\ root.choices = Differences!Snapshot.choices
          /\ root.disabled = IF disabling THEN dMarker \union {i} ELSE dMarker \ {i}
      BY SnapshotIs DEF Differences!Marked, IsRoot
    <3>2. Differences!Snapshot'.instances = root.instances
            /\ Differences!Snapshot'.releases = root.releases
      BY <1>2, <2>1, <2>3, <3>1, SnapshotIs, SnapshotNext
    <3>3. Differences!Snapshot'.disabled = root.disabled
            /\ Differences!Snapshot'.choices = root.choices
      BY <1>2, <3>1, SnapshotIs, SnapshotNext
    <3> HIDE DEF root
    <3> QED
      BY <3>1, <3>2, <3>3, SameRoot, SnapshotNext
  <2>5. Differences!Orphans' = {} /\ None \in {dCanonical', dLegacy'}
    BY <1>2, <2>1, <2>3 DEF Differences!Readable, Differences!Orphans
  <2>6. root.disabled \subseteq Instances /\ DOMAIN root.instances \subseteq Instances
    BY <2>1 DEF Differences!Marked, Differences!Snapshot, FilesTyped, Differences!Configured
  <2>7. op \in {"disable", "enable"}
    OBVIOUS
  <2> HIDE DEF op
  <2> QED
    BY <1>2, <2>1, <2>2, <2>4, <2>5, <2>6, <2>7, ReadsBack
<1> QED
  BY <1>1, <1>2 DEF Differences!SetDisabled

\* The whole set of choices is written, and is what is read afterwards.
LEMMA ChoicesKeep ==
  ASSUME DifferencesInv, Differences!Begins, NEW op \in {"select", "replace", "publish"},
         NEW choices \in Differences!ChoiceSets, NEW asked,
         Differences!Succeeds(op, Differences!Chosen(choices), asked),
         Differences!WriteChoices(choices),
         UNCHANGED <<dToml, dMarker, dResources, dBundle, dFaults>>
  PROVE  DifferencesInv'
<1> DEFINE root == Differences!Chosen(choices)
<1>1. /\ FilesTyped /\ Differences!Readable /\ dInstalled' = dInstalled
      /\ dCanonical' = choices /\ dLegacy' = None
  BY DifferenceTypes
  DEF DifferencesInv, Differences!Succeeds, Differences!Begins, Differences!WriteChoices
<1>2. choices # None
  BY ChoiceSetParts
<1>3. FilesTyped'
  BY <1>1 DEF FilesTyped
<1>4. Differences!Configured' = Differences!Configured
  BY DEF Differences!Configured
<1>5. Differences!Snapshot' = root
  <2>1. /\ IsRoot(root) /\ root.releases = Differences!Snapshot.releases
        /\ root.instances = Differences!Snapshot.instances
        /\ root.disabled = dMarker /\ root.choices = choices
    BY SnapshotIs DEF Differences!Chosen, IsRoot
  <2>2. Differences!Snapshot'.instances = root.instances
          /\ Differences!Snapshot'.releases = root.releases
    BY <1>1, <1>4, <2>1, SnapshotIs, SnapshotNext
  <2>3. Differences!Snapshot'.disabled = root.disabled
          /\ Differences!Snapshot'.choices = root.choices
    BY <1>1, <1>2, <2>1, SnapshotNext
  <2> HIDE DEF root
  <2> QED
    BY <2>1, <2>2, <2>3, SameRoot, SnapshotNext
<1>6. Differences!Orphans' = {} /\ None \in {dCanonical', dLegacy'}
  BY <1>1, <1>4 DEF Differences!Readable, Differences!Orphans
<1>7. root.disabled \subseteq Instances /\ DOMAIN root.instances \subseteq Instances
  BY <1>1 DEF Differences!Chosen, Differences!Snapshot, FilesTyped, Differences!Configured
<1> QED
  BY <1>1, <1>3, <1>5, <1>6, <1>7, ReadsBack

LEMMA AdoptedChoices ==
  ASSUME DifferencesInv, NEW choices,
         Differences!HostProposes(Differences!host, Differences!Chosen(choices))
  PROVE  /\ Differences!Adopted(choices).choices \in Differences!ChoiceSets
         /\ Differences!Adopted(choices) =
              Differences!Chosen(Differences!Adopted(choices).choices)
         /\ Differences!Adopted(choices).choices =
              Differences!Proposed(Differences!host, Differences!Chosen(choices))
<1>1. dInstalled \in HostNames
  BY DifferenceTypes DEF DifferencesInv, CountsTyped
<1>2. Differences!Proposed(Differences!host, Differences!Chosen(choices))
        \in Differences!ChoiceSets
  BY <1>1, ProposedType DEF Differences!HostProposes, Differences!host
<1> QED
  BY <1>2 DEF Differences!Adopted, Differences!Chosen, Differences!Snapshot

LEMMA SetSelectionsKeeps ==
  ASSUME DifferencesInv, NEW asked \in RootRequests, NEW all \in BOOLEAN,
         Differences!SetSelections(asked, all)
  PROVE  DifferencesInv'
<1> DEFINE merged == Differences!Merged(asked, all)
           wanted == Differences!Chosen(merged)
           root == Differences!Adopted(merged)
           op == IF all THEN "replace" ELSE "select"
<1>1. wanted.choices = merged
  BY DEF Differences!Chosen, Differences!Snapshot
<1>2. CASE Differences!Refused(wanted) \/ Differences!Refused(root)
  BY <1>2, RefusedKeeps DEF Differences!SetSelections
<1>3. CASE /\ Differences!HostProposes(Differences!host, wanted)
           /\ Differences!Succeeds(op, root, DOMAIN asked)
           /\ Differences!WriteChoices(root.choices)
           /\ UNCHANGED <<dToml, dMarker, dResources, dBundle, dFaults>>
  <2>1. /\ root.choices \in Differences!ChoiceSets
        /\ root = Differences!Chosen(root.choices)
    BY <1>3, AdoptedChoices
  <2>2. op \in {"select", "replace"} /\ Differences!Begins
    BY DEF Differences!SetSelections
  <2> HIDE DEF op, root
  <2> QED
    BY <1>3, <2>1, <2>2, ChoicesKeep
<1> QED
  BY <1>1, <1>2, <1>3 DEF Differences!SetSelections

LEMMA PublishChoicesKeeps ==
  ASSUME DifferencesInv, NEW asked \in RootRequests, Differences!PublishChoices(asked)
  PROVE  DifferencesInv'
<1> DEFINE wanted == Differences!Chosen(asked)
           root == Differences!Adopted(asked)
<1>1. CASE Differences!Refused(wanted) \/ Differences!Refused(root)
  BY <1>1, RefusedKeeps DEF Differences!PublishChoices
<1>2. CASE dLast' = None /\ UNCHANGED <<Differences!files, dFaults>>
  <2>1. CountsTyped'
    BY <1>2, CommandCounts DEF DifferencesInv, Differences!PublishChoices
  <2>2. FilesTyped' /\ LastTyped' /\ Differences!LoadsWhatItResolved'
    BY <1>2, DifferenceTypes
    DEF DifferencesInv, Differences!files, FilesTyped, LastTyped, Differences!LoadsWhatItResolved
  <2> QED
    BY <2>1, <2>2
    DEF DifferencesInv, FilesTyped, LastTyped, CountsTyped, Differences!TypeOK
<1>3. CASE /\ Differences!HostProposes(Differences!host, wanted)
           /\ Differences!Succeeds("publish", root, DOMAIN asked)
           /\ Differences!WriteChoices(root.choices)
           /\ UNCHANGED <<dToml, dMarker, dResources, dBundle, dFaults>>
  <2>1. /\ root.choices \in Differences!ChoiceSets
        /\ root = Differences!Chosen(root.choices)
    BY <1>3, AdoptedChoices
  <2>2. Differences!Begins
    BY DEF Differences!PublishChoices
  <2> HIDE DEF root
  <2> QED
    BY <1>3, <2>1, <2>2, ChoicesKeep
<1> QED
  BY <1>1, <1>2, <1>3 DEF Differences!PublishChoices

LEMMA RemoveDifferenceKeeps ==
  ASSUME DifferencesInv, NEW i \in Instances, Differences!RemoveDifference(i)
  PROVE  DifferencesInv'
<1> DEFINE root == Differences!Without({i})
<1>1. CASE Differences!Refused(root)
  BY <1>1, RefusedKeeps DEF Differences!RemoveDifference
<1>2. FilesTyped /\ Differences!Begins /\ dInstalled' = dInstalled
  BY DifferenceTypes DEF DifferencesInv, Differences!RemoveDifference, Differences!Begins
<1>3. CASE /\ Differences!Succeeds("reset", root, {})
           /\ dToml' = [dToml EXCEPT ![i] = None]
           /\ dMarker' = dMarker \ {i}
           /\ UNCHANGED <<dResources, dBundle, dCanonical, dLegacy, dFaults>>
  <2>1. FilesTyped'
    BY <1>2, <1>3 DEF FilesTyped
  <2>2. Differences!Configured' = Differences!Configured \ {i}
          /\ \A j \in Differences!Configured' : dToml'[j] = dToml[j]
    BY <1>2, <1>3 DEF Differences!Configured, FilesTyped
  <2>3. Differences!Snapshot' = root
    <3>1. /\ IsRoot(root) /\ root.releases = Differences!Snapshot.releases
          /\ root.disabled = dMarker \ {i} /\ root.choices = Differences!Snapshot.choices
          /\ root.instances = [j \in Differences!Configured \ {i} |->
                                 Differences!Snapshot.instances[j]]
      BY WithoutIs DEF IsRoot
    <3>2. Differences!Snapshot'.instances = root.instances
      BY <2>2, <3>1, SnapshotIs, SnapshotNext
    <3>3. Differences!Snapshot'.releases = root.releases
      BY <1>2, <1>3, <3>1, SnapshotIs, SnapshotNext
    <3>4. Differences!Snapshot'.disabled = root.disabled
            /\ Differences!Snapshot'.choices = root.choices
      BY <1>3, <3>1, SnapshotIs, SnapshotNext
    <3> HIDE DEF root
    <3> QED
      BY <3>1, <3>2, <3>3, <3>4, SameRoot, SnapshotNext
  <2>4. None \in {dCanonical', dLegacy'}
    BY <1>3 DEF Differences!Succeeds, Differences!Readable
  <2>5. root.disabled \subseteq Instances /\ DOMAIN root.instances \subseteq Instances
    BY <1>2
    DEF Differences!Without, Differences!Snapshot, FilesTyped, Differences!Configured,
        Differences!Restrict
  <2> QED
    BY <1>2, <1>3, <2>1, <2>3, <2>4, <2>5, ReadsBack
<1>4. CASE /\ dFaults < MaxFailures /\ dFaults' = dFaults + 1
           /\ dLast' = None /\ dToml' = [dToml EXCEPT ![i] = None]
           /\ UNCHANGED <<dMarker, dResources, dBundle, dCanonical, dLegacy>>
  <2>1. FilesTyped' /\ LastTyped' /\ Differences!LoadsWhatItResolved'
    BY <1>2, <1>4 DEF FilesTyped, LastTyped, Differences!LoadsWhatItResolved
  <2>2. CountsTyped'
    BY <1>2, <1>4, CommandCounts DEF DifferencesInv
  <2> QED
    BY <2>1, <2>2
    DEF DifferencesInv, FilesTyped, LastTyped, CountsTyped, Differences!TypeOK
<1> QED
  BY <1>1, <1>3, <1>4 DEF Differences!RemoveDifference

\* A Bundle that is read has a descriptor of its own Plugin.
LEMMA SelectsItsPlugin ==
  ASSUME Differences!Readable, NEW b \in dBundle
  PROVE  Differences!SelectBundle(Differences!host, b).plugin = b.descriptor.plugin
<1> DEFINE same == {r \in Differences!AdmittedReleases(Differences!host) :
                      r.descriptor.plugin = b.descriptor.plugin /\ r.digest = b.digest}
<1>1. CASE Differences!host.kind = "legacy"
  BY <1>1 DEF Differences!SelectBundle
<1>2. CASE Differences!host.kind # "legacy"
  <2>1. same # {}
    BY <1>2 DEF Differences!Readable, Differences!SelectBundle
  <2>2. (CHOOSE r \in same : TRUE) \in same
    BY <2>1
  <2> QED
    BY <1>2, <2>1, <2>2 DEF Differences!SelectBundle
<1> QED
  BY <1>1, <1>2

LEMMA RemovePluginKeeps ==
  ASSUME DifferencesInv, NEW p, Differences!RemovePlugin(p)
  PROVE  DifferencesInv'
<1> DEFINE root == Differences!WithoutPlugin(p)
           gone == {i \in Instances : i[1] = p}
<1>1. CASE Differences!Refused(root)
  BY <1>1, RefusedKeeps DEF Differences!RemovePlugin
<1>2. CASE /\ Differences!Succeeds("remove", root, {})
           /\ dToml' = [i \in Instances |-> IF i \in gone THEN None ELSE dToml[i]]
           /\ dMarker' = dMarker \ gone /\ dResources' = dResources \ gone
           /\ dBundle' = {b \in dBundle : b.descriptor.plugin # p}
           /\ UNCHANGED <<dCanonical, dLegacy, dFaults>>
  <2>1. /\ FilesTyped /\ Differences!Begins /\ dInstalled' = dInstalled
        /\ Differences!Readable
    BY <1>2, DifferenceTypes
    DEF DifferencesInv, Differences!RemovePlugin, Differences!Begins, Differences!Succeeds
  <2>2. FilesTyped'
    BY <1>2, <2>1 DEF FilesTyped
  <2>3. Differences!Configured' = Differences!Configured \ gone
          /\ \A j \in Differences!Configured' : dToml'[j] = dToml[j]
    BY <1>2, <2>1 DEF Differences!Configured, FilesTyped
  <2>4. {Differences!SelectBundle(Differences!host, b) : b \in dBundle'} =
          {d \in {Differences!SelectBundle(Differences!host, b) : b \in dBundle} : d.plugin # p}
    BY <1>2, <2>1, SelectsItsPlugin
  <2>5. /\ IsRoot(root) /\ root.disabled = dMarker \ gone
        /\ root.choices = Differences!Snapshot.choices
        /\ root.releases = {d \in Differences!Snapshot.releases : d.plugin # p}
        /\ root.instances = [j \in Differences!Configured \ gone |->
                               Differences!Snapshot.instances[j]]
    BY WithoutPluginIs DEF IsRoot
  <2>6. Differences!Snapshot'.instances = root.instances
    BY <2>3, <2>5, SnapshotIs, SnapshotNext
  <2>7. Differences!Snapshot'.releases = root.releases
    BY <2>1, <2>4, <2>5, SnapshotIs, SnapshotNext
  <2>8. Differences!Snapshot'.disabled = root.disabled
          /\ Differences!Snapshot'.choices = root.choices
    BY <1>2, <2>5, SnapshotIs, SnapshotNext
  <2>9. Differences!Orphans' = {} /\ None \in {dCanonical', dLegacy'}
    BY <1>2, <2>1, <2>3 DEF Differences!Readable, Differences!Orphans
  <2>10. root.disabled \subseteq Instances /\ DOMAIN root.instances \subseteq Instances
    BY <2>1, <2>5 DEF FilesTyped, Differences!Configured
  <2> HIDE DEF root, gone
  <2>11. Differences!Snapshot' = root /\ dBundle' \subseteq dBundle
    BY <1>2, <2>5, <2>6, <2>7, <2>8, SameRoot, SnapshotNext
  <2> QED
    BY <1>2, <2>1, <2>2, <2>9, <2>10, <2>11, ReadsBack
<1> QED
  BY <1>1, <1>2 DEF Differences!RemovePlugin

\* A person and another Host change files, and nothing is said of them.
LEMMA BetweenCommandsKeeps ==
  ASSUME DifferencesInv,
         \/ \E i \in Instances : Differences!AddResources(i)
         \/ \E b \in RootBundles : Differences!SwapBundle(b)
         \/ \E h \in HostNames : Differences!ReplaceHost(h)
  PROVE  DifferencesInv'
<1>1. FilesTyped /\ CountsTyped /\ {MaxPersonEdits, MaxNewHosts} \subseteq Nat
  BY DifferenceTypes, DifferencesAssumption DEF DifferencesInv
<1>2. dLast' = None
  BY DEF Differences!AddResources, Differences!SwapBundle, Differences!ReplaceHost,
     Differences!Edits
<1>3. CountsTyped'
  BY <1>1 DEF CountsTyped, Differences!AddResources, Differences!SwapBundle,
     Differences!ReplaceHost, Differences!Edits
<1>4. ASSUME NEW i \in Instances, Differences!AddResources(i)
      PROVE  FilesTyped'
  <2>1. PICK c \in Configurations : dToml' = [dToml EXCEPT ![i] = IF @ = None THEN c ELSE @]
    BY <1>4 DEF Differences!AddResources
  <2> QED
    BY <1>1, <1>4, <2>1 DEF Differences!AddResources, FilesTyped
<1>5. ASSUME NEW b \in RootBundles, Differences!SwapBundle(b)
      PROVE  FilesTyped'
  BY <1>1, <1>5 DEF Differences!SwapBundle, FilesTyped
<1>6. ASSUME NEW h \in HostNames, Differences!ReplaceHost(h)
      PROVE  FilesTyped'
  BY <1>1, <1>6 DEF Differences!ReplaceHost, Differences!files, FilesTyped
<1>7. FilesTyped'
  BY <1>4, <1>5, <1>6
<1>8. LastTyped' /\ Differences!LoadsWhatItResolved'
  BY <1>2 DEF LastTyped, Differences!LoadsWhatItResolved
<1> QED
  BY <1>3, <1>7, <1>8
  DEF DifferencesInv, FilesTyped, LastTyped, CountsTyped, Differences!TypeOK

LEMMA DifferenceSteps == DifferencesInv /\ [Differences!Next]_differenceVars => DifferencesInv'
<1> SUFFICES ASSUME DifferencesInv, [Differences!Next]_differenceVars
             PROVE  DifferencesInv'
  OBVIOUS
<1>1. CASE UNCHANGED differenceVars
  BY <1>1
  DEF differenceVars, DifferencesInv, Differences!TypeOK, Differences!LoadsWhatItResolved,
      Differences!Readable, Differences!Snapshot, Differences!host, Differences!Orphans,
      Differences!Configured
<1>2. ASSUME Differences!Command
      PROVE  DifferencesInv'
  BY <1>2, ConfigureKeeps, SetDisabledKeeps, SetSelectionsKeeps, PublishChoicesKeeps,
     RemoveDifferenceKeeps, RemovePluginKeeps DEF Differences!Command, Differences!Bind
<1> QED
  BY <1>1, <1>2, BetweenCommandsKeeps DEF Differences!Next

\* What resolves under a Host with a policy runs what that Host admits.
LEMMA AdmittedRuns == DifferencesInv => Differences!RunsWhatTheHostAdmits
<1> DEFINE h == Differences!host
           root == Differences!Snapshot
           app == Differences!App(h, root)
<1> SUFFICES ASSUME DifferencesInv, Differences!Loads, h.kind # "legacy"
             PROVE  /\ \A i \in DOMAIN app :
                         \/ app[i] \in Differences!AdmittedDescriptors(h)
                         \/ i \in Differences!DefaultIds(h) /\ app[i] \in h.plugins
                    /\ \A b \in dBundle : b \in Differences!AdmittedReleases(h)
                                          /\ Differences!BelongsTo(h, b)
                    /\ \A rule \in h.admissions : Differences!WithinRule(h, root, app, rule)
                    /\ h.kind = "closed" => Differences!DefaultIds(h) \intersect dMarker = {}
  BY DEF Differences!RunsWhatTheHostAdmits
<1>1. /\ Differences!Readable /\ Differences!ValidPolicy(h) /\ Differences!Admits(h, root)
      /\ Differences!Resolved(h, root, app)
      /\ \A rule \in h.admissions : Differences!WithinRule(h, root, app, rule)
  BY DEF Differences!Loads, Differences!HostResolves
<1>2. ASSUME NEW i \in DOMAIN app
      PROVE  \/ app[i] \in Differences!AdmittedDescriptors(h)
             \/ i \in Differences!DefaultIds(h) /\ app[i] \in h.plugins
  <2>1. /\ app[i] = Differences!Described(h, root, i[1])
        /\ i \in Differences!DefaultIds(h) \union DOMAIN root.instances
    BY <1>2 DEF Differences!App, Differences!DefaultIds
  <2>2. app[i] # None
    BY <1>1, <1>2 DEF Differences!Resolved
  <2>3. CASE i \notin Differences!DefaultIds(h)
    BY <1>1, <2>1, <2>3 DEF Differences!Admits
  <2>4. CASE i \in Differences!DefaultIds(h)
    <3> DEFINE own == {d \in root.releases : d.plugin = i[1]}
               theirs == {d \in h.plugins : d.plugin = i[1]}
    <3>1. CASE own # {}
      <4>1. app[i] \in own
        BY <2>1, <3>1 DEF Differences!Described
      <4> QED
        BY <1>1, <4>1 DEF Differences!Admits
    <3>2. CASE own = {} /\ theirs # {}
      <4>1. app[i] \in theirs
        BY <2>1, <3>2 DEF Differences!Described
      <4> QED
        BY <2>4, <4>1
    <3>3. CASE own = {} /\ theirs = {}
      BY <2>1, <2>2, <3>3 DEF Differences!Described
    <3> QED
      BY <3>1, <3>2, <3>3
  <2> QED
    BY <2>3, <2>4
<1>3. ASSUME NEW b \in dBundle
      PROVE  b \in Differences!AdmittedReleases(h) /\ Differences!BelongsTo(h, b)
  <2>1. b \in RootBundles /\ dInstalled \in HostNames
    BY DifferenceTypes DEF DifferencesInv, FilesTyped, CountsTyped
  <2>2. Differences!SelectBundle(h, b) # None
    BY <1>1 DEF Differences!Readable
  <2>3. PICK r \in Differences!AdmittedReleases(h) :
          r.descriptor.plugin = b.descriptor.plugin /\ r.digest = b.digest
    BY <2>2 DEF Differences!SelectBundle
  <2>4. r = b /\ b = [descriptor |-> b.descriptor, digest |-> b.digest]
    BY <2>1, <2>3, DigestAssumption DEF Differences!host
  <2> QED
    BY <2>3, <2>4 DEF Differences!BelongsTo
<1>4. h.kind = "closed" => Differences!DefaultIds(h) \intersect dMarker = {}
  BY <1>1
  DEF Differences!ValidPolicy, Differences!Resolved, Differences!DefaultIds, Differences!Snapshot
<1> HIDE DEF h, root, app
<1> QED
  BY <1>1, <1>2, <1>3, <1>4

-----------------------------------------------------------------------------
(* Saved dependency choices.                                               *)

SavedNow == Differences!Saved(Differences!Snapshot)

\* What is asked of one command that succeeded.
ChangesAsAsked ==
  dLast' # None =>
    LET asked == dLast'.asked IN
      /\ \A k \in (DOMAIN SavedNow) \intersect DOMAIN SavedNow' : SavedNow[k] # SavedNow'[k] =>
           k \in asked \/ dLast'.op \in {"replace", "publish"}
      /\ \A m \in Differences!Migrations(SavedNow, SavedNow') :
           dLast'.op = "publish" /\ Differences!Cardinality(m[2]) > 1 => m[2] \subseteq asked

\* The other commands leave the choices as they are, or say nothing of them.
LEMMA ChoicesStay ==
  ASSUME UNCHANGED <<dCanonical, dLegacy>>, dLast' = None \/ dLast'.op \notin {"replace", "publish"}
  PROVE  ChangesAsAsked
<1>1. Differences!Snapshot.choices' = Differences!Snapshot.choices
  BY DEF Differences!Snapshot
<1>2. SavedNow' = SavedNow
  BY <1>1 DEF SavedNow, Differences!Saved
<1> QED
  BY <1>2 DEF ChangesAsAsked

\* What is written is what is saved.
LEMMA WritesSaved ==
  ASSUME NEW choices \in Differences!ChoiceSets, Differences!WriteChoices(choices)
  PROVE  SavedNow' = choices
<1>1. choices # None
  BY ChoiceSetParts
<1>2. dCanonical' = choices
  BY DEF Differences!WriteChoices
<1>3. Differences!Snapshot'.choices = choices
  BY <1>1, <1>2 DEF Differences!Snapshot
<1> QED
  BY <1>1, <1>3 DEF SavedNow, Differences!Saved

LEMMA MergedType ==
  ASSUME Differences!TypeOK, NEW asked \in RootRequests
  PROVE  Differences!Merged(asked, FALSE) \in Differences!ChoiceSets
<1> DEFINE S == (DOMAIN SavedNow) \union DOMAIN asked
<1>1. SavedNow \in Differences!ChoiceSets /\ asked \in Differences!ChoiceSets
  BY SavedType, DifferencesAssumption DEF SavedNow
<1>2. /\ DOMAIN SavedNow \subseteq Keys /\ SavedNow \in [DOMAIN SavedNow -> Instances]
      /\ DOMAIN asked \subseteq Keys /\ asked \in [DOMAIN asked -> Instances]
  BY <1>1, ChoiceSetParts
<1>3. S \in SUBSET Keys
  BY <1>2
<1>4. Differences!Merged(asked, FALSE) \in [S -> Instances]
  BY <1>2 DEF Differences!Merged, SavedNow
<1> QED
  BY <1>3, <1>4, ChoiceSetType

\* A proposal keeps a saved choice that it keeps at all.
LEMMA ProposesSaved ==
  ASSUME NEW h, NEW root, NEW k \in DOMAIN Differences!Proposed(h, root),
         k \in DOMAIN Differences!Saved(root)
  PROVE  Differences!Proposed(h, root)[k] = Differences!Saved(root)[k]
<1> DEFINE app == Differences!App(h, root)
           keys == Differences!Selectable(h, app)
           key == CHOOSE x \in keys : <<x[1], x[2].id>> = k
<1>1. key \in keys /\ <<key[1], key[2].id>> = k
  BY DEF Differences!Proposed
<1>2. Differences!Proposed(h, root)[k] = Differences!Bound(h, root, app, key)
  BY DEF Differences!Proposed
<1>3. Differences!Bound(h, root, app, key) = Differences!Saved(root)[k]
  BY <1>1 DEF Differences!Bound
<1> QED
  BY <1>2, <1>3

LEMMA SelectionsAsAsked ==
  ASSUME DifferencesInv, NEW asked \in RootRequests, NEW all \in BOOLEAN,
         Differences!SetSelections(asked, all)
  PROVE  ChangesAsAsked
<1> DEFINE merged == Differences!Merged(asked, all)
           wanted == Differences!Chosen(merged)
           root == Differences!Adopted(merged)
<1>1. wanted.choices = merged
  BY DEF Differences!Chosen, Differences!Snapshot
<1>2. CASE Differences!Refused(wanted) \/ Differences!Refused(root)
  BY <1>2 DEF Differences!Refused, ChangesAsAsked
<1>3. CASE /\ Differences!HostProposes(Differences!host, wanted)
           /\ Differences!Succeeds(IF all THEN "replace" ELSE "select", root, DOMAIN asked)
           /\ Differences!WriteChoices(root.choices)
  <2>1. /\ root.choices \in Differences!ChoiceSets
        /\ root.choices = Differences!Proposed(Differences!host, wanted)
    BY <1>3, AdoptedChoices
  <2>2. SavedNow' = root.choices
    BY <1>3, <2>1, WritesSaved
  <2>3. dLast'.asked = DOMAIN asked /\ dLast'.op = IF all THEN "replace" ELSE "select"
    BY <1>3 DEF Differences!Succeeds
  <2>4. CASE all
    BY <2>3, <2>4 DEF ChangesAsAsked, Differences!SetSelections
  <2>5. CASE ~all
    <3>1. merged # None
      BY <2>5, MergedType, ChoiceSetParts DEF DifferencesInv
    <3>2. Differences!Saved(wanted) = merged
      BY <1>1, <3>1 DEF Differences!Saved
    <3>3. ASSUME NEW k \in (DOMAIN SavedNow) \intersect DOMAIN SavedNow', k \notin DOMAIN asked
          PROVE  SavedNow'[k] = SavedNow[k]
      <4>1. k \in DOMAIN merged /\ merged[k] = SavedNow[k]
        BY <2>5, <3>3 DEF Differences!Merged, SavedNow
      <4>2. SavedNow'[k] = Differences!Saved(wanted)[k]
        BY <2>1, <2>2, <3>2, <3>3, <4>1, ProposesSaved
      <4> QED
        BY <3>2, <4>1, <4>2
    <3> QED
      BY <2>3, <2>5, <3>3 DEF ChangesAsAsked
  <2> QED
    BY <2>4, <2>5
<1> QED
  BY <1>1, <1>2, <1>3 DEF Differences!SetSelections

\* A reviewed change is published only with every part of a split requirement.
LEMMA PublishedAsAsked ==
  ASSUME DifferencesInv, NEW asked \in RootRequests, Differences!PublishChoices(asked)
  PROVE  ChangesAsAsked
<1> DEFINE wanted == Differences!Chosen(asked)
           root == Differences!Adopted(asked)
<1>1. CASE dLast' = None
  BY <1>1 DEF ChangesAsAsked
<1>2. CASE /\ Differences!HostProposes(Differences!host, wanted)
           /\ ~Differences!UnreviewedSplit(SavedNow, Differences!Saved(root), asked)
           /\ Differences!Succeeds("publish", root, DOMAIN asked)
           /\ Differences!WriteChoices(root.choices)
  <2>1. root.choices \in Differences!ChoiceSets
    BY <1>2, AdoptedChoices
  <2>2. SavedNow' = root.choices /\ Differences!Saved(root) = root.choices
    BY <1>2, <2>1, WritesSaved, ChoiceSetParts DEF Differences!Saved
  <2>3. dLast'.asked = DOMAIN asked /\ dLast'.op = "publish"
    BY <1>2 DEF Differences!Succeeds
  <2>4. \A m \in Differences!Migrations(SavedNow, SavedNow') :
          Differences!Cardinality(m[2]) > 1 => m[2] \subseteq DOMAIN asked
    BY <1>2, <2>2 DEF Differences!UnreviewedSplit
  <2> QED
    BY <2>3, <2>4 DEF ChangesAsAsked
<1> QED
  BY <1>1, <1>2 DEF Differences!PublishChoices, Differences!Refused, SavedNow

LEMMA AllChangeAsAsked ==
  DifferencesInv /\ [Differences!Next]_differenceVars => [ChangesAsAsked]_differenceVars
<1> SUFFICES ASSUME DifferencesInv, Differences!Next
             PROVE  ChangesAsAsked
  OBVIOUS
<1>1. ASSUME NEW i \in Instances, NEW c \in Configurations, Differences!Configure(i, c)
      PROVE  ChangesAsAsked
  BY <1>1, ChoicesStay
  DEF Differences!Configure, Differences!Succeeds, Differences!Refused, Differences!files
<1>2. ASSUME NEW i \in Instances, NEW d \in BOOLEAN, Differences!SetDisabled(i, d)
      PROVE  ChangesAsAsked
  BY <1>2, ChoicesStay
  DEF Differences!SetDisabled, Differences!Succeeds, Differences!Refused, Differences!files
<1>3. ASSUME NEW i \in Instances, Differences!RemoveDifference(i)
      PROVE  ChangesAsAsked
  BY <1>3, ChoicesStay
  DEF Differences!RemoveDifference, Differences!Succeeds, Differences!Refused, Differences!files
<1>4. ASSUME NEW p, Differences!RemovePlugin(p)
      PROVE  ChangesAsAsked
  BY <1>4, ChoicesStay
  DEF Differences!RemovePlugin, Differences!Succeeds, Differences!Refused, Differences!files
<1>5. ASSUME Differences!Command
      PROVE  ChangesAsAsked
  BY <1>1, <1>2, <1>3, <1>4, <1>5, SelectionsAsAsked, PublishedAsAsked
  DEF Differences!Command, Differences!Bind
<1>6. ASSUME \/ \E i \in Instances : Differences!AddResources(i)
             \/ \E b \in RootBundles : Differences!SwapBundle(b)
             \/ \E h \in HostNames : Differences!ReplaceHost(h)
      PROVE  dLast' = None
  BY <1>6
  DEF Differences!AddResources, Differences!SwapBundle, Differences!ReplaceHost,
      Differences!Edits
<1>7. dLast' = None => ChangesAsAsked
  BY DEF ChangesAsAsked
<1> QED
  BY <1>5, <1>6, <1>7 DEF Differences!Next

\* The steps of the other kinds leave these files alone.
LEMMA DifferencesRun ==
  AuthoringSpec => Differences!Init /\ [][Differences!Next]_differenceVars
<1>1. AuthoringInit => Differences!Init
  BY DEF AuthoringInit
<1>2. [AuthoringNext]_authoringVars => [Differences!Next]_differenceVars
  BY DEF AuthoringNext, authoringVars, otherVars, differenceVars, Rests
<1> QED
  BY <1>1, <1>2, PTL DEF AuthoringSpec

LEMMA DifferencesKept == AuthoringSpec => []DifferencesInv
BY InitDifferences, DifferenceSteps, DifferencesRun, PTL

\* For any Host builds, Bundles and files a person may leave: an App that loads runs what
\* its Host admits.
THEOREM AppsRunWhatIsAdmitted == AuthoringSpec => []RunsWhatTheHostAdmits
<1>1. DifferencesInv => RunsWhatTheHostAdmits
  BY AdmittedRuns DEF RunsWhatTheHostAdmits
<1> QED
  BY <1>1, DifferencesKept, PTL

\* For any of these: a saved choice changes only where a command was asked to, and a
\* reviewed change leaves no part of a split requirement out.
THEOREM ChoicesAreAsked == AuthoringSpec => ChoicesChangeAsAsked
<1>1. [ChangesAsAsked]_differenceVars <=>
        [LET before == Differences!Saved(Differences!Snapshot)
             after == Differences!Saved(Differences!Snapshot)'
         IN dLast' # None =>
            LET asked == dLast'.asked IN
              /\ \A k \in (DOMAIN before) \intersect DOMAIN after : before[k] # after[k] =>
                   k \in asked \/ dLast'.op \in {"replace", "publish"}
              /\ \A m \in Differences!Migrations(before, after) :
                   dLast'.op = "publish" /\ Differences!Cardinality(m[2]) > 1 =>
                     m[2] \subseteq asked]_(Differences!vars)
  BY DEF ChangesAsAsked, SavedNow, differenceVars, Differences!vars, Differences!files
<1> QED
  BY <1>1, DifferencesKept, DifferencesRun, AllChangeAsAsked, PTL
  DEF ChoicesChangeAsAsked, Differences!ChoicesChangeAsAsked

-----------------------------------------------------------------------------
(* Installed Bundles: a behaviour of them is one of PluginStore.           *)

StoreProofs == INSTANCE PluginStore_proofs WITH
  Plugins <- StorePlugins, Versions <- StoreVersions, Builds <- StoreBuilds,
  Unmade <- UnmadeBundles, Foreign <- ForeignBundles,
  MaxCommands <- MaxStoreCommands, MaxFaults <- MaxFailures,
  visible <- sVisible, directory <- sDirectory, store <- sStore, trash <- sTrash,
  lock <- sLock, pc <- sPc, job <- sJob, staged <- sStaged, result <- sResult,
  landed <- sLanded, held <- sHeld, commands <- sCommands, faults <- sFaults

\* Both instances are of the same definitions.
LEMMA SameStore ==
  /\ Store!Init <=> StoreProofs!Init
  /\ Store!Next <=> StoreProofs!Next
  /\ Store!RootResolves <=> StoreProofs!RootResolves
  /\ Store!NothingIsLost <=> StoreProofs!NothingIsLost
  /\ Store!ReportsItsCommit <=> StoreProofs!ReportsItsCommit
<1>1. Store!Init <=> StoreProofs!Init
  BY DEF Store!Init, StoreProofs!Init, Store!Bundles, StoreProofs!Bundles,
     Store!BundlesResolve, StoreProofs!BundlesResolve, Store!Choice, StoreProofs!Choice,
     Store!Idle, StoreProofs!Idle
<1>2. Store!Next <=> StoreProofs!Next
  BY DEF Store!Bundles, StoreProofs!Bundles, Store!Archives, StoreProofs!Archives,
     Store!rootVars, StoreProofs!rootVars, Store!vars, StoreProofs!vars, Store!Ops,
     StoreProofs!Ops, Store!Idle, StoreProofs!Idle, Store!Choice, StoreProofs!Choice,
     Store!BundlesResolve, StoreProofs!BundlesResolve, Store!Again, StoreProofs!Again,
     Store!Published, StoreProofs!Published, Store!Ends, StoreProofs!Ends, Store!Goes,
     StoreProofs!Goes, Store!Begins, StoreProofs!Begins, Store!Stages, StoreProofs!Stages,
     Store!Add, StoreProofs!Add, Store!Fetch, StoreProofs!Fetch, Store!Rollback,
     StoreProofs!Rollback, Store!RollbackUnavailable, StoreProofs!RollbackUnavailable,
     Store!Admissible, StoreProofs!Admissible, Store!Expected, StoreProofs!Expected,
     Store!AfterPrepare, StoreProofs!AfterPrepare, Store!Prepare, StoreProofs!Prepare,
     Store!Refuse, StoreProofs!Refuse, Store!Retained, StoreProofs!Retained, Store!Place,
     StoreProofs!Place, Store!AfterRetain, StoreProofs!AfterRetain, Store!AlreadyRetained,
     StoreProofs!AlreadyRetained, Store!DifferentBytes, StoreProofs!DifferentBytes,
     Store!StartCopy, StoreProofs!StartCopy, Store!FinishCopy, StoreProofs!FinishCopy,
     Store!MakeParent, StoreProofs!MakeParent, Store!Replaces, StoreProofs!Replaces,
     Store!Publish, StoreProofs!Publish, Store!RetireOutcome, StoreProofs!RetireOutcome,
     Store!Retire, StoreProofs!Retire, Store!Remove, StoreProofs!Remove, Store!Error,
     StoreProofs!Error, Store!PublishFails, StoreProofs!PublishFails, Store!Kill,
     StoreProofs!Kill, Store!Step, StoreProofs!Step, Store!Next, StoreProofs!Next
<1>3. Store!RootResolves <=> StoreProofs!RootResolves
  BY DEF Store!RootResolves, StoreProofs!RootResolves, Store!BundlesResolve,
     StoreProofs!BundlesResolve, Store!Choice, StoreProofs!Choice
<1>4. Store!NothingIsLost <=> StoreProofs!NothingIsLost
  BY DEF Store!NothingIsLost, StoreProofs!NothingIsLost
<1>5. Store!ReportsItsCommit <=> StoreProofs!ReportsItsCommit
  BY DEF Store!ReportsItsCommit, StoreProofs!ReportsItsCommit
<1> QED
  BY <1>1, <1>2, <1>3, <1>4, <1>5

LEMMA StoreNamesApart == StoreProofs!NamesApart
BY StoreAssumption
DEF StoreProofs!NamesApart, Store!Bundles, StoreProofs!Bundles, Store!Archives,
   StoreProofs!Archives

LEMMA StoreRuns == AuthoringSpec => StoreProofs!Spec
<1>1. AuthoringInit => StoreProofs!Init
  BY SameStore DEF AuthoringInit
<1>2. [AuthoringNext]_authoringVars => [StoreProofs!Next]_(StoreProofs!vars)
  <2>1. ASSUME UNCHANGED storeVars
        PROVE  UNCHANGED StoreProofs!vars
    BY <2>1 DEF storeVars, StoreProofs!vars
  <2> QED
    BY <2>1, SameStore DEF AuthoringNext, authoringVars, otherVars, Rests
<1> QED
  BY <1>1, <1>2, PTL DEF AuthoringSpec, StoreProofs!Spec

\* For any Bundles, processes and failures: no command overwrites a Bundle that cannot be
\* brought back, and each reports whether it changed plugins/.
THEOREM InstalledBundlesAreKept == AuthoringSpec => []NothingIsLost
<1>1. StoreProofs!Spec => []StoreProofs!NothingIsLost
  BY StoreNamesApart, StoreProofs!BundlesAreKept
<1>2. StoreProofs!Spec => []StoreProofs!ReportsItsCommit
  BY StoreNamesApart, StoreProofs!ReportsAreTrue
<1>3. StoreProofs!NothingIsLost /\ StoreProofs!ReportsItsCommit => NothingIsLost
  BY SameStore DEF NothingIsLost
<1> QED
  BY <1>1, <1>2, <1>3, StoreRuns, PTL

\* For any of these, and any Hosts and files: what plugins/ holds makes an App, which is
\* the App the last command resolved.
THEOREM WhatIsWrittenResolves == AuthoringSpec => []RootResolves
<1>1. StoreProofs!Spec => []StoreProofs!RootResolves
  BY StoreNamesApart, StoreProofs!AppAlwaysResolves
<1>2. StoreProofs!RootResolves /\ DifferencesInv => RootResolves
  BY SameStore DEF RootResolves, DifferencesInv
<1> QED
  BY <1>1, <1>2, StoreRuns, DifferencesKept, PTL

-----------------------------------------------------------------------------
(* Plugin projects: the steps of a command.                                *)

ProjectSteps == [do : {"build", "describe", "typecheck", "bundle", "refuse"},
                 of : {"wasm", "process", "bun", None}]

\* A Process describes itself right before it is bundled; a project of one runtime
\* bundles once, and one of both Rust implementations twice.
WellFormed(s, runtime) ==
  /\ s \in Seq(ProjectSteps)
  /\ \A k \in DOMAIN s : s[k].do \in {"build", "bundle"} =>
       /\ s[k].of \in {"wasm", "process", "bun"}
       /\ s[k].do = "build" => s[k].of # "bun"
       /\ runtime = "composite" => s[k].of # "wasm"
  /\ \A k \in DOMAIN s : k > 1 /\ s[k].do = "bundle" /\ s[k].of = "process" =>
       s[k - 1].do = "describe"
  /\ runtime # "composite" => \A k \in DOMAIN s : k < Len(s) /\ s[k].do = "bundle" =>
       runtime = "multi" /\ k = Len(s) - 2
  /\ s # <<>> => s[Len(s)].do \in {"bundle", "refuse"}

Starts(s, runtime) == WellFormed(s, runtime) /\ s # <<>> /\ s[1].do # "bundle"

LEMMA StepTypes ==
  ASSUME NEW what \in {"build", "describe", "typecheck", "bundle", "refuse"},
         NEW i \in {"wasm", "process", "bun", None}
  PROVE  /\ Projects!Do(what, i) \in ProjectSteps
         /\ Projects!Do(what, i).do = what /\ Projects!Do(what, i).of = i
BY DEF Projects!Do, ProjectSteps

LEMMA TailWellFormed ==
  ASSUME NEW runtime, NEW s, WellFormed(s, runtime), s # <<>>
  PROVE  /\ WellFormed(Tail(s), runtime)
         /\ Tail(s) # <<>> /\ Tail(s)[1].do = "bundle" /\ Tail(s)[1].of = "process" =>
              s[1].do = "describe"
<1>1. /\ s \in Seq(ProjectSteps) /\ Tail(s) \in Seq(ProjectSteps) /\ Len(s) \in Nat
      /\ Len(Tail(s)) = Len(s) - 1 /\ DOMAIN s = 1..Len(s)
      /\ DOMAIN Tail(s) = 1..(Len(s) - 1) /\ Len(s) >= 1
  BY DEF WellFormed
<1>2. \A k \in DOMAIN Tail(s) : k + 1 \in DOMAIN s /\ Tail(s)[k] = s[k + 1]
  BY <1>1
<1>3. Tail(s) # <<>> => 1 \in DOMAIN Tail(s)
  BY <1>1
<1> DEFINE t == Tail(s)
<1>4. \A k \in DOMAIN t : t[k].do \in {"build", "bundle"} =>
        /\ t[k].of \in {"wasm", "process", "bun"}
        /\ t[k].do = "build" => t[k].of # "bun"
        /\ runtime = "composite" => t[k].of # "wasm"
  BY <1>2 DEF WellFormed
<1>5. ASSUME NEW k \in DOMAIN t, t[k].do = "bundle", t[k].of = "process"
      PROVE  s[k].do = "describe"
  <2>1. k + 1 \in DOMAIN s /\ k + 1 > 1 /\ (k + 1) - 1 = k /\ t[k] = s[k + 1]
    BY <1>1, <1>2
  <2> QED
    BY <1>5, <2>1 DEF WellFormed
<1>6. \A k \in DOMAIN t : k > 1 => k - 1 \in DOMAIN t /\ t[k - 1] = s[k]
  BY <1>1, <1>2
<1>7. ASSUME runtime # "composite", NEW k \in DOMAIN t, k < Len(t), t[k].do = "bundle"
      PROVE  runtime = "multi" /\ k = Len(t) - 2
  <2>1. k + 1 \in DOMAIN s /\ k + 1 < Len(s) /\ t[k] = s[k + 1]
    BY <1>1, <1>2, <1>7
  <2>2. runtime = "multi" /\ k + 1 = Len(s) - 2
    BY <1>7, <2>1 DEF WellFormed
  <2> QED
    BY <1>1, <2>2
<1>9. ASSUME t # <<>>
      PROVE  t[Len(t)].do \in {"bundle", "refuse"}
  <2>1. Len(t) \in DOMAIN t /\ Len(t) + 1 = Len(s)
    BY <1>1, <1>9
  <2>2. t[Len(t)] = s[Len(s)]
    BY <1>2, <2>1
  <2> QED
    BY <2>2 DEF WellFormed
<1> HIDE DEF t
<1>8. WellFormed(t, runtime)
  BY <1>1, <1>4, <1>5, <1>6, <1>7, <1>9 DEF WellFormed, t
<1> QED
  BY <1>3, <1>5, <1>8 DEF t

LEMMA RefusedStarts ==
  ASSUME NEW runtime
  PROVE  Starts(Projects!Refused, runtime)
<1>1. Projects!Refused = <<Projects!Do("refuse", None)>>
  BY DEF Projects!Refused
<1>2. Projects!Do("refuse", None) \in ProjectSteps /\ Projects!Do("refuse", None).do = "refuse"
  BY StepTypes
<1>3. /\ Projects!Refused \in Seq(ProjectSteps) /\ Len(Projects!Refused) = 1 /\ DOMAIN Projects!Refused = {1}
      /\ Projects!Refused[1].do = "refuse" /\ Projects!Refused # <<>>
  BY <1>1, <1>2
<1> QED
  BY <1>3 DEF Starts, WellFormed

LEMMA OneStarts ==
  ASSUME NEW runtime, NEW i
  PROVE  /\ Starts(Projects!StepsOf("process"), runtime)
         /\ Starts(Projects!StepsOf("npm"), runtime)
         /\ runtime # "composite" => Starts(Projects!StepsOf(i), runtime)
<1> USE DEF Projects!StepsOf
<1>1. Starts(Projects!StepsOf("process"), runtime)
  <2> DEFINE s == Projects!StepsOf("process")
  <2>1. s = <<Projects!Do("build", "process"), Projects!Do("describe", "process"),
              Projects!Do("bundle", "process")>>
    OBVIOUS
  <2>2. /\ s \in Seq(ProjectSteps) /\ Len(s) = 3 /\ DOMAIN s = {1, 2, 3} /\ s # <<>>
        /\ s[1].do = "build" /\ s[2].do = "describe" /\ s[3].do = "bundle"
        /\ s[1].of = "process" /\ s[3].of = "process"
    BY <2>1, StepTypes
  <2> HIDE DEF s
  <2>3. Starts(s, runtime)
    BY <2>2 DEF Starts, WellFormed
  <2> QED
    BY <2>3 DEF s
<1>2. Starts(Projects!StepsOf("npm"), runtime)
  <2> DEFINE s == Projects!StepsOf("npm")
  <2>1. s = <<Projects!Do("typecheck", "bun"), Projects!Do("bundle", "bun")>>
    OBVIOUS
  <2>2. /\ s \in Seq(ProjectSteps) /\ Len(s) = 2 /\ DOMAIN s = {1, 2} /\ s # <<>>
        /\ s[1].do = "typecheck" /\ s[2].do = "bundle" /\ s[2].of = "bun"
    BY <2>1, StepTypes
  <2> HIDE DEF s
  <2>3. Starts(s, runtime)
    BY <2>2 DEF Starts, WellFormed
  <2> QED
    BY <2>3 DEF s
<1>3. ASSUME runtime # "composite"
      PROVE  Starts(Projects!StepsOf("wasm"), runtime)
  <2> DEFINE s == Projects!StepsOf("wasm")
  <2>1. s = <<Projects!Do("build", "wasm"), Projects!Do("bundle", "wasm")>>
    OBVIOUS
  <2>2. /\ s \in Seq(ProjectSteps) /\ Len(s) = 2 /\ DOMAIN s = {1, 2} /\ s # <<>>
        /\ s[1].do = "build" /\ s[2].do = "bundle" /\ s[1].of = "wasm" /\ s[2].of = "wasm"
    BY <2>1, StepTypes
  <2> HIDE DEF s
  <2>3. Starts(s, runtime)
    BY <1>3, <2>2 DEF Starts, WellFormed
  <2> QED
    BY <2>3 DEF s
<1>4. \/ i = "wasm" \/ i = "process" \/ i = "npm" \/ Projects!StepsOf(i) = Projects!Refused
  OBVIOUS
<1> QED
  BY <1>1, <1>2, <1>3, <1>4, RefusedStarts

LEMMA MultiStarts == Starts(Projects!Multi, "multi")
<1> DEFINE s == Projects!Multi
<1>1. s = <<Projects!Do("build", "wasm"), Projects!Do("build", "process"),
            Projects!Do("bundle", "wasm"), Projects!Do("describe", "process"),
            Projects!Do("bundle", "process")>>
  BY DEF Projects!Multi
<1>2. /\ s \in Seq(ProjectSteps) /\ Len(s) = 5 /\ DOMAIN s = {1, 2, 3, 4, 5} /\ s # <<>>
      /\ s[1].do = "build" /\ s[1].of = "wasm" /\ s[2].do = "build" /\ s[2].of = "process"
      /\ s[3].do = "bundle" /\ s[3].of = "wasm" /\ s[4].do = "describe"
      /\ s[5].do = "bundle" /\ s[5].of = "process"
  BY <1>1, StepTypes
<1> HIDE DEF s
<1>3. Starts(s, "multi")
  BY <1>2 DEF Starts, WellFormed
<1> QED
  BY <1>3 DEF s

\* A command of a project that is not composite makes one list of steps.
LEMMA PlanIs ==
  ASSUME NEW m \in Metadata, NEW command
  PROVE  LET plan == Projects!Plan(m, command)
             runtime == Projects!ProjectRuntime(m)
         IN /\ plan \in Seq(Seq(ProjectSteps)) /\ plan # <<>>
            /\ \A k \in DOMAIN plan : Starts(plan[k], runtime)
            /\ runtime # "composite" => Len(plan) = 1
<1> DEFINE plan == Projects!Plan(m, command)
           runtime == Projects!ProjectRuntime(m)
           Good(p) == /\ p \in Seq(Seq(ProjectSteps)) /\ p # <<>>
                      /\ \A k \in DOMAIN p : Starts(p[k], runtime)
                      /\ runtime # "composite" => Len(p) = 1
<1>1. ASSUME NEW s, Starts(s, runtime)
      PROVE  Good(<<s>>)
  <2>1. s \in Seq(ProjectSteps)
    BY <1>1 DEF Starts, WellFormed
  <2>2. <<s>> \in Seq(Seq(ProjectSteps)) /\ Len(<<s>>) = 1 /\ DOMAIN <<s>> = {1} /\ <<s>>[1] = s
    BY <2>1
  <2> QED
    BY <1>1, <2>2
<1>2. ASSUME runtime = "composite"
      PROVE  Good(Projects!Composite(m.implementations))
  <2> DEFINE d == m.implementations
             c == [k \in DOMAIN d |->
                     IF \E earlier \in 1..(k - 1) : d[earlier] = d[k]
                     THEN Projects!Refused ELSE Projects!Declared(d[k])]
  <2>1. d \in Seq(STRING)
    BY ProjectsAssumption
  <2>2. CASE Len(d) < 2
    BY <1>1, <2>2, RefusedStarts DEF Projects!Composite
  <2>3. CASE ~(Len(d) < 2)
    <3>1. Projects!Composite(d) = c
      BY <2>3 DEF Projects!Composite
    <3>2. \A k \in DOMAIN d : \/ c[k] = Projects!Refused
                              \/ c[k] = Projects!StepsOf("process")
                              \/ c[k] = Projects!StepsOf("npm")
      BY DEF Projects!Declared
    <3>3. \A k \in DOMAIN d : Starts(c[k], runtime)
      BY <3>2, RefusedStarts, OneStarts
    <3>4. \A k \in DOMAIN d : c[k] \in Seq(ProjectSteps)
      BY <3>3 DEF Starts, WellFormed
    <3>5. DOMAIN d = 1..Len(d) /\ Len(d) \in Nat /\ Len(d) >= 2
      BY <2>1, <2>3
    <3> HIDE DEF d
    <3>6. c \in [1..Len(d) -> Seq(ProjectSteps)]
      BY <3>4, <3>5
    <3>7. c \in Seq(Seq(ProjectSteps)) /\ Len(c) = Len(d) /\ DOMAIN c = DOMAIN d
      BY <3>5, <3>6
    <3> HIDE DEF c
    <3>8. c # <<>>
      BY <3>5, <3>7
    <3> QED
      BY <1>2, <3>1, <3>3, <3>7, <3>8 DEF d
  <2> QED
    BY <2>2, <2>3
<1>3. ASSUME runtime = "composite"
      PROVE  Good(Projects!DevComposite(m.implementations, command))
  <2>1. \/ Projects!DevComposite(m.implementations, command) =
             Projects!Composite(m.implementations)
        \/ \E i \in {"process", "bun"} :
             Projects!DevComposite(m.implementations, command) = <<Projects!Declared(i)>>
        \/ Projects!DevComposite(m.implementations, command) = <<Projects!Refused>>
    BY DEF Projects!DevComposite
  <2>2. Projects!Declared("process") = Projects!StepsOf("process")
          /\ Projects!Declared("bun") = Projects!StepsOf("npm")
    BY DEF Projects!Declared
  <2>3. Good(<<Projects!Declared("process")>>) /\ Good(<<Projects!Declared("bun")>>)
          /\ Good(<<Projects!Refused>>)
    BY <1>1, <2>2, OneStarts, RefusedStarts
  <2> HIDE DEF Good
  <2> QED
    BY <1>2, <1>3, <2>1, <2>3
<1>4. ASSUME runtime # "composite"
      PROVE  Good(plan)
  <2> DEFINE build == IF command \in {"pack", "check"} THEN runtime
                      ELSE IF runtime # "npm" THEN Projects!Selection(runtime, command)
                      ELSE IF command \in {"auto", "bun", "all"} THEN "npm" ELSE "refused"
  <2>1. build = "multi" => runtime = "multi"
    BY DEF Projects!Selection
  <2>2. plan = IF build = "multi" THEN <<Projects!Multi>> ELSE <<Projects!StepsOf(build)>>
    BY <1>4 DEF Projects!Plan
  <2> HIDE DEF build, Good
  <2>3. CASE build = "multi"
    BY <1>1, <2>1, <2>2, <2>3, MultiStarts
  <2>4. CASE build # "multi"
    BY <1>1, <1>4, <2>2, <2>4, OneStarts
  <2> QED
    BY <2>3, <2>4
<1>5. ASSUME runtime = "composite"
      PROVE  \/ plan = Projects!Composite(m.implementations)
             \/ plan = Projects!DevComposite(m.implementations, command)
  <2> DEFINE build == IF command \in {"pack", "check"} THEN runtime
                      ELSE IF runtime # "npm" THEN Projects!Selection(runtime, command)
                      ELSE IF command \in {"auto", "bun", "all"} THEN "npm" ELSE "refused"
  <2>1. build # "multi"
    BY <1>5 DEF Projects!Selection
  <2>2. plan = CASE runtime = "composite" ->
                      IF command \in {"pack", "check"} THEN Projects!Composite(m.implementations)
                      ELSE Projects!DevComposite(m.implementations, command)
                 [] build = "multi" -> <<Projects!Multi>>
                 [] OTHER -> <<Projects!StepsOf(build)>>
    BY DEF Projects!Plan
  <2> HIDE DEF build, plan
  <2> QED
    BY <1>5, <2>1, <2>2
<1> HIDE DEF Good
<1>6. Good(plan)
  BY <1>2, <1>3, <1>4, <1>5
<1> QED
  BY <1>6 DEF Good

-----------------------------------------------------------------------------
(* What a command has planned and made.                                    *)

CodeVersions == Projects!Versions \union {None}
Contracts == [face : {Face[v] : v \in CodeVersions}, release : {NamedRelease[v] : v \in CodeVersions},
              authoring : {1, 2}]
MadeBundles == [of : {"wasm", "process", "bun"}, code : CodeVersions, contract : Contracts]
Results == [contract : Contracts,
            code : UNION {[S -> CodeVersions] : S \in SUBSET {"wasm", "process", "bun"}}]
ProjectJobs ==
  [command : {"pack", "check", "dev", None}, steps : Seq(ProjectSteps), later : Seq(Seq(ProjectSteps)),
   read : CodeVersions, described : CodeVersions, bundles : Seq(MadeBundles),
   result : Results \union {None}]

ProjectTypes ==
  /\ Projects!TypeOK
  /\ bAuthoring \in [{"wasm", "process"} -> {1, 2}]
  /\ bJob \in [Processes -> ProjectJobs]

Runtime == Projects!ProjectRuntime(bMetadata)

\* What is left to do and what is made make one Bundle per implementation.
StepsInv(b) ==
  bPc[b] = "making" =>
    /\ WellFormed(bJob[b].steps, Runtime)
    /\ \A k \in DOMAIN bJob[b].later : Starts(bJob[b].later[k], Runtime)
    /\ bJob[b].steps = <<>> => bJob[b].later = <<>> /\ bJob[b].bundles # <<>>
    /\ Runtime # "composite" =>
         /\ bJob[b].later = <<>>
         /\ bJob[b].steps = <<>> => Len(bJob[b].bundles) <= IF Runtime = "multi" THEN 2 ELSE 1
         /\ bJob[b].steps # <<>> => Len(bJob[b].bundles) <= IF Runtime = "multi" THEN 1 ELSE 0
         /\ \A k \in DOMAIN bJob[b].steps :
              k < Len(bJob[b].steps) /\ bJob[b].steps[k].do = "bundle" => bJob[b].bundles = <<>>

ProcessIsDue(b) ==
  /\ bPc[b] = "making" /\ bJob[b].steps # <<>>
  /\ bJob[b].steps[1].do = "bundle" /\ bJob[b].steps[1].of = "process"

\* The Process that is bundled is the one that described itself, or was replaced.
DescribedInv(b) ==
  ProcessIsDue(b) =>
    \/ bJob[b].described = bTarget[Projects!Profile(b)]["process"]
    \/ b \in bSwapped

\* The authoring version of an implementation.
Authored(i) == IF i = "bun" THEN 2 ELSE bAuthoring[i]

\* Each Bundle states what its code exposes, and composite ones state the same.
BundlesInv(b) ==
  bPc[b] = "making" =>
    \A k \in DOMAIN bJob[b].bundles :
      LET x == bJob[b].bundles[k] IN
      /\ x.of # "process" \/ b \notin bSwapped => Face[x.code] = x.contract.face
      /\ x.contract.authoring = Authored(x.of)
      /\ Runtime = "composite" => x.contract = bJob[b].bundles[1].contract

\* So does the Bundle of all of them.
ResultInv(b) ==
  bPc[b] \in {"assembled", "archived", "persisted"} =>
    /\ bJob[b].result \in Results /\ DOMAIN bJob[b].result.code # {}
    /\ \A i \in DOMAIN bJob[b].result.code :
         /\ i # "process" \/ b \notin bSwapped =>
              Face[bJob[b].result.code[i]] = bJob[b].result.contract.face
         /\ \/ bJob[b].result.contract.authoring = Authored(i)
            \/ bJob[b].result.contract.authoring = 2 /\ ~bJob[b].result.contract.face.requires

ProjectInv(b) == StepsInv(b) /\ DescribedInv(b) /\ BundlesInv(b) /\ ResultInv(b)

ProjectsInv ==
  /\ ProjectTypes
  /\ \A b \in Processes : ProjectInv(b)
  /\ Projects!PackedAsStated /\ Projects!RunsAsStated

LEMMA InitProjects == Projects!Init => ProjectsInv
<1> SUFFICES ASSUME Projects!Init
             PROVE  ProjectsInv
  OBVIOUS
<1> USE DEF Projects!Init
<1>1. 1 \in Projects!Versions
  BY ProjectsAssumption DEF Projects!Versions
<1>2. Projects!TypeOK
  <2>1. bMetadata \in Metadata /\ bCommands \in 0..MaxPluginCommands
    BY ProjectsAssumption
  <2>2. bSource \in [Projects!Roots -> Projects!Versions]
    BY <1>1
  <2>3. bTarget \in [Projects!Profiles -> [{"wasm", "process"} -> Projects!Versions \union {None}]]
    OBVIOUS
  <2>4. /\ bPc \in [Processes -> {"idle", "making", "assembled", "archived", "persisted"}]
        /\ bSwapped \subseteq Processes /\ bMixed \in BOOLEAN
    OBVIOUS
  <2> QED
    BY <2>1, <2>2, <2>3, <2>4 DEF Projects!TypeOK
<1>3. <<>> \in Seq(ProjectSteps) /\ <<>> \in Seq(Seq(ProjectSteps)) /\ <<>> \in Seq(MadeBundles)
  OBVIOUS
<1>4. Projects!NoJob \in ProjectJobs
  BY <1>3 DEF Projects!NoJob, ProjectJobs, CodeVersions
<1>5. ProjectTypes
  BY <1>2, <1>4 DEF ProjectTypes
<1>6. \A b \in Processes : ProjectInv(b)
  BY DEF ProjectInv, StepsInv, DescribedInv, ProcessIsDue, BundlesInv, ResultInv
<1>7. Projects!PackedAsStated /\ Projects!RunsAsStated
  BY DEF Projects!PackedAsStated, Projects!RunsAsStated
<1> QED
  BY <1>5, <1>6, <1>7 DEF ProjectsInv

LEMMA LastIsAll ==
  ASSUME NEW S, NEW s \in Seq(S), s # <<>>, Len(s) # 1
  PROVE  Tail(s) # <<>>
<1>1. Len(s) \in Nat /\ Len(s) # 0
  OBVIOUS
<1>2. Tail(s) \in Seq(S) /\ Len(Tail(s)) = Len(s) - 1
  OBVIOUS
<1>3. Len(Tail(s)) # 0
  BY <1>1, <1>2
<1> DEFINE t == Tail(s)
<1>4. t \in Seq(S) /\ Len(t) # 0
  BY <1>2, <1>3
<1> HIDE DEF t
<1>5. t # <<>>
  BY <1>4
<1> QED
  BY <1>5 DEF t

\* A command is in the same position as long as what it has is left alone.
LEMMA OtherBuilds ==
  ASSUME ProjectTypes, NEW c \in Processes, ProjectInv(c), UNCHANGED <<bMetadata, bAuthoring>>,
         bPc'[c] = bPc[c], bJob'[c] = bJob[c], c \in bSwapped => c \in bSwapped',
         ProcessIsDue(c) => \/ c \in bSwapped'
                            \/ bTarget'[Projects!Profile(c)]["process"] =
                                 bTarget[Projects!Profile(c)]["process"]
  PROVE  ProjectInv(c)'
<1>1. Runtime' = Runtime /\ \A i : Authored(i)' = Authored(i)
  BY DEF Runtime, Authored, Projects!ProjectRuntime
<1>2. Projects!Profile(c)' = Projects!Profile(c) /\ ProcessIsDue(c)' = ProcessIsDue(c)
  BY DEF Projects!Profile, ProcessIsDue
<1>3. StepsInv(c)'
  BY <1>1 DEF ProjectInv, StepsInv
<1>4. DescribedInv(c)'
  BY <1>2 DEF ProjectInv, DescribedInv
<1>5. BundlesInv(c)'
  BY <1>1 DEF ProjectInv, BundlesInv
<1>6. ResultInv(c)'
  BY <1>1 DEF ProjectInv, ResultInv
<1> QED
  BY <1>3, <1>4, <1>5, <1>6 DEF ProjectInv

LEMMA AdvancedIs ==
  ASSUME ProjectTypes, NEW b \in Processes, ProjectInv(b),
         bPc[b] = "making", bJob[b].steps # <<>>
  PROVE  LET j == Projects!Advanced(b) IN
         /\ j \in ProjectJobs
         /\ j.command = bJob[b].command /\ j.read = bJob[b].read
         /\ j.described = bJob[b].described /\ j.bundles = bJob[b].bundles
         /\ j.result = bJob[b].result
         /\ WellFormed(j.steps, Runtime)
         /\ \A k \in DOMAIN j.later : Starts(j.later[k], Runtime)
         /\ j.steps = <<>> => j.later = <<>> /\ bJob[b].steps[1].do \in {"bundle", "refuse"}
         /\ j.steps # <<>> /\ j.steps[1].do = "bundle" /\ j.steps[1].of = "process" =>
              bJob[b].steps[1].do = "describe"
         /\ Runtime # "composite" => j.later = <<>> /\ j.steps = Tail(bJob[b].steps)
<1> DEFINE s == bJob[b].steps
           later == bJob[b].later
           j == Projects!Advanced(b)
           next == IF Projects!Follows(b) THEN Head(later) ELSE Tail(s)
           rest == IF Projects!Follows(b) THEN Tail(later) ELSE later
<1>1. /\ bJob[b] \in ProjectJobs /\ s \in Seq(ProjectSteps) /\ later \in Seq(Seq(ProjectSteps))
      /\ Len(s) \in Nat /\ Len(s) >= 1 /\ DOMAIN s = 1..Len(s)
  BY DEF ProjectTypes, ProjectJobs
<1>2. /\ WellFormed(s, Runtime) /\ \A k \in DOMAIN later : Starts(later[k], Runtime)
      /\ Runtime # "composite" => later = <<>>
  BY DEF ProjectInv, StepsInv
<1>3. later # <<>> =>
        /\ Head(later) = later[1] /\ 1 \in DOMAIN later /\ Tail(later) \in Seq(Seq(ProjectSteps))
        /\ \A k \in DOMAIN Tail(later) : k + 1 \in DOMAIN later /\ Tail(later)[k] = later[k + 1]
  BY <1>1
<1>4. WellFormed(next, Runtime) /\ next \in Seq(ProjectSteps)
  <2>1. CASE Projects!Follows(b)
    <3>1. next = later[1] /\ 1 \in DOMAIN later
      BY <1>3, <2>1 DEF Projects!Follows
    <3> HIDE DEF next
    <3>2. WellFormed(next, Runtime)
      BY <1>2, <3>1 DEF Starts
    <3> QED
      BY <3>2 DEF WellFormed
  <2>2. CASE ~Projects!Follows(b)
    <3>1. next = Tail(s)
      BY <2>2
    <3> HIDE DEF next
    <3>2. WellFormed(next, Runtime)
      BY <1>2, <3>1, TailWellFormed
    <3> QED
      BY <3>2 DEF WellFormed
  <2> QED
    BY <2>1, <2>2
<1>5. rest \in Seq(Seq(ProjectSteps)) /\ \A k \in DOMAIN rest : Starts(rest[k], Runtime)
  BY <1>1, <1>2, <1>3 DEF Projects!Follows
<1>6. /\ j \in ProjectJobs /\ j.steps = next /\ j.later = rest
      /\ j.command = bJob[b].command /\ j.read = bJob[b].read
      /\ j.described = bJob[b].described /\ j.bundles = bJob[b].bundles
      /\ j.result = bJob[b].result
  <2>1. j = [[bJob[b] EXCEPT !.steps = next] EXCEPT !.later = rest]
    BY <1>1 DEF Projects!Advanced, ProjectJobs
  <2> HIDE DEF next, rest, j
  <2> QED
    BY <1>1, <1>4, <1>5, <2>1 DEF ProjectJobs
<1>7. next = <<>> => rest = <<>> /\ s[1].do \in {"bundle", "refuse"}
  <2>1. ASSUME next = <<>>
        PROVE  Len(s) = 1 /\ later = <<>> /\ ~Projects!Follows(b)
    <3>1. ASSUME Projects!Follows(b)
          PROVE  FALSE
      <4>1. next = later[1] /\ 1 \in DOMAIN later
        BY <1>3, <3>1 DEF Projects!Follows
      <4> HIDE DEF next
      <4> QED
        BY <1>2, <2>1, <4>1 DEF Starts
    <3>2. Tail(s) = <<>>
      BY <2>1, <3>1
    <3>3. Len(s) = 1
      BY <1>1, <3>2, LastIsAll
    <3> QED
      BY <3>1, <3>3 DEF Projects!Follows
  <2>2. s # <<>> => s[Len(s)].do \in {"bundle", "refuse"}
    BY <1>2 DEF WellFormed
  <2> QED
    BY <2>1, <2>2
<1>8. next # <<>> /\ next[1].do = "bundle" /\ next[1].of = "process" => s[1].do = "describe"
  <2>1. CASE Projects!Follows(b)
    BY <1>2, <1>3, <2>1 DEF Starts, Projects!Follows
  <2>2. CASE ~Projects!Follows(b)
    BY <1>2, <2>2, TailWellFormed
  <2> QED
    BY <2>1, <2>2
<1>9. Runtime # "composite" => rest = <<>> /\ next = Tail(s)
  BY <1>2 DEF Projects!Follows
<1> HIDE DEF j, next, rest
<1> QED
  BY <1>4, <1>5, <1>6, <1>7, <1>8, <1>9 DEF j

\* The other commands are where they were.
LEMMA OthersStay ==
  ASSUME ProjectTypes, \A c \in Processes : ProjectInv(c), NEW b \in Processes,
         UNCHANGED <<bMetadata, bAuthoring, bTarget>>,
         \A c \in Processes \ {b} : /\ bPc'[c] = bPc[c] /\ bJob'[c] = bJob[c]
                                    /\ c \in bSwapped => c \in bSwapped'
  PROVE  \A c \in Processes \ {b} : ProjectInv(c)'
<1> SUFFICES ASSUME NEW c \in Processes \ {b}
             PROVE  ProjectInv(c)'
  OBVIOUS
<1> QED
  BY OtherBuilds

\* One step that is not a Bundle is taken; what is next is not to bundle the Process,
\* unless it has described itself.
LEMMA StepTaken ==
  ASSUME ProjectTypes, NEW b \in Processes, ProjectInv(b), UNCHANGED <<bMetadata, bAuthoring>>,
         NEW what \in {"build", "describe", "typecheck"}, Projects!At(b, what),
         bPc'[b] = "making", b \in bSwapped => b \in bSwapped',
         bJob'[b].steps = Projects!Advanced(b).steps,
         bJob'[b].later = Projects!Advanced(b).later,
         bJob'[b].bundles = bJob[b].bundles
  PROVE  /\ StepsInv(b)' /\ BundlesInv(b)' /\ ResultInv(b)'
         /\ what # "describe" => ~ProcessIsDue(b)'
<1> DEFINE s == bJob[b].steps
           t == Projects!Advanced(b).steps
           later == Projects!Advanced(b).later
           made == bJob[b].bundles
<1>1. bPc[b] = "making" /\ s # <<>> /\ s[1].do = what
  BY DEF Projects!At, Projects!Due
<1>2. /\ WellFormed(t, Runtime) /\ \A k \in DOMAIN later : Starts(later[k], Runtime)
      /\ t # <<>> /\ (t[1].do = "bundle" /\ t[1].of = "process" => s[1].do = "describe")
      /\ Runtime # "composite" => later = <<>> /\ t = Tail(s)
  BY <1>1, AdvancedIs
<1>3. Runtime' = Runtime /\ \A i : Authored(i)' = Authored(i)
  BY DEF Runtime, Authored, Projects!ProjectRuntime
<1>4. Runtime # "composite" =>
        /\ Len(made) <= IF Runtime = "multi" THEN 1 ELSE 0
        /\ \A k \in DOMAIN t : k < Len(t) /\ t[k].do = "bundle" => made = <<>>
  <2> SUFFICES ASSUME Runtime # "composite"
               PROVE  /\ Len(made) <= IF Runtime = "multi" THEN 1 ELSE 0
                      /\ \A k \in DOMAIN t : k < Len(t) /\ t[k].do = "bundle" => made = <<>>
    OBVIOUS
  <2>1. /\ Len(made) <= IF Runtime = "multi" THEN 1 ELSE 0
        /\ \A k \in DOMAIN s : k < Len(s) /\ s[k].do = "bundle" => made = <<>>
    BY <1>1 DEF ProjectInv, StepsInv
  <2>2. s \in Seq(ProjectSteps)
    BY DEF ProjectTypes, ProjectJobs
  <2> HIDE DEF s, t
  <2>3. \A k \in DOMAIN t : k < Len(t) => k + 1 \in DOMAIN s /\ k + 1 < Len(s) /\ t[k] = s[k + 1]
    BY <1>1, <1>2, <2>2
  <2> QED
    BY <2>1, <2>3
<1>5. StepsInv(b)'
  <2> HIDE DEF t, later, made
  <2>1. bJob'[b].steps = t /\ bJob'[b].later = later /\ bJob'[b].bundles = made
    BY DEF t, later, made
  <2> QED
    BY <1>2, <1>3, <1>4, <2>1 DEF StepsInv
<1>6. BundlesInv(b)'
  <2>1. \A k \in DOMAIN made :
          LET x == made[k] IN
          /\ x.of # "process" \/ b \notin bSwapped => Face[x.code] = x.contract.face
          /\ x.contract.authoring = Authored(x.of)
          /\ Runtime = "composite" => x.contract = made[1].contract
    BY <1>1 DEF ProjectInv, BundlesInv
  <2> QED
    BY <1>3, <2>1 DEF BundlesInv
<1>7. ResultInv(b)'
  BY DEF ResultInv
<1>8. what # "describe" => ~ProcessIsDue(b)'
  BY <1>1, <1>2 DEF ProcessIsDue
<1> QED
  BY <1>5, <1>6, <1>7, <1>8

LEMMA StatedStays ==
  /\ Projects!PackedAsStated /\ UNCHANGED <<bAuthoring, bOut, bMixed>> =>
       Projects!PackedAsStated'
  /\ Projects!RunsAsStated /\ UNCHANGED bRan => Projects!RunsAsStated'
BY DEF Projects!PackedAsStated, Projects!RunsAsStated, Projects!Contract

\* The version below the root of an implementation.
LEMMA RootIs ==
  ASSUME ProjectTypes, NEW i \in {"wasm", "process", "bun"},
         Runtime = "composite" => i # "wasm"
  PROVE  bSource[Projects!RootOf(i)] \in Projects!Versions
BY DEF ProjectTypes, Projects!TypeOK, Projects!Roots, Projects!RootOf, Runtime

\* The type of the project where only the job of one command changes.
LEMMA JobTypes ==
  ASSUME ProjectTypes, NEW b \in Processes, NEW j \in ProjectJobs,
         bJob' = [bJob EXCEPT ![b] = j],
         UNCHANGED <<bMetadata, bAuthoring, bCommands, bSource, bTarget>>,
         bPc' \in [Processes -> {"idle", "making", "assembled", "archived", "persisted"}],
         bSwapped' \subseteq Processes, bMixed' \in BOOLEAN
  PROVE  /\ ProjectTypes' /\ bJob'[b] = j
         /\ \A c \in Processes \ {b} : bJob'[c] = bJob[c]
<1>1. bJob' \in [Processes -> ProjectJobs] /\ bJob'[b] = j
        /\ \A c \in Processes \ {b} : bJob'[c] = bJob[c]
  BY DEF ProjectTypes
<1>2. Projects!TypeOK'
  BY DEF ProjectTypes, Projects!TypeOK, Projects!Roots, Projects!Profiles, Projects!Versions
<1> QED
  BY <1>1, <1>2 DEF ProjectTypes, ProjectJobs, CodeVersions, Results, MadeBundles, Contracts,
     Projects!Versions

LEMMA TypecheckKeepsStated ==
  ASSUME ProjectsInv, NEW b \in Processes, Projects!Typecheck(b)
  PROVE  ProjectsInv'
<1> USE DEF ProjectsInv
<1> DEFINE a == Projects!Advanced(b)
           v == bSource[Projects!RootOf("bun")]
           j == [a EXCEPT !.read = v]
<1>1. /\ Projects!At(b, "typecheck") /\ bJob' = [bJob EXCEPT ![b] = j]
      /\ UNCHANGED <<bMetadata, bAuthoring, bCommands, bSource, bTarget, bOut, bPc, bSwapped,
                     bMixed, bRan>>
  BY DEF Projects!Typecheck, Projects!projectVars
<1>2. bPc[b] = "making" /\ bJob[b].steps # <<>>
  BY <1>1 DEF Projects!At
<1>3. a \in ProjectJobs /\ a.bundles = bJob[b].bundles
  BY <1>2, AdvancedIs
<1>4. v \in CodeVersions
  BY RootIs DEF CodeVersions
<1> HIDE DEF a, v
<1>5. /\ j \in ProjectJobs /\ j.steps = a.steps /\ j.later = a.later /\ j.bundles = a.bundles
  BY <1>3, <1>4 DEF ProjectJobs
<1> HIDE DEF j
<1>6. ProjectTypes' /\ bJob'[b] = j /\ \A c \in Processes \ {b} : bJob'[c] = bJob[c]
  BY <1>1, <1>5, JobTypes DEF ProjectTypes, Projects!TypeOK
<1>7. StepsInv(b)' /\ BundlesInv(b)' /\ ResultInv(b)' /\ ~ProcessIsDue(b)'
  BY <1>1, <1>2, <1>3, <1>5, <1>6, StepTaken DEF a
<1>8. ProjectInv(b)'
  BY <1>7 DEF ProjectInv, DescribedInv
<1>9. \A c \in Processes \ {b} : ProjectInv(c)'
  BY <1>1, <1>6, OthersStay
<1> QED
  BY <1>1, <1>6, <1>8, <1>9, StatedStays

LEMMA DescribeKeepsStated ==
  ASSUME ProjectsInv, NEW b \in Processes, Projects!Describe(b)
  PROVE  ProjectsInv'
<1> USE DEF ProjectsInv
<1> DEFINE a == Projects!Advanced(b)
           v == bTarget[Projects!Profile(b)]["process"]
           j == [a EXCEPT !.described = v]
<1>1. /\ Projects!At(b, "describe") /\ bJob' = [bJob EXCEPT ![b] = j]
      /\ UNCHANGED <<bMetadata, bAuthoring, bCommands, bSource, bTarget, bOut, bPc, bSwapped,
                     bMixed, bRan>>
  BY DEF Projects!Describe, Projects!projectVars
<1>2. bPc[b] = "making" /\ bJob[b].steps # <<>>
  BY <1>1 DEF Projects!At
<1>3. a \in ProjectJobs /\ a.bundles = bJob[b].bundles /\ a.command = bJob[b].command
  BY <1>2, AdvancedIs
<1>4. v \in CodeVersions
  BY DEF ProjectTypes, Projects!TypeOK, Projects!Profile, Projects!Profiles, CodeVersions
<1>10. v = bTarget[IF bJob[b].command = "pack" THEN "release" ELSE "development"]["process"]
  BY DEF Projects!Profile
<1> HIDE DEF a, v
<1>5. /\ j \in ProjectJobs /\ j.steps = a.steps /\ j.later = a.later /\ j.bundles = a.bundles
      /\ j.described = v /\ j.command = a.command
  BY <1>3, <1>4 DEF ProjectJobs
<1> HIDE DEF j
<1>6. ProjectTypes' /\ bJob'[b] = j /\ \A c \in Processes \ {b} : bJob'[c] = bJob[c]
  BY <1>1, <1>5, JobTypes DEF ProjectTypes, Projects!TypeOK
<1>7. StepsInv(b)' /\ BundlesInv(b)' /\ ResultInv(b)'
  BY <1>1, <1>2, <1>3, <1>5, <1>6, StepTaken DEF a
<1>8. DescribedInv(b)'
  BY <1>1, <1>3, <1>5, <1>6, <1>10 DEF DescribedInv, Projects!Profile
<1>9. \A c \in Processes \ {b} : ProjectInv(c)'
  BY <1>1, <1>6, OthersStay
<1> QED
  BY <1>1, <1>6, <1>7, <1>8, <1>9, StatedStays DEF ProjectInv

\* A command whose Process is built anew by another is marked.
LEMMA BuildKeepsStated ==
  ASSUME ProjectsInv, NEW b \in Processes, Projects!Build(b)
  PROVE  ProjectsInv'
<1> USE DEF ProjectsInv
<1> DEFINE a == Projects!Advanced(b)
           i == Projects!Due(b).of
           v == bSource[Projects!RootOf(i)]
           p == Projects!Profile(b)
<1>1. /\ Projects!At(b, "build") /\ bJob' = [bJob EXCEPT ![b] = a]
      /\ bTarget' = [bTarget EXCEPT ![p][i] = v]
      /\ bSwapped' = bSwapped \union
           {c \in Processes \ {b} : /\ Projects!At(c, "bundle") /\ Projects!Due(c).of = i
                                    /\ i = "process" /\ Projects!Profile(c) = p}
      /\ UNCHANGED <<bMetadata, bAuthoring, bCommands, bSource, bOut, bPc, bMixed, bRan>>
  BY DEF Projects!Build, Projects!projectVars
<1>2. bPc[b] = "making" /\ bJob[b].steps # <<>> /\ bJob[b].steps[1].do = "build"
  BY <1>1 DEF Projects!At, Projects!Due
<1>3. a \in ProjectJobs /\ a.bundles = bJob[b].bundles
  BY <1>2, AdvancedIs
<1>4. i \in {"wasm", "process"} /\ (Runtime = "composite" => i # "wasm")
  <2>1. WellFormed(bJob[b].steps, Runtime)
    BY <1>2 DEF ProjectInv, StepsInv
  <2>2. 1 \in DOMAIN bJob[b].steps /\ i = bJob[b].steps[1].of
    BY <1>2, <2>1 DEF WellFormed, Projects!Due
  <2> HIDE DEF i
  <2> QED
    BY <1>2, <2>1, <2>2 DEF WellFormed
<1>5. v \in Projects!Versions /\ p \in Projects!Profiles
  BY <1>4, RootIs DEF Projects!Profile, Projects!Profiles
<1> HIDE DEF a, i, v, p
<1>6. /\ bJob' \in [Processes -> ProjectJobs] /\ bJob'[b] = a
      /\ \A c \in Processes \ {b} : bJob'[c] = bJob[c]
  BY <1>1, <1>3 DEF ProjectTypes
<1>7. /\ bTarget' \in [Projects!Profiles -> [{"wasm", "process"} -> Projects!Versions \union {None}]]
      /\ \A q \in Projects!Profiles : q # p \/ i # "process" =>
           bTarget'[q]["process"] = bTarget[q]["process"]
  BY <1>1, <1>4, <1>5 DEF ProjectTypes, Projects!TypeOK
<1>8. ProjectTypes'
  <2>1. bSwapped' \subseteq Processes
    BY <1>1 DEF ProjectTypes, Projects!TypeOK
  <2>2. Projects!TypeOK'
    BY <1>1, <1>7, <2>1 DEF ProjectTypes, Projects!TypeOK, Projects!Roots, Projects!Profiles,
       Projects!Versions
  <2> QED
    BY <1>1, <1>6, <2>2 DEF ProjectTypes, ProjectJobs, CodeVersions, Results, MadeBundles,
       Contracts, Projects!Versions
<1>9. StepsInv(b)' /\ BundlesInv(b)' /\ ResultInv(b)' /\ ~ProcessIsDue(b)'
  BY <1>1, <1>2, <1>3, <1>6, StepTaken DEF a
<1>10. ProjectInv(b)'
  BY <1>9 DEF ProjectInv, DescribedInv
<1>11. ASSUME NEW c \in Processes \ {b}
       PROVE  ProjectInv(c)'
  <2>1. Projects!Profile(c) \in Projects!Profiles
    BY DEF Projects!Profile, Projects!Profiles
  <2>2. ProcessIsDue(c) => Projects!At(c, "bundle") /\ Projects!Due(c).of = "process"
    BY DEF ProcessIsDue, Projects!At, Projects!Due
  <2>3. ProcessIsDue(c) => \/ c \in bSwapped'
                           \/ bTarget'[Projects!Profile(c)]["process"] =
                                bTarget[Projects!Profile(c)]["process"]
    BY <1>1, <1>7, <2>1, <2>2
  <2>4. bPc'[c] = bPc[c] /\ bJob'[c] = bJob[c] /\ (c \in bSwapped => c \in bSwapped')
    BY <1>1, <1>6
  <2> QED
    BY <1>1, <2>3, <2>4, OtherBuilds
<1> QED
  BY <1>1, <1>8, <1>10, <1>11, StatedStays

\* What a step bundles states what its code exposes.
LEMMA BundledIs ==
  ASSUME ProjectTypes, NEW b \in Processes, ProjectInv(b), Projects!At(b, "bundle")
  PROVE  LET i == Projects!Due(b).of
             x == Projects!Bundled(b, i)
         IN /\ x \in MadeBundles /\ x.of = i
            /\ x.of # "process" \/ b \notin bSwapped => Face[x.code] = x.contract.face
            /\ x.contract.authoring = Authored(i)
<1> DEFINE i == Projects!Due(b).of
           x == Projects!Bundled(b, i)
           code == IF i = "bun" THEN bSource[Projects!RootOf(i)]
                   ELSE bTarget[Projects!Profile(b)][i]
           stated == IF i = "process" THEN bJob[b].described ELSE code
           manifest == IF i = "bun" THEN bJob[b].read ELSE bSource[Projects!RootOf(i)]
           c == Projects!Contract(i, stated, NamedRelease[manifest])
<1>1. bPc[b] = "making" /\ bJob[b].steps # <<>> /\ bJob[b].steps[1].do = "bundle"
        /\ i = bJob[b].steps[1].of
  BY DEF Projects!At, Projects!Due
<1>2. i \in {"wasm", "process", "bun"} /\ (Runtime = "composite" => i # "wasm")
  <2>1. WellFormed(bJob[b].steps, Runtime)
    BY <1>1 DEF ProjectInv, StepsInv
  <2>2. 1 \in DOMAIN bJob[b].steps
    BY <1>1, <2>1 DEF WellFormed
  <2> HIDE DEF i
  <2> QED
    BY <1>1, <2>1, <2>2 DEF WellFormed
<1>3. i = "process" => ProcessIsDue(b)
  BY <1>1 DEF ProcessIsDue
<1>4. i = "process" => stated = code \/ b \in bSwapped
  BY <1>3 DEF ProjectInv, DescribedInv
<1>5. x = [of |-> i, code |-> code, contract |-> c]
  BY DEF Projects!Bundled
<1>6. c = [face |-> Face[stated], release |-> NamedRelease[manifest], authoring |-> Authored(i)]
  BY DEF Projects!Contract, Authored
<1> HIDE DEF i
<1>7. bSource[Projects!RootOf(i)] \in CodeVersions
  BY <1>2, RootIs DEF CodeVersions
<1>8. i # "bun" => bTarget[Projects!Profile(b)][i] \in CodeVersions
  BY <1>2 DEF ProjectTypes, Projects!TypeOK, Projects!Profile, Projects!Profiles, CodeVersions
<1>9. bJob[b].described \in CodeVersions /\ bJob[b].read \in CodeVersions
  BY DEF ProjectTypes, ProjectJobs
<1>10. Authored(i) \in {1, 2}
  BY <1>2 DEF Authored, ProjectTypes
<1>11. code \in CodeVersions /\ stated \in CodeVersions /\ manifest \in CodeVersions
  BY <1>7, <1>8, <1>9
<1>12. i # "process" => stated = code
  OBVIOUS
<1> HIDE DEF code, stated, manifest, x, c
<1>13. c \in Contracts
  BY <1>6, <1>10, <1>11 DEF Contracts
<1>14. x \in MadeBundles
  BY <1>2, <1>5, <1>11, <1>13 DEF MadeBundles
<1>15. x.of = i /\ x.code = code /\ x.contract = c /\ c.face = Face[stated]
         /\ c.authoring = Authored(i)
  BY <1>5, <1>6
<1>16. x.of # "process" \/ b \notin bSwapped => Face[x.code] = x.contract.face
  BY <1>4, <1>12, <1>15
<1> QED
  BY <1>14, <1>15, <1>16 DEF x, i

LEMMA BundleKeepsStated ==
  ASSUME ProjectsInv, NEW b \in Processes, Projects!Bundle(b)
  PROVE  ProjectsInv'
<1> USE DEF ProjectsInv
<1> DEFINE a == Projects!Advanced(b)
           i == Projects!Due(b).of
           x == Projects!Bundled(b, i)
           made == bJob[b].bundles
           more == Append(made, x)
           j == [a EXCEPT !.bundles = more]
           s == bJob[b].steps
           t == a.steps
<1>1. /\ Projects!At(b, "bundle")
      /\ made # <<>> /\ Runtime = "composite" => x.contract = made[1].contract
      /\ UNCHANGED <<bMetadata, bAuthoring, bCommands, bSource, bTarget, bOut, bPc, bSwapped,
                     bMixed, bRan>>
  BY DEF Projects!Bundle, Projects!projectVars, Runtime
<1>2. /\ bPc[b] = "making" /\ s # <<>> /\ s[1].do = "bundle"
  BY <1>1 DEF Projects!At, Projects!Due
<1>3. /\ a \in ProjectJobs /\ a.bundles = made
      /\ WellFormed(t, Runtime) /\ \A k \in DOMAIN a.later : Starts(a.later[k], Runtime)
      /\ t = <<>> => a.later = <<>>
      /\ t # <<>> /\ t[1].do = "bundle" /\ t[1].of = "process" => s[1].do = "describe"
      /\ Runtime # "composite" => a.later = <<>> /\ t = Tail(s)
  BY <1>2, AdvancedIs
<1>4. /\ x \in MadeBundles /\ x.of = i
      /\ x.of # "process" \/ b \notin bSwapped => Face[x.code] = x.contract.face
      /\ x.contract.authoring = Authored(i)
  BY <1>1, BundledIs
<1>5. bJob' = [bJob EXCEPT ![b] = [a EXCEPT !.bundles = more]]
  BY <1>3 DEF Projects!Bundle
<1> HIDE DEF a, x, i
<1>6. /\ made \in Seq(MadeBundles) /\ more \in Seq(MadeBundles) /\ Len(made) \in Nat
      /\ Len(more) = Len(made) + 1 /\ more # <<>> /\ DOMAIN more = 1..Len(more)
      /\ \A k \in DOMAIN more : IF k \in DOMAIN made THEN more[k] = made[k] ELSE more[k] = x
      /\ 1 \in DOMAIN more
  <2>1. made \in Seq(MadeBundles)
    BY DEF ProjectTypes, ProjectJobs
  <2> HIDE DEF made
  <2>2. more \in Seq(MadeBundles) /\ Len(made) \in Nat /\ Len(more) = Len(made) + 1
    BY <1>4, <2>1
  <2>3. DOMAIN more = 1..Len(more) /\ DOMAIN made = 1..Len(made)
    BY <2>1, <2>2
  <2>4. \A k \in DOMAIN more : IF k \in DOMAIN made THEN more[k] = made[k] ELSE more[k] = x
    BY <1>4, <2>1, <2>2, <2>3
  <2>5. 1 \in DOMAIN more
    BY <2>2, <2>3
  <2> HIDE DEF more
  <2> QED
    BY <2>1, <2>2, <2>3, <2>4, <2>5
<1>7. made = <<>> => more[1] = x
  BY <1>6
<1>8. made # <<>> => more[1] = made[1] /\ 1 \in DOMAIN made
  BY <1>6
<1> HIDE DEF more, made
<1>9. /\ j \in ProjectJobs /\ j.steps = t /\ j.later = a.later /\ j.bundles = more
  BY <1>3, <1>6 DEF ProjectJobs
<1> HIDE DEF j
<1>10. bJob' = [bJob EXCEPT ![b] = j]
  BY <1>5 DEF j
<1>11. ProjectTypes' /\ bJob'[b] = j /\ \A c \in Processes \ {b} : bJob'[c] = bJob[c]
  BY <1>1, <1>9, <1>10, JobTypes DEF ProjectTypes, Projects!TypeOK
<1>12. Runtime' = Runtime /\ \A n : Authored(n)' = Authored(n)
  BY <1>1 DEF Runtime, Authored, Projects!ProjectRuntime
<1>13. Runtime # "composite" =>
         /\ t = <<>> => Len(more) <= IF Runtime = "multi" THEN 2 ELSE 1
         /\ t # <<>> => Len(more) <= IF Runtime = "multi" THEN 1 ELSE 0
         /\ \A k \in DOMAIN t : k < Len(t) /\ t[k].do = "bundle" => more = <<>>
  <2> SUFFICES ASSUME Runtime # "composite"
               PROVE  /\ t = <<>> => Len(more) <= IF Runtime = "multi" THEN 2 ELSE 1
                      /\ t # <<>> => Len(more) <= IF Runtime = "multi" THEN 1 ELSE 0
                      /\ \A k \in DOMAIN t : k < Len(t) /\ t[k].do = "bundle" => FALSE
    OBVIOUS
  <2>1. /\ Len(made) <= IF Runtime = "multi" THEN 1 ELSE 0
        /\ \A k \in DOMAIN s : k < Len(s) /\ s[k].do = "bundle" => made = <<>>
        /\ \A k \in DOMAIN s : k < Len(s) /\ s[k].do = "bundle" =>
             Runtime = "multi" /\ k = Len(s) - 2
    BY <1>2 DEF ProjectInv, StepsInv, WellFormed, made
  <2>2. s \in Seq(ProjectSteps) /\ t = Tail(s)
    BY <1>3 DEF ProjectTypes, ProjectJobs
  <2> HIDE DEF s, t
  <2>3. Len(s) \in Nat /\ 1 \in DOMAIN s /\ DOMAIN s = 1..Len(s)
    BY <1>2, <2>2
  <2>4. \A k \in DOMAIN t : k < Len(t) => k + 1 \in DOMAIN s /\ k + 1 < Len(s) /\ t[k] = s[k + 1]
    BY <1>2, <2>2
  <2>5. CASE Len(s) = 1
    <3>1. Len(more) <= IF Runtime = "multi" THEN 2 ELSE 1
      BY <1>6, <2>1
    <3>2. DOMAIN t = {} /\ t = <<>>
      BY <2>2, <2>5
    <3> QED
      BY <3>1, <3>2
  <2>6. CASE Len(s) # 1
    <3>1. Runtime = "multi" /\ Len(s) = 3 /\ made = <<>>
      BY <1>2, <2>1, <2>3, <2>6
    <3>2. Len(made) = 0
      BY <3>1
    <3>3. Len(more) = 1
      BY <1>6, <3>2
    <3>4. t # <<>>
      BY <1>2, <2>2, <2>6, LastIsAll
    <3>5. \A k \in DOMAIN t : k < Len(t) /\ t[k].do = "bundle" => FALSE
      BY <2>1, <2>4, <3>1
    <3> QED
      BY <3>1, <3>3, <3>4, <3>5
  <2> QED
    BY <2>5, <2>6
<1>14. StepsInv(b)'
  <2> HIDE DEF t
  <2> QED
    BY <1>3, <1>6, <1>9, <1>11, <1>12, <1>13 DEF StepsInv
<1>15. ~ProcessIsDue(b)'
  <2> HIDE DEF t
  <2> QED
    BY <1>2, <1>3, <1>9, <1>11 DEF ProcessIsDue
<1>16. BundlesInv(b)'
  <2>1. \A k \in DOMAIN made :
          /\ made[k].of # "process" \/ b \notin bSwapped =>
               Face[made[k].code] = made[k].contract.face
          /\ made[k].contract.authoring = Authored(made[k].of)
          /\ Runtime = "composite" => made[k].contract = made[1].contract
    BY <1>2 DEF ProjectInv, BundlesInv, made
  <2>2. ASSUME NEW k \in DOMAIN more
        PROVE  /\ more[k].of # "process" \/ b \notin bSwapped =>
                    Face[more[k].code] = more[k].contract.face
               /\ more[k].contract.authoring = Authored(more[k].of)
               /\ Runtime = "composite" => more[k].contract = more[1].contract
    <3>1. CASE k \in DOMAIN made
      <4>1. made # <<>> /\ more[k] = made[k]
        BY <1>6, <3>1
      <4> QED
        BY <1>8, <2>1, <3>1, <4>1
    <3>2. CASE k \notin DOMAIN made
      <4>1. more[k] = x
        BY <1>6, <3>2
      <4> QED
        BY <1>1, <1>4, <1>7, <1>8, <4>1
    <3> QED
      BY <3>1, <3>2
  <2> QED
    BY <1>1, <1>9, <1>11, <1>12, <2>2 DEF BundlesInv
<1>17. ResultInv(b)'
  BY <1>1, <1>2 DEF ResultInv
<1>18. \A c \in Processes \ {b} : ProjectInv(c)'
  BY <1>1, <1>11, OthersStay
<1> QED
  BY <1>1, <1>11, <1>14, <1>15, <1>16, <1>17, <1>18, StatedStays DEF ProjectInv, DescribedInv

\* The Contract of two implementations that share one is the Contract of each.
LEMMA PromotedIs ==
  ASSUME NEW left \in Contracts, NEW right \in Contracts,
         Projects!SharesContract(left, right)
  PROVE  LET both == Projects!Promoted(left, right) IN
         /\ both \in Contracts /\ both.face = left.face /\ both.face = right.face
         /\ \/ both.authoring = left.authoring
            \/ both.authoring = 2 /\ ~both.face.requires
         /\ \/ both.authoring = right.authoring
            \/ both.authoring = 2 /\ ~both.face.requires
<1>1. ASSUME NEW c \in Contracts, NEW d \in Contracts
      PROVE  LET both == Projects!Promoted(c, d) IN
             /\ both \in Contracts /\ both.face = c.face
             /\ \/ both.authoring = c.authoring
                \/ both.authoring = 2 /\ ~both.face.requires
  <2>1. CASE c.authoring # d.authoring /\ ~c.face.requires /\ ~d.face.requires
    <3>1. Projects!Promoted(c, d) = [c EXCEPT !.authoring = 2]
      BY <2>1 DEF Projects!Promoted
    <3> QED
      BY <2>1, <3>1 DEF Contracts
  <2>2. CASE ~(c.authoring # d.authoring /\ ~c.face.requires /\ ~d.face.requires)
    <3>1. Projects!Promoted(c, d) = c
      BY <2>2 DEF Projects!Promoted
    <3> QED
      BY <3>1
  <2> QED
    BY <2>1, <2>2
<1>2. Projects!Promoted(left, right) = Projects!Promoted(right, left)
  BY DEF Projects!SharesContract
<1> QED
  BY <1>1, <1>2

LEMMA AssembleKeepsStated ==
  ASSUME ProjectsInv, NEW b \in Processes, Projects!Assemble(b)
  PROVE  ProjectsInv'
<1> USE DEF ProjectsInv
<1> DEFINE made == bJob[b].bundles
           two == Len(made) = 2 /\ Runtime = "multi"
           left == made[1].contract
           right == made[2].contract
           contract == IF two THEN Projects!Promoted(left, right) ELSE left
           of == {made[k].of : k \in DOMAIN made}
           code == [i \in of |-> made[CHOOSE k \in DOMAIN made : made[k].of = i].code]
           result == [contract |-> contract, code |-> code]
           old == bJob[b]
           j == [old EXCEPT !.result = result]
<1>1. /\ bPc[b] = "making" /\ bJob[b].steps = <<>>
      /\ two => Projects!SharesContract(left, right)
      /\ bPc' = [bPc EXCEPT ![b] = "assembled"]
      /\ UNCHANGED <<bMetadata, bAuthoring, bCommands, bSource, bTarget, bOut, bSwapped,
                     bMixed, bRan>>
  BY DEF Projects!Assemble, Projects!projectVars, Runtime
<1>2. bJob' = [bJob EXCEPT ![b] = j]
  <2>1. bJob' = [bJob EXCEPT ![b].result = result]
    BY DEF Projects!Assemble, Runtime
  <2> HIDE DEF result
  <2> QED
    BY <2>1
<1>3. /\ made \in Seq(MadeBundles) /\ made # <<>> /\ Len(made) \in Nat /\ 1 \in DOMAIN made
      /\ Runtime # "composite" => Len(made) <= IF Runtime = "multi" THEN 2 ELSE 1
      /\ DOMAIN made = 1..Len(made) /\ \A k \in DOMAIN made : made[k] \in MadeBundles
  <2>1. made \in Seq(MadeBundles)
    BY DEF ProjectTypes, ProjectJobs
  <2>2. made # <<>> /\ (Runtime # "composite" => Len(made) <= IF Runtime = "multi" THEN 2 ELSE 1)
    BY <1>1 DEF ProjectInv, StepsInv
  <2> HIDE DEF made
  <2> QED
    BY <2>1, <2>2
<1>4. \A k \in DOMAIN made :
        /\ made[k].of # "process" \/ b \notin bSwapped =>
             Face[made[k].code] = made[k].contract.face
        /\ made[k].contract.authoring = Authored(made[k].of)
        /\ Runtime = "composite" => made[k].contract = left
  BY <1>1 DEF ProjectInv, BundlesInv
<1>5. \A i \in of : \E k \in DOMAIN made : made[k].of = i /\ code[i] = made[k].code
  <2> SUFFICES ASSUME NEW i \in of
               PROVE  \E k \in DOMAIN made : made[k].of = i /\ code[i] = made[k].code
    OBVIOUS
  <2> DEFINE n == CHOOSE k \in DOMAIN made : made[k].of = i
  <2>1. \E k \in DOMAIN made : made[k].of = i
    OBVIOUS
  <2>2. n \in DOMAIN made /\ made[n].of = i
    BY <2>1
  <2>3. code[i] = made[n].code
    OBVIOUS
  <2> QED
    BY <2>2, <2>3
<1>6. DOMAIN code = of /\ of # {} /\ of \subseteq {"wasm", "process", "bun"}
  BY <1>3 DEF MadeBundles
<1> HIDE DEF code, of
<1>7. code \in [of -> CodeVersions]
  <2>1. \A i \in of : code[i] \in CodeVersions
    BY <1>3, <1>5 DEF MadeBundles
  <2>2. code = [i \in of |-> code[i]]
    BY <1>6 DEF code
  <2> QED
    BY <2>1, <2>2
<1>8. /\ contract \in Contracts
      /\ \A k \in DOMAIN made :
           /\ contract.face = made[k].contract.face
           /\ \/ contract.authoring = made[k].contract.authoring
              \/ contract.authoring = 2 /\ ~contract.face.requires
  <2>1. \A k \in DOMAIN made : made[k].contract \in Contracts
    BY <1>3 DEF MadeBundles
  <2> HIDE DEF made
  <2>2. CASE two
    <3>1. 2 \in DOMAIN made
      BY <1>3, <2>2
    <3>2. \A k \in DOMAIN made : k = 1 \/ k = 2
      BY <1>3, <2>2
    <3>3. left \in Contracts /\ right \in Contracts
      BY <1>3, <2>1, <3>1
    <3>4. contract = Projects!Promoted(left, right)
      BY <2>2
    <3> QED
      BY <1>1, <2>2, <3>2, <3>3, <3>4, PromotedIs
  <2>3. CASE ~two
    <3>1. contract = left /\ left \in Contracts
      BY <1>3, <2>1, <2>3
    <3>2. Runtime # "composite" => \A k \in DOMAIN made : k = 1
      BY <1>3, <2>3
    <3> QED
      BY <1>4, <3>1, <3>2
  <2> QED
    BY <2>2, <2>3
<1> HIDE DEF contract
<1>9. result \in Results /\ DOMAIN result.code # {} /\ result.code = code /\ result.contract = contract
  BY <1>6, <1>7, <1>8 DEF Results
<1> HIDE DEF result
<1>10. j \in ProjectJobs /\ j.result = result
  <2>1. old \in ProjectJobs
    BY DEF ProjectTypes
  <2> HIDE DEF old
  <2> QED
    BY <1>9, <2>1 DEF ProjectJobs
<1> HIDE DEF j
<1>11. bPc' \in [Processes -> {"idle", "making", "assembled", "archived", "persisted"}]
         /\ bPc'[b] = "assembled" /\ \A c \in Processes \ {b} : bPc'[c] = bPc[c]
  BY <1>1 DEF ProjectTypes, Projects!TypeOK
<1>12. ProjectTypes' /\ bJob'[b] = j /\ \A c \in Processes \ {b} : bJob'[c] = bJob[c]
  BY <1>1, <1>2, <1>10, <1>11, JobTypes DEF ProjectTypes, Projects!TypeOK
<1>13. ASSUME NEW i \in DOMAIN code
       PROVE  /\ i # "process" \/ b \notin bSwapped => Face[code[i]] = contract.face
              /\ \/ contract.authoring = Authored(i)
                 \/ contract.authoring = 2 /\ ~contract.face.requires
  <2>1. PICK k \in DOMAIN made : made[k].of = i /\ code[i] = made[k].code
    BY <1>5, <1>6
  <2> HIDE DEF made
  <2> QED
    BY <1>4, <1>8, <2>1
<1>14. \A n : Authored(n)' = Authored(n)
  BY <1>1 DEF Authored
<1>15. ResultInv(b)'
  BY <1>1, <1>9, <1>10, <1>12, <1>13, <1>14 DEF ResultInv
<1>16. StepsInv(b)' /\ DescribedInv(b)' /\ BundlesInv(b)'
  BY <1>11 DEF StepsInv, DescribedInv, BundlesInv, ProcessIsDue
<1>17. \A c \in Processes \ {b} : ProjectInv(c)'
  BY <1>1, <1>11, <1>12, OthersStay
<1> QED
  BY <1>1, <1>12, <1>15, <1>16, <1>17, StatedStays DEF ProjectInv

LEMMA BeginKeepsStated ==
  ASSUME ProjectsInv, NEW b \in Processes, NEW command \in PluginCommands,
         Projects!Begin(b, command)
  PROVE  ProjectsInv'
<1> USE DEF ProjectsInv
<1> DEFINE plan == Projects!Plan(bMetadata, command)
           named == Projects!Command(command)
           steps == Head(plan)
           later == Tail(plan)
           j == [Projects!NoJob EXCEPT !.command = named, !.steps = steps, !.later = later]
<1>1. /\ bPc[b] = "idle" /\ bPc' = [bPc EXCEPT ![b] = "making"]
      /\ bCommands < MaxPluginCommands /\ bCommands' = bCommands + 1
      /\ bJob' = [bJob EXCEPT ![b] = j]
      /\ UNCHANGED <<bMetadata, bAuthoring, bSource, bTarget, bOut, bSwapped, bMixed, bRan>>
  BY DEF Projects!Begin
<1>2. /\ plan \in Seq(Seq(ProjectSteps)) /\ plan # <<>>
      /\ \A k \in DOMAIN plan : Starts(plan[k], Runtime)
      /\ Runtime # "composite" => Len(plan) = 1
  BY PlanIs DEF ProjectTypes, Projects!TypeOK, Runtime
<1>3. named \in {"pack", "check", "dev"}
  BY DEF Projects!Command
<1> HIDE DEF plan, named
<1>4. /\ Len(plan) \in Nat /\ Len(plan) >= 1 /\ steps = plan[1] /\ 1 \in DOMAIN plan
      /\ later \in Seq(Seq(ProjectSteps)) /\ Len(later) = Len(plan) - 1
      /\ \A k \in DOMAIN later : k + 1 \in DOMAIN plan /\ later[k] = plan[k + 1]
  BY <1>2
<1>5. Starts(steps, Runtime) /\ \A k \in DOMAIN later : Starts(later[k], Runtime)
  BY <1>2, <1>4
<1>6. Runtime # "composite" => later = <<>>
  <2> SUFFICES ASSUME Runtime # "composite"
               PROVE  later = <<>>
    OBVIOUS
  <2>1. Len(later) = 0
    BY <1>2, <1>4
  <2> HIDE DEF later
  <2> QED
    BY <1>4, <2>1
<1> HIDE DEF steps, later
<1>7. /\ WellFormed(steps, Runtime) /\ steps \in Seq(ProjectSteps) /\ steps # <<>>
      /\ steps[1].do # "bundle"
  BY <1>5 DEF Starts, WellFormed
<1>8. /\ j \in ProjectJobs /\ j.steps = steps /\ j.later = later /\ j.bundles = <<>>
  <2> DEFINE k == [Projects!NoJob EXCEPT !.command = named]
             l == [k EXCEPT !.steps = steps]
  <2>1. <<>> \in Seq(ProjectSteps) /\ <<>> \in Seq(Seq(ProjectSteps)) /\ <<>> \in Seq(MadeBundles)
    OBVIOUS
  <2>2. k \in ProjectJobs /\ k.bundles = <<>>
    BY <1>3, <2>1 DEF Projects!NoJob, ProjectJobs, CodeVersions
  <2> HIDE DEF k
  <2>3. l \in ProjectJobs /\ l.steps = steps /\ l.bundles = <<>>
    BY <1>7, <2>2 DEF ProjectJobs
  <2>4. j = [l EXCEPT !.later = later]
    BY DEF k
  <2> HIDE DEF j, l
  <2> QED
    BY <1>4, <2>3, <2>4 DEF ProjectJobs
<1> HIDE DEF j
<1>9. /\ bJob' \in [Processes -> ProjectJobs] /\ bJob'[b] = j
      /\ \A c \in Processes \ {b} : bJob'[c] = bJob[c]
  BY <1>1, <1>8 DEF ProjectTypes
<1>10. bPc' \in [Processes -> {"idle", "making", "assembled", "archived", "persisted"}]
         /\ bPc'[b] = "making" /\ \A c \in Processes \ {b} : bPc'[c] = bPc[c]
  BY <1>1 DEF ProjectTypes, Projects!TypeOK
<1>11. ProjectTypes'
  <2>1. bCommands' \in 0..MaxPluginCommands
    BY <1>1, ProjectsAssumption DEF ProjectTypes, Projects!TypeOK
  <2>2. Projects!TypeOK'
    BY <1>1, <1>10, <2>1 DEF ProjectTypes, Projects!TypeOK, Projects!Roots, Projects!Profiles,
       Projects!Versions
  <2> QED
    BY <1>1, <1>9, <2>2 DEF ProjectTypes, ProjectJobs, CodeVersions, Results, MadeBundles,
       Contracts, Projects!Versions
<1>12. Runtime' = Runtime
  BY <1>1 DEF Runtime, Projects!ProjectRuntime
<1>13. StepsInv(b)'
  <2>1. Len(<<>>) = 0
    OBVIOUS
  <2> QED
    BY <1>5, <1>6, <1>7, <1>8, <1>9, <1>12, <2>1 DEF StepsInv
<1>14. DescribedInv(b)' /\ BundlesInv(b)' /\ ResultInv(b)'
  <2>1. DescribedInv(b)'
    BY <1>7, <1>8, <1>9 DEF DescribedInv, ProcessIsDue
  <2>2. BundlesInv(b)'
    BY <1>8, <1>9 DEF BundlesInv
  <2>3. ResultInv(b)'
    BY <1>10 DEF ResultInv
  <2> QED
    BY <2>1, <2>2, <2>3
<1>15. \A c \in Processes \ {b} : ProjectInv(c)'
  BY <1>1, <1>9, <1>10, OthersStay
<1> QED
  BY <1>1, <1>11, <1>13, <1>14, <1>15, StatedStays DEF ProjectInv

\* A command that ends leaves the others where they are.
LEMMA EndKeepsStated ==
  ASSUME ProjectsInv, NEW b \in Processes, Projects!End(b),
         UNCHANGED <<bMetadata, bAuthoring, bCommands, bSource, bTarget, bMixed>>
  PROVE  ProjectTypes' /\ \A c \in Processes : ProjectInv(c)'
<1> USE DEF ProjectsInv
<1>1. /\ bPc' = [bPc EXCEPT ![b] = "idle"] /\ bJob' = [bJob EXCEPT ![b] = Projects!NoJob]
      /\ bSwapped' = bSwapped \ {b}
  BY DEF Projects!End
<1>2. Projects!NoJob \in ProjectJobs
  <2>1. <<>> \in Seq(ProjectSteps) /\ <<>> \in Seq(Seq(ProjectSteps)) /\ <<>> \in Seq(MadeBundles)
    OBVIOUS
  <2> QED
    BY <2>1 DEF Projects!NoJob, ProjectJobs, CodeVersions
<1>3. bPc' \in [Processes -> {"idle", "making", "assembled", "archived", "persisted"}]
        /\ bPc'[b] = "idle" /\ \A c \in Processes \ {b} : bPc'[c] = bPc[c]
  BY <1>1 DEF ProjectTypes, Projects!TypeOK
<1>4. ProjectTypes' /\ \A c \in Processes \ {b} : bJob'[c] = bJob[c]
  <2>1. bSwapped' \subseteq Processes /\ bMixed' \in BOOLEAN
    BY <1>1 DEF ProjectTypes, Projects!TypeOK
  <2> QED
    BY <1>1, <1>2, <1>3, <2>1, JobTypes
<1>5. ProjectInv(b)'
  BY <1>3 DEF ProjectInv, StepsInv, DescribedInv, ProcessIsDue, BundlesInv, ResultInv
<1>6. \A c \in Processes \ {b} : ProjectInv(c)'
  BY <1>1, <1>3, <1>4, OthersStay
<1> QED
  BY <1>4, <1>5, <1>6

\* What was made is archived and becomes the output.
LEMMA MadeStays ==
  ASSUME ProjectsInv, NEW b \in Processes, bPc[b] \in {"assembled", "archived"},
         NEW next \in {"archived", "persisted"}, bPc' = [bPc EXCEPT ![b] = next],
         UNCHANGED <<bMetadata, bAuthoring, bCommands, bSource, bTarget, bJob, bSwapped>>,
         bMixed' \in BOOLEAN
  PROVE  ProjectTypes' /\ \A c \in Processes : ProjectInv(c)'
<1> USE DEF ProjectsInv
<1>1. bPc' \in [Processes -> {"idle", "making", "assembled", "archived", "persisted"}]
        /\ bPc'[b] = next /\ \A c \in Processes \ {b} : bPc'[c] = bPc[c]
  BY DEF ProjectTypes, Projects!TypeOK
<1>2. ProjectTypes'
  <2>1. Projects!TypeOK'
    BY <1>1 DEF ProjectTypes, Projects!TypeOK, Projects!Roots, Projects!Profiles,
       Projects!Versions
  <2> QED
    BY <2>1 DEF ProjectTypes, ProjectJobs, CodeVersions, Results, MadeBundles, Contracts,
       Projects!Versions
<1>3. \A i : Authored(i)' = Authored(i)
  BY DEF Authored
<1>4. ResultInv(b)'
  BY <1>1, <1>3 DEF ProjectInv, ResultInv
<1>5. ProjectInv(b)'
  BY <1>1, <1>4 DEF ProjectInv, StepsInv, DescribedInv, ProcessIsDue, BundlesInv
<1>6. \A c \in Processes \ {b} : ProjectInv(c)'
  BY <1>1, OthersStay
<1> QED
  BY <1>2, <1>5, <1>6

LEMMA ArchiveKeepsStated ==
  ASSUME ProjectsInv, NEW b \in Processes, Projects!Archive(b)
  PROVE  ProjectsInv'
<1>1. /\ bPc[b] = "assembled" /\ bPc' = [bPc EXCEPT ![b] = "archived"]
      /\ UNCHANGED <<bMetadata, bAuthoring, bCommands, bSource, bTarget, bOut, bJob, bSwapped,
                     bMixed, bRan>>
  BY DEF Projects!Archive, Projects!projectVars
<1>2. bMixed' \in BOOLEAN
  BY <1>1 DEF ProjectsInv, ProjectTypes, Projects!TypeOK
<1>3. ProjectTypes' /\ \A c \in Processes : ProjectInv(c)'
  BY <1>1, <1>2, MadeStays
<1> QED
  BY <1>1, <1>3, StatedStays DEF ProjectsInv

LEMMA PersistKeepsStated ==
  ASSUME ProjectsInv, NEW b \in Processes, Projects!Persist(b)
  PROVE  ProjectsInv'
<1>1. /\ bPc[b] = "archived" /\ bPc' = [bPc EXCEPT ![b] = "persisted"]
      /\ bOut' = bJob[b].result /\ bMixed' = (b \in bSwapped)
      /\ UNCHANGED <<bMetadata, bAuthoring, bCommands, bSource, bTarget, bJob, bSwapped, bRan>>
  BY DEF Projects!Persist, Projects!projectVars
<1>2. bMixed' \in BOOLEAN /\ (~bMixed' => b \notin bSwapped)
  <2>1. bMixed' = (b \in bSwapped)
    BY <1>1
  <2>2. CASE b \in bSwapped
    BY <2>1, <2>2
  <2>3. CASE b \notin bSwapped
    BY <2>1, <2>3
  <2> QED
    BY <2>2, <2>3
<1>3. ProjectTypes' /\ \A c \in Processes : ProjectInv(c)'
  BY <1>1, <1>2, MadeStays
<1>4. ResultInv(b)
  BY DEF ProjectsInv, ProjectInv
<1>5. Projects!PackedAsStated'
  <2> DEFINE r == bJob[b].result
  <2>1. r = bOut' /\ (~bMixed' => b \notin bSwapped)
    BY <1>1, <1>2
  <2>2. \A i \in DOMAIN r.code :
          /\ i # "process" \/ b \notin bSwapped => Face[r.code[i]] = r.contract.face
          /\ \/ r.contract.authoring = Authored(i)
             \/ r.contract.authoring = 2 /\ ~r.contract.face.requires
    BY <1>1, <1>4 DEF ResultInv
  <2>3. \A i : Projects!Contract(i, bOut.code[i], bOut.contract.release)'.authoring = Authored(i)
    BY <1>1 DEF Projects!Contract, Authored
  <2> HIDE DEF r
  <2>4. ASSUME ~bMixed', NEW i \in DOMAIN bOut'.code
        PROVE  /\ Face[bOut'.code[i]] = bOut'.contract.face
               /\ LET own == Projects!Contract(i, bOut.code[i], bOut.contract.release)'
                  IN \/ bOut'.contract.authoring = own.authoring
                     \/ bOut'.contract.authoring = 2 /\ ~bOut'.contract.face.requires
    <3>1. b \notin bSwapped /\ i \in DOMAIN r.code
      BY <2>1, <2>4
    <3>2. /\ Face[r.code[i]] = r.contract.face
          /\ \/ r.contract.authoring = Authored(i)
             \/ r.contract.authoring = 2 /\ ~r.contract.face.requires
      BY <2>2, <3>1
    <3> QED
      BY <2>1, <2>3, <3>2
  <2> QED
    BY <2>4 DEF Projects!PackedAsStated
<1>6. Projects!RunsAsStated'
  BY <1>1, StatedStays DEF ProjectsInv
<1> QED
  BY <1>3, <1>5, <1>6 DEF ProjectsInv

LEMMA InvokeKeepsStated ==
  ASSUME ProjectsInv, NEW b \in Processes, Projects!Invoke(b)
  PROVE  ProjectsInv'
<1> DEFINE r == bJob[b].result
           i == IF "process" \in DOMAIN r.code THEN "process"
                ELSE CHOOSE x \in DOMAIN r.code : TRUE
<1>1. /\ bPc[b] = "assembled" /\ Projects!End(b)
      /\ i # "bun" => Face[r.code[i]].capability = r.contract.face.capability
      /\ bRan' = [contract |-> r.contract, code |-> r.code[i]]
      /\ UNCHANGED <<bMetadata, bAuthoring, bCommands, bSource, bTarget, bOut, bMixed>>
  BY DEF Projects!Invoke, Projects!projectVars
<1>2. ProjectTypes' /\ \A c \in Processes : ProjectInv(c)'
  BY <1>1, EndKeepsStated
<1>3. /\ DOMAIN r.code # {}
      /\ \A x \in DOMAIN r.code : x # "process" => Face[r.code[x]] = r.contract.face
  BY <1>1 DEF ProjectsInv, ProjectInv, ResultInv
<1>4. i \in DOMAIN r.code
  BY <1>3
<1> HIDE DEF r, i
<1>5. Face[r.code[i]].capability = r.contract.face.capability
  BY <1>1, <1>3, <1>4
<1>6. Projects!RunsAsStated'
  BY <1>1, <1>5 DEF Projects!RunsAsStated
<1> QED
  BY <1>1, <1>2, <1>6, StatedStays DEF ProjectsInv

\* Bundles stay as they are when people edit sources.
LEMMA EditKeepsStated ==
  ASSUME ProjectsInv, NEW r \in Projects!Roots, Projects!Edit(r)
  PROVE  ProjectsInv'
<1> USE DEF ProjectsInv
<1>1. /\ bSource["main"] + bSource["process"] + bSource["bun"] < MaxPluginEdits + 3
      /\ bSource' = [bSource EXCEPT ![r] = @ + 1]
      /\ UNCHANGED <<bMetadata, bAuthoring, bCommands, bTarget, bOut, bPc, bJob, bSwapped,
                     bMixed, bRan>>
  BY DEF Projects!Edit, Projects!projectVars
<1>2. bSource \in [Projects!Roots -> Projects!Versions] /\ Projects!Roots = {"main", "process", "bun"}
  BY DEF ProjectTypes, Projects!TypeOK, Projects!Roots
<1>3. bSource[r] + 1 \in Projects!Versions
  <2>1. /\ bSource["main"] \in Projects!Versions /\ bSource["process"] \in Projects!Versions
        /\ bSource["bun"] \in Projects!Versions
    BY <1>2
  <2>2. r = "main" \/ r = "process" \/ r = "bun"
    BY <1>2
  <2> QED
    BY <1>1, <2>1, <2>2, ProjectsAssumption DEF Projects!Versions
<1>4. bSource' \in [Projects!Roots -> Projects!Versions]
  BY <1>1, <1>2, <1>3
<1>5. ProjectTypes'
  <2>1. Projects!TypeOK'
    BY <1>1, <1>4 DEF ProjectTypes, Projects!TypeOK, Projects!Roots, Projects!Profiles,
       Projects!Versions
  <2> QED
    BY <1>1, <2>1 DEF ProjectTypes, ProjectJobs, CodeVersions, Results, MadeBundles, Contracts,
       Projects!Versions
<1>6. \A c \in Processes : ProjectInv(c)'
  BY <1>1, OtherBuilds
<1> QED
  BY <1>1, <1>5, <1>6, StatedStays

LEMMA ProjectsNext == ProjectsInv /\ [Projects!Next]_projectVars => ProjectsInv'
<1> SUFFICES ASSUME ProjectsInv, [Projects!Next]_projectVars
             PROVE  ProjectsInv'
  OBVIOUS
<1>1. CASE UNCHANGED projectVars
  <2>1. UNCHANGED <<bMetadata, bAuthoring, bSource, bTarget, bOut, bPc, bJob, bCommands,
                    bSwapped, bMixed, bRan>>
    BY <1>1 DEF projectVars
  <2>2. ProjectTypes'
    BY <2>1 DEF ProjectsInv, ProjectTypes, Projects!TypeOK, Projects!Roots, Projects!Profiles,
       Projects!Versions, ProjectJobs, CodeVersions, Results, MadeBundles, Contracts
  <2>3. \A c \in Processes : ProjectInv(c)'
    BY <2>1, OtherBuilds DEF ProjectsInv
  <2> QED
    BY <2>1, <2>2, <2>3, StatedStays DEF ProjectsInv
<1>2. ASSUME NEW b \in Processes, Projects!Step(b)
      PROVE  ProjectsInv'
  <2>1. CASE \E command \in PluginCommands : Projects!Begin(b, command)
    BY <2>1, BeginKeepsStated
  <2>2. CASE Projects!Build(b)
    BY <2>2, BuildKeepsStated
  <2>3. CASE Projects!Describe(b)
    BY <2>3, DescribeKeepsStated
  <2>4. CASE Projects!Typecheck(b)
    BY <2>4, TypecheckKeepsStated
  <2>5. CASE Projects!Bundle(b)
    BY <2>5, BundleKeepsStated
  <2>6. CASE Projects!Assemble(b)
    BY <2>6, AssembleKeepsStated
  <2>7. CASE Projects!Archive(b)
    BY <2>7, ArchiveKeepsStated
  <2>8. CASE Projects!Persist(b)
    BY <2>8, PersistKeepsStated
  <2>9. CASE Projects!Reopen(b) \/ Projects!Stop(b)
    <3>1. Projects!End(b) /\ UNCHANGED <<bMetadata, bAuthoring, bCommands, bSource, bTarget,
                                         bOut, bMixed, bRan>>
      BY <2>9 DEF Projects!Reopen, Projects!Stop, Projects!projectVars
    <3> QED
      BY <3>1, EndKeepsStated, StatedStays DEF ProjectsInv
  <2>10. CASE Projects!Invoke(b)
    BY <2>10, InvokeKeepsStated
  <2> QED
    BY <1>2, <2>1, <2>2, <2>3, <2>4, <2>5, <2>6, <2>7, <2>8, <2>9, <2>10 DEF Projects!Step
<1>3. ASSUME NEW r \in Projects!Roots, Projects!Edit(r)
      PROVE  ProjectsInv'
  BY <1>3, EditKeepsStated
<1>4. CASE Projects!Delete
  <2>1. bOut' = None /\ bMixed' = FALSE
        /\ UNCHANGED <<bMetadata, bAuthoring, bCommands, bSource, bTarget, bPc, bJob, bSwapped,
                       bRan>>
    BY <1>4 DEF Projects!Delete, Projects!projectVars
  <2>2. ProjectTypes'
    BY <2>1 DEF ProjectsInv, ProjectTypes, Projects!TypeOK, Projects!Roots, Projects!Profiles,
       Projects!Versions, ProjectJobs, CodeVersions, Results, MadeBundles, Contracts
  <2>3. \A c \in Processes : ProjectInv(c)'
    BY <2>1, OtherBuilds DEF ProjectsInv
  <2>4. Projects!PackedAsStated'
    BY <2>1 DEF Projects!PackedAsStated
  <2> QED
    BY <2>1, <2>2, <2>3, <2>4, StatedStays DEF ProjectsInv
<1> QED
  BY <1>1, <1>2, <1>3, <1>4 DEF Projects!Next

LEMMA ProjectsRun == AuthoringSpec => Projects!Init /\ [][Projects!Next]_projectVars
<1>1. AuthoringInit => Projects!Init
  BY DEF AuthoringInit
<1>2. [AuthoringNext]_authoringVars => [Projects!Next]_projectVars
  BY DEF AuthoringNext, authoringVars, otherVars, projectVars, Rests
<1> QED
  BY <1>1, <1>2, PTL DEF AuthoringSpec

LEMMA ProjectsKept == AuthoringSpec => []ProjectsInv
BY InitProjects, ProjectsNext, ProjectsRun, PTL

\* For any projects, commands, sources and edits: a packed Bundle states the Contract of
\* each implementation in it, and dev invokes only what its Bundle states.
THEOREM BundlesStateTheirContract == AuthoringSpec => []BundlesAreAsStated
<1>1. ProjectsInv => BundlesAreAsStated
  BY DEF ProjectsInv, BundlesAreAsStated
<1> QED
  BY <1>1, ProjectsKept, PTL

-----------------------------------------------------------------------------
(* Every command.                                                          *)

LEMMA ChangesRun == AuthoringSpec => Spec
<1>1. AuthoringInit => Init
  BY DEF AuthoringInit
<1>2. [AuthoringNext]_authoringVars => [Next]_vars
  BY DEF AuthoringNext, authoringVars, otherVars, vars, Rests
<1> QED
  BY <1>1, <1>2, PTL DEF AuthoringSpec, Spec

LEMMA SameStoreTypes == Store!TypeOK <=> StoreProofs!TypeOK
BY DEF Store!TypeOK, StoreProofs!TypeOK, Store!Bundles, StoreProofs!Bundles, Store!Archives,
   StoreProofs!Archives, Store!Ops, StoreProofs!Ops

OnePart == part \in {"changes", "differences", "bundles", "catalog", "projects"}

LEMMA PartStays == AuthoringSpec => []OnePart
<1>1. AuthoringInit => OnePart
  BY DEF AuthoringInit, OnePart
<1>2. OnePart /\ [AuthoringNext]_authoringVars => OnePart'
  BY DEF AuthoringNext, authoringVars, Rests, OnePart
<1> QED
  BY <1>1, <1>2, PTL DEF AuthoringSpec

\* For any constants: every variable of every kind of command keeps its type.
THEOREM AuthoringTypesHold == AuthoringSpec => []AuthoringTypeOK
<1>1. AuthoringSpec => []TypeOK
  BY ChangesRun, AuthorityTypes
<1>2. AuthoringSpec => []StoreProofs!TypeOK
  BY StoreRuns, StoreNamesApart, StoreProofs!StoreTypesHold
<1>3. AuthoringSpec => []CatalogInv
  BY InitCatalog, CatalogSteps, CatalogRuns, PTL
<1>4. /\ OnePart /\ TypeOK /\ StoreProofs!TypeOK /\ CatalogInv /\ DifferencesInv /\ ProjectsInv
      => AuthoringTypeOK
  BY SameStoreTypes
  DEF OnePart, AuthoringTypeOK, CatalogInv, DifferencesInv, ProjectsInv, ProjectTypes
<1> QED
  BY <1>1, <1>2, <1>3, <1>4, PartStays, DifferencesKept, ProjectsKept, PTL
=============================================================================
