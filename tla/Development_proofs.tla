------------------------- MODULE Development_proofs -------------------------
(***************************************************************************)
(* Theorems about DevLoop, for all source roots, edits and faults, and,    *)
(* with those of PluginDev, about the two commands of Development.         *)
(***************************************************************************)
EXTENDS Development, TLAPS, FiniteSetTheorems

\* The child process is at work.
Active == {"discovering", "digesting", "listing", "hashing", "compiling", "checking",
           "publishing"}

Numbers == {revision, current, host} \subseteq Nat

\* A build is at work only while the loop waits for it, and a Host is replaced
\* only after one that has succeeded; dev returns once.
BuildInv ==
  /\ build \in Active => pc = "building"
  /\ pc \in {"replacing", "retiring"} => build = "succeeded"
  /\ pc = "leaving" => build = "none"
  /\ result = "stopped" => pc = "ended"

\* The generation a successful build has left, the one that is current and the
\* one before it are three different ones until the last of them is removed.
GenerationInv ==
  /\ build = "succeeded" /\ pc # "ended" => revision \in outputs
  /\ current <= revision
  /\ pc \in {"building", "replacing", "retiring"} => current < revision

\* The only Host is the one the loop holds, and it is current except between the
\* start of the next one and the removal of its predecessor.
HostInv ==
  /\ alive \subseteq {host}
  /\ alive \subseteq outputs
  /\ 0 \notin alive
  /\ pc = "retiring" => host = revision
  /\ pc # "retiring" => host \in {0, current}
  /\ pc = "ended" => alive = {}

LoopInv == Numbers /\ BuildInv /\ GenerationInv /\ HostInv

LEMMA InitLoop == Init => LoopInv
BY DEF Init, LoopInv, Numbers, BuildInv, GenerationInv, HostInv, Active

\* The steps of the child process touch nothing of the Hosts; the last one adds
\* the generation of the present revision.
LEMMA BuildKeeps ==
  ASSUME LoopInv, BuildStep
  PROVE  LoopInv'
<1>1. build \in Active /\ pc = "building"
  BY DEF BuildStep, Discover, DigestApp, ReadManifest, Follow, WriteRoots, Hash, NextPass,
     Compile, BuildFails, Check, PublishOutput, Active, LoopInv, BuildInv
<1>2. UNCHANGED <<pc, revision, current, host, alive, result>>
  BY DEF BuildStep, Discover, DigestApp, ReadManifest, Follow, WriteRoots, Hash, NextPass,
     Compile, BuildFails, Check, PublishOutput, hostVars, loopVars
<1>3. outputs \subseteq outputs' /\ (build' = "succeeded" => revision \in outputs')
  BY <1>1 DEF BuildStep, Discover, DigestApp, ReadManifest, Follow, WriteRoots, Hash,
     NextPass, Compile, BuildFails, Check, PublishOutput, hostVars, loopVars, Active
<1> QED
  BY <1>1, <1>2, <1>3 DEF LoopInv, Numbers, BuildInv, GenerationInv, HostInv

LEMMA LoopKeeps ==
  ASSUME LoopInv, LoopStep
  PROVE  LoopInv'
<1> USE DEF LoopInv, Numbers, BuildInv, GenerationInv, HostInv, buildVars, readVars,
hostVars,
            loopVars, Running
<1>1. CASE StartBuild
  BY <1>1 DEF StartBuild, Active
<1>2. CASE BuildEnds
  BY <1>2 DEF BuildEnds, Active
<1>3. CASE Drain
  BY <1>3 DEF Drain
<1>4. CASE StartHost
  BY <1>4 DEF StartHost, Active
<1>5. CASE Retire
  BY <1>5 DEF Retire, Active
<1>6. CASE ForgetHost
  BY <1>6 DEF ForgetHost
<1>7. CASE Receive
  BY <1>7 DEF Receive, End, Active
<1>8. CASE Coalesce
  BY <1>8 DEF Coalesce, Active
<1>9. CASE Rewatch
  BY <1>9 DEF Rewatch, Active
<1>10. CASE DrainLast
  BY <1>10 DEF DrainLast
<1>11. CASE Leave
  BY <1>11 DEF Leave, End, Active
<1> QED
  BY <1>1, <1>2, <1>3, <1>4, <1>5, <1>6, <1>7, <1>8, <1>9, <1>10, <1>11 DEF LoopStep

LEMMA NextKeeps == LoopInv /\ [Next]_vars => LoopInv'
<1> SUFFICES ASSUME LoopInv, [Next]_vars
             PROVE  LoopInv'
  OBVIOUS
<1>1. CASE BuildStep
  BY <1>1, BuildKeeps
<1>2. CASE LoopStep
  BY <1>2, LoopKeeps
<1> USE DEF LoopInv, Numbers, BuildInv, GenerationInv, HostInv, buildVars, readVars,
hostVars,
            loopVars, Running
<1>3. CASE Interrupt
  BY <1>3 DEF Interrupt, Active
<1>4. CASE Fail
  BY <1>4 DEF Fail, End, Active
<1>5. CASE WatcherError
  BY <1>5 DEF WatcherError
<1>6. CASE HostExits
  BY <1>6 DEF HostExits
<1>7. CASE \E r \in Roots : Deliver(r) \/ Edit(r)
  BY <1>7 DEF Deliver, Edit
<1>8. CASE UNCHANGED vars
  BY <1>8 DEF vars
<1> QED
  BY <1>1, <1>2, <1>3, <1>4, <1>5, <1>6, <1>7, <1>8 DEF Next

LEMMA LoopCorrect == Spec => []LoopInv
BY InitLoop, NextKeeps, PTL DEF Spec

\* One Host runs at a time, from a directory that exists, however builds fail,
\* Hosts exit and calls break off (stop, spawn and remove_dir_all in dev).
THEOREM OneHost == Spec => []OneHostWithItsFiles
<1>1. LoopInv => OneHostWithItsFiles
  <2> SUFFICES ASSUME LoopInv
               PROVE  Cardinality(alive) <= 1 /\ alive \subseteq outputs
    BY DEF OneHostWithItsFiles
  <2>1. IsFiniteSet({host}) /\ Cardinality({host}) = 1
    BY FS_Singleton
  <2>2. alive \subseteq {host}
    BY DEF LoopInv, HostInv
  <2>3. Cardinality(alive) \in Nat /\ Cardinality(alive) <= Cardinality({host})
    BY <2>1, <2>2, FS_Subset, FS_CardinalityType
  <2> QED
    BY <2>1, <2>3 DEF LoopInv, HostInv
<1> QED
  BY <1>1, LoopCorrect, PTL

\* A Host is replaced only by a newer one that starts when it is gone, and dev
\* ends well only with nothing left running (dev, stop).
THEOREM HostsOnlyForward == Spec => HostsGoForward
<1> DEFINE Forward == alive' \subseteq alive \/ \A h \in alive' : h > current /\ alive = {}
           Clean == result' = "stopped" => alive = {} /\ build = "none"
<1>1. LoopInv /\ [Next]_vars => [Forward /\ Clean]_vars
  <2> SUFFICES ASSUME LoopInv, Next
               PROVE  Forward /\ Clean
    OBVIOUS
  <2>1. CASE StartHost
    BY <2>1 DEF StartHost, LoopInv, Numbers, BuildInv, GenerationInv, HostInv, Running
  <2>2. CASE ~StartHost
    <3>1. Forward
      BY <2>2 DEF Next, LoopStep, BuildStep, StartBuild, BuildEnds, Drain, Retire,
         ForgetHost, Receive, Coalesce, Rewatch, DrainLast, Leave, End, Discover,
         DigestApp, ReadManifest, Follow, WriteRoots, Hash, NextPass, Compile, BuildFails,
         Check, PublishOutput, Interrupt, Fail,
         WatcherError, HostExits, Deliver, Edit, hostVars
    <3>2. pc # "ended"
      <4>1. CASE BuildStep
        BY <4>1 DEF BuildStep, Discover, DigestApp, ReadManifest, Follow, WriteRoots,
           Hash, NextPass, Compile, BuildFails, Check, PublishOutput, LoopInv, BuildInv,
           Active
      <4>2. CASE LoopStep
        BY <4>2 DEF LoopStep, StartBuild, BuildEnds, Drain, StartHost, Retire, ForgetHost,
           Receive, Coalesce, Rewatch, DrainLast, Leave
      <4>3. CASE Interrupt \/ Fail \/ WatcherError \/ HostExits
        BY <4>3 DEF Interrupt, Fail, WatcherError, HostExits
      <4>4. CASE \E r \in Roots : Deliver(r) \/ Edit(r)
        BY <4>4 DEF Deliver, Edit
      <4> QED
        BY <4>1, <4>2, <4>3, <4>4 DEF Next
    <3>3. CASE Leave
      BY <3>1, <3>3 DEF Leave, Running, LoopInv, BuildInv, HostInv
    <3>4. CASE ~Leave
      <4>1. result' \in {result, "failed"}
        <5>1. CASE BuildStep
          BY <5>1 DEF BuildStep, Discover, DigestApp, ReadManifest, Follow, WriteRoots,
             Hash, NextPass, Compile, BuildFails, Check, PublishOutput, loopVars
        <5>2. CASE LoopStep
          BY <5>2, <2>2, <3>4 DEF LoopStep, StartBuild, BuildEnds, Drain, Retire,
             ForgetHost,
             Receive, Coalesce, Rewatch, DrainLast, End, loopVars
        <5>3. CASE Interrupt \/ Fail \/ WatcherError \/ HostExits
          BY <5>3 DEF Interrupt, Fail, End, WatcherError, HostExits, loopVars
        <5>4. CASE \E r \in Roots : Deliver(r) \/ Edit(r)
          BY <5>4 DEF Deliver, Edit, loopVars
        <5> QED
          BY <5>1, <5>2, <5>3, <5>4 DEF Next
      <4> QED
        BY <3>1, <3>2, <4>1 DEF LoopInv, BuildInv
    <3> QED
      BY <3>3, <3>4
  <2> QED
    BY <2>1, <2>2
<1>2. LoopInv /\ [Next]_vars => [/\ alive' \subseteq alive \/ \A h \in alive' : h > current /\ alive = {}
                                 /\ result' = "stopped" => alive = {} /\ build = "none"]_vars
  BY <1>1
<1> QED
  BY <1>2, LoopCorrect, PTL DEF Spec, HostsGoForward

-----------------------------------------------------------------------------
(* Types.                                                                  *)

Kinds == {"event", "error"}

\* Edits stay within their bound, so that lenso.toml is one of the known versions;
\* versions only grow, and the present one is the last of them.
DiskTypes ==
  /\ version \in [Roots -> Nat]
  /\ \A r \in Roots : version[r] <= MaxEdits[r]
  /\ past \subseteq [Sources -> Nat]
  /\ Present \in past
  /\ \A v \in past, r \in Sources : v[r] <= version[r]

WatchTypes ==
  /\ watched \subseteq Roots /\ raised \subseteq Roots /\ watchRoots \subseteq Deps
  /\ queue \in Seq(Kinds) /\ Len(queue) <= QueueSize

BuildTypes ==
  /\ tried \in [Roots -> Nat] /\ listed \in [Roots -> Nat]
  /\ seen \in [Roots -> Nat] /\ compiled \in [Roots -> Nat]
  /\ picked \in [declared : SUBSET Deps, native : BOOLEAN]
  /\ graph \subseteq Deps /\ todo \subseteq Sources /\ done \subseteq Sources
  /\ build \in Active \union {"none", "failed", "succeeded"}

LoopTypes ==
  /\ pc \in {"begin", "building", "replacing", "retiring", "waiting", "debouncing",
             "rewatching", "leaving", "ended"}
  /\ faults \in Nat
  /\ outputs \union alive \subseteq 1 .. revision
  /\ result \in {"none", "stopped", "failed"}

TypeInv == DiskTypes /\ WatchTypes /\ BuildTypes /\ LoopTypes

LEMMA TypeInvIsTypeOK == TypeInv /\ LoopInv => TypeOK
<1> SUFFICES ASSUME TypeInv, LoopInv PROVE TypeOK
  OBVIOUS
<1>1. queue \in [1 .. Len(queue) -> Kinds] /\ Len(queue) \in 0 .. QueueSize
  BY BoundAssumption DEF TypeInv, WatchTypes
<1>2. queue \in UNION {[1 .. n -> {"event", "error"}] : n \in 0 .. QueueSize}
  BY <1>1 DEF Kinds
<1> QED
  BY <1>2 DEF TypeInv, DiskTypes, WatchTypes, BuildTypes, LoopTypes, Active, TypeOK,
     LoopInv,
              Numbers

\* What is on disk has a version for which its declarations and manifests are known.
LEMMA AppVersion ==
  ASSUME DiskTypes
  PROVE  /\ Declared[version[Intent]] \subseteq Deps
         /\ \A r \in Sources : Uses[r][version[r]] \subseteq Deps
         /\ Selection \in [declared : SUBSET Deps, native : BOOLEAN]
<1>1. \A r \in Roots : version[r] \in 0 .. MaxEdits[r]
  BY RootAssumption DEF DiskTypes
<1>2. Declared[version[Intent]] \in SUBSET Deps
  BY <1>1, AppAssumption DEF Roots
<1>3. ASSUME NEW r \in Sources PROVE Uses[r][version[r]] \subseteq Deps
  <2>1. Uses[r] \in [0 .. MaxEdits[r] -> SUBSET Deps] /\ version[r] \in 0 .. MaxEdits[r]
    BY <1>1, AppAssumption DEF Roots
  <2> QED
    BY <2>1
<1>4. (version[App] \in Native) \in BOOLEAN
  OBVIOUS
<1> QED
  BY <1>2, <1>3, <1>4 DEF Selection

LEMMA InitTypes == Init => TypeInv
<1> SUFFICES ASSUME Init PROVE TypeInv
  OBVIOUS
<1>1. version \in [Roots -> Nat] /\ past = {Present} /\ \A r \in Roots : version[r] = 0
  BY DEF Init
<1>2. DiskTypes
  BY <1>1, RootAssumption DEF DiskTypes, Present, Roots
<1>3. queue \in Seq(Kinds) /\ Len(queue) <= QueueSize
  BY BoundAssumption DEF Init
<1>4. watchRoots \subseteq Deps
  BY AppAssumption DEF Init
<1>5. Declared[0] \subseteq Deps
  BY <1>1, <1>2, AppVersion, RootAssumption DEF Roots
<1>6. watched \subseteq Roots
  BY <1>4, <1>5 DEF Init, Roots, Sources
<1>7. BuildTypes
  <2>1. picked \in [declared : SUBSET Deps, native : BOOLEAN]
    BY <1>2, AppVersion DEF Init
  <2> QED
    BY <1>1, <2>1 DEF Init, BuildTypes
<1> QED
  BY <1>1, <1>2, <1>3, <1>4, <1>6, <1>7 DEF Init, TypeInv, WatchTypes, LoopTypes

LEMMA TypeStep ==
  ASSUME TypeInv, LoopInv, [Next]_vars
  PROVE  TypeInv'
<1> USE TypeInv DEF TypeInv, diskVars, watchVars, buildVars, readVars, hostVars, loopVars
<1>1. DiskTypes'
  <2>1. CASE \E r \in Roots : Edit(r)
    <3> PICK r \in Roots : Edit(r)
      BY <2>1
    <3>1. /\ version' = [version EXCEPT ![r] = version[r] + 1]
          /\ version[r] < MaxEdits[r] /\ past' = past \union {Present'}
      BY DEF Edit
    <3>2. version' \in [Roots -> Nat] /\ Present' \in [Sources -> Nat]
            /\ \A q \in Sources : Present'[q] = version'[q]
      BY <3>1 DEF DiskTypes, Present, Roots
    <3>3. \A q \in Roots : version[q] <= version'[q] /\ version'[q] <= MaxEdits[q]
      <4> TAKE q \in Roots
      <4>1. version[q] \in Nat /\ MaxEdits[q] \in Nat /\ version[q] <= MaxEdits[q]
        BY RootAssumption DEF DiskTypes
      <4>2. version'[q] = IF q = r THEN version[q] + 1 ELSE version[q]
        BY <3>1 DEF DiskTypes
      <4> QED
        BY <3>1, <4>1, <4>2
    <3>4. ASSUME NEW v \in past', NEW q \in Sources PROVE v[q] <= version'[q]
      <4>1. CASE v = Present'
        BY <3>2, <4>1 DEF Roots
      <4>2. CASE v \in past
        <5>1. v[q] \in Nat /\ version[q] \in Nat /\ version'[q] \in Nat
          BY <3>2, <4>2 DEF DiskTypes, Roots
        <5> QED
          BY <3>3, <4>2, <5>1 DEF DiskTypes, Roots
      <4> QED
        BY <3>1, <4>1, <4>2
    <3> QED
      BY <3>1, <3>2, <3>3, <3>4 DEF DiskTypes
  <2>2. CASE UNCHANGED <<version, past>>
    BY <2>2 DEF DiskTypes, Present
  <2> QED
    BY <2>1, <2>2 DEF Next, LoopStep, BuildStep, StartBuild, BuildEnds, Drain, StartHost,
       Retire, ForgetHost, Receive, Coalesce, Rewatch, DrainLast, Leave, End, Discover,
       DigestApp, ReadManifest, Follow, WriteRoots, Hash, NextPass, Compile, BuildFails,
       Check, PublishOutput, Interrupt,
       Fail, WatcherError, HostExits, Deliver, vars
<1>2. WatchTypes'
  <2>1. Declared[version[Intent]] \subseteq Deps /\ done \subseteq Sources
    BY AppVersion DEF BuildTypes
  <2>2. QueueSize \in Nat \ {0}
    BY BoundAssumption
  <2> USE DEF WatchTypes
  <2>3. CASE BuildStep
    BY <2>1, <2>3 DEF BuildStep, Discover, DigestApp, ReadManifest, WriteRoots, Hash,
       NextPass, Compile, BuildFails, Check, PublishOutput, Sources
  <2>4. CASE Receive
    <3>1. queue' = Tail(queue) /\ queue # <<>> /\ UNCHANGED <<watched, raised, watchRoots>>
      BY <2>4 DEF Receive, End
    <3>2. Tail(queue) \in Seq(Kinds) /\ Len(Tail(queue)) = Len(queue) - 1
      BY <3>1
    <3>3. Len(queue) \in Nat
      BY <3>1
    <3> QED
      BY <2>2, <3>1, <3>2, <3>3
  <2>5. CASE LoopStep /\ ~Receive
    <3>1. watched' \subseteq Roots /\ raised' \subseteq Roots /\ watchRoots' \subseteq Deps
      BY <2>1, <2>5 DEF LoopStep, StartBuild, BuildEnds, Drain, StartHost, Retire,
         ForgetHost, Coalesce, Rewatch, DrainLast, Leave, Roots, Sources
    <3>2. queue' \in {queue, <<>>}
      BY <2>5 DEF LoopStep, StartBuild, BuildEnds, Drain, StartHost, Retire,
         ForgetHost, Coalesce, Rewatch, DrainLast, Leave
    <3>3. <<>> \in Seq(Kinds) /\ Len(<<>>) = 0
      OBVIOUS
    <3>4. CASE queue' = queue
      BY <3>1, <3>4
    <3>5. CASE queue' = <<>>
      BY <2>2, <3>1, <3>3, <3>5
    <3> QED
      BY <3>2, <3>4, <3>5
  <2>6. CASE WatcherError \/ \E r \in Roots : Deliver(r)
    <3>1. queue' \in {Pushed("event"), Pushed("error")} /\ raised' \subseteq raised
            /\ UNCHANGED <<watched, watchRoots>>
      BY <2>6 DEF WatcherError, Deliver
    <3>2. queue' \in Seq(Kinds) /\ Len(queue') <= QueueSize
      BY <2>2, <3>1 DEF Pushed, Kinds
    <3> QED
      BY <3>1, <3>2
  <2>7. CASE \E r \in Roots : Edit(r)
    BY <2>7 DEF Edit
  <2>8. CASE Interrupt \/ Fail \/ HostExits \/ UNCHANGED vars
    BY <2>8 DEF Interrupt, Fail, HostExits, vars
  <2> QED
    BY <2>3, <2>4, <2>5, <2>6, <2>7, <2>8 DEF Next
<1>3. BuildTypes'
  <2>1. version \in [Roots -> Nat] /\ Roots = Sources \union {Intent}
          /\ Sources = Deps \union {App}
    BY DEF DiskTypes, Roots, Sources
  <2> USE DEF BuildTypes, Active
  <2>2. CASE BuildStep
    <3>1. CASE Discover
      BY <3>1, AppVersion DEF Discover
    <3>2. CASE \E r \in Sources : ReadManifest(r) \/ Compile(r)
      <4> PICK r \in Sources : ReadManifest(r) \/ Compile(r)
        BY <3>2
      <4>1. Uses[r][version[r]] \subseteq Deps /\ r \in Roots /\ version[r] \in Nat
        BY <2>1, AppVersion
      <4>2. done' \subseteq Sources /\ todo' \subseteq Sources
        BY <2>1, <4>1 DEF ReadManifest, Compile, Follow
      <4>3. listed' \in [Roots -> Nat] /\ compiled' \in [Roots -> Nat]
        BY <4>1 DEF ReadManifest, Compile
      <4> QED
        BY <4>2, <4>3 DEF ReadManifest, Compile
    <3>3. CASE DigestApp \/ WriteRoots \/ NextPass \/ BuildFails \/ PublishOutput
      BY <2>1, <3>3 DEF DigestApp, WriteRoots, NextPass, BuildFails, PublishOutput
    <3>4. CASE \E r \in Sources : Hash(r) \/ Check(r)
      BY <2>1, <3>4 DEF Hash, Check
    <3> QED
      BY <2>2, <3>1, <3>2, <3>3, <3>4 DEF BuildStep
  <2>3. CASE LoopStep
    BY <2>1, <2>3 DEF LoopStep, StartBuild, BuildEnds, Drain, StartHost, Retire, ForgetHost,
       Receive, Coalesce, Rewatch, DrainLast, Leave
  <2>4. CASE ~BuildStep /\ ~LoopStep
    BY <2>4 DEF Next, Interrupt, Fail, WatcherError, HostExits, Deliver, Edit, vars
  <2> QED
    BY <2>2, <2>3, <2>4
<1>4. LoopTypes'
  <2> USE DEF LoopTypes, Running
  <2>1. revision \in Nat /\ current \in Nat
          /\ (pc \in {"building", "replacing", "retiring"} => revision \in 1 .. revision)
    BY DEF LoopInv, Numbers, GenerationInv
  <2>2. CASE BuildStep
    <3>1. pc = "building"
      BY <2>2 DEF BuildStep, Discover, DigestApp, ReadManifest, Follow, WriteRoots, Hash,
         NextPass, Compile, BuildFails, Check, PublishOutput, LoopInv, BuildInv, Active
    <3>2. outputs' \subseteq outputs \union {revision}
            /\ UNCHANGED <<pc, faults, alive, result, revision>>
      BY <2>2 DEF BuildStep, Discover, DigestApp, ReadManifest, Follow, WriteRoots, Hash,
         NextPass, Compile, BuildFails, Check, PublishOutput
    <3> QED
      BY <2>1, <3>1, <3>2
  <2>3. CASE StartBuild
    BY <2>1, <2>3 DEF StartBuild
  <2>4. CASE LoopStep /\ ~StartBuild
    BY <2>1, <2>4 DEF LoopStep, BuildEnds, Drain, StartHost, Retire, ForgetHost,
       Receive, Coalesce, Rewatch, DrainLast, Leave, End
  <2>5. CASE Interrupt \/ Fail \/ WatcherError \/ HostExits
    BY <2>5 DEF Interrupt, Fail, Fault, End, WatcherError, HostExits
  <2>6. CASE UNCHANGED vars \/ \E r \in Roots : Deliver(r) \/ Edit(r)
    BY <2>6 DEF Deliver, Edit, vars
  <2> QED
    BY <2>2, <2>3, <2>4, <2>5, <2>6 DEF Next
<1> QED
  BY <1>1, <1>2, <1>3, <1>4

\* Every variable keeps its type: versions and the channel stay within their bounds,
\* roots are known ones, and only generations that were built have a directory or a
\* process (dev, and the child process of its build).
THEOREM LoopTypesHold == Spec => []TypeOK
<1>1. Spec => [](TypeInv /\ LoopInv)
  BY InitTypes, TypeStep, InitLoop, NextKeeps, PTL DEF Spec
<1> QED
  BY <1>1, TypeInvIsTypeOK, PTL

-----------------------------------------------------------------------------
(* What a build that reads while people edit is a build of.                *)

\* The sources a build compares in the end.
Compares == graph \union {App}

\* The paths compared so far are as they were when their digest was taken.
Compared == CASE build = "checking" -> graph \ todo
              [] build = "publishing" -> graph
              [] OTHER -> {}

\* What cargo build has compiled or is going to.
Reached == done \union (IF build = "compiling" THEN todo ELSE {})

\* The sources were v after the last digest and before the first compilation.
Moment(v) ==
  /\ \A r \in Compares : seen[r] <= v[r]
  /\ \A r \in Compares \intersect done : v[r] <= compiled[r] /\ compiled[r] <= version[r]
  /\ \A r \in Compared \intersect done : compiled[r] = v[r] /\ compiled[r] = seen[r]

\* cargo metadata follows every manifest it has read, that of the App after its digest.
ListingInv ==
  /\ App \in done \union todo
  /\ \A r \in done : Uses[r][listed[r]] \subseteq done \union todo
  /\ App \in done => seen[App] <= listed[App] /\ listed[App] <= version[App]

\* What it has listed is closed; what cargo build reaches leaves it only by a manifest
\* that names another dependency when it is compiled.
ClosedInv ==
  /\ picked.native =>
       /\ \A r \in Compares : Uses[r][listed[r]] \subseteq Compares
       /\ seen[App] <= listed[App] /\ listed[App] <= version[App]
  /\ build = "hashing" \/
       ((\A r \in Compares \intersect done : Uses[r][compiled[r]] \subseteq Compares)
          => Reached \subseteq Compares)

\* What holds of the digests and of the bytes compiled at each point of a build: the
\* digest is the older one, and a path that compares equal did not change in between.
MomentInv ==
  /\ build \in {"listing", "hashing", "compiling"} => seen[App] <= version[App]
  /\ build = "listing" => ListingInv
  /\ build \in {"hashing", "compiling", "checking", "publishing"} => ClosedInv
  /\ build = "hashing" => \A r \in graph \ todo : seen[r] <= version[r]
  /\ build \in {"compiling", "checking", "publishing"} => \E v \in past : Moment(v)
  /\ build \in {"hashing", "checking"} => todo \subseteq graph
  /\ build = "compiling" => todo \intersect done = {}
  /\ BuiltFromOneMoment

LEMMA InitMoment == Init => MomentInv
BY DEF Init, MomentInv, BuiltFromOneMoment

\* Steps that leave the sources and the build alone, or start or end a build without
\* a result.
LEMMA MomentFrame ==
  ASSUME MomentInv,
         \/ UNCHANGED <<version, past, build, todo, done, graph, picked, listed, seen,
                        compiled>>
         \/ build' \in {"none", "discovering", "digesting", "failed"}
  PROVE  MomentInv'
BY DEF MomentInv, BuiltFromOneMoment, Moment, Compares, Compared, Reached, ListingInv,
   ClosedInv

\* The steps of the child process up to the digests, the last of which is taken before
\* anything is compiled.
LEMMA MomentDigests ==
  ASSUME MomentInv, TypeInv,
         DigestApp \/ WriteRoots \/ \E r \in Sources : ReadManifest(r) \/ Hash(r)
  PROVE  MomentInv'
<1> USE DEF TypeInv, diskVars
<1>1. /\ version \in [Roots -> Nat] /\ seen \in [Roots -> Nat] /\ listed \in [Roots -> Nat]
      /\ graph \subseteq Deps /\ todo \subseteq Sources /\ done \subseteq Sources
      /\ App \in Sources /\ App \notin Deps /\ Sources = Deps \union {App}
      /\ Sources \subseteq Roots
      /\ Present \in past /\ \A r \in Sources : Present[r] = version[r]
      /\ picked.native \in BOOLEAN
  BY RootAssumption DEF DiskTypes, BuildTypes, Roots, Sources, Present
<1>2. CASE DigestApp
  <2>1. /\ build = "digesting" /\ seen' = [seen EXCEPT ![App] = version[App]]
        /\ todo' = {App} /\ done' = {}
        /\ UNCHANGED <<version, past, picked, listed, compiled>>
    BY <1>2 DEF DigestApp
  <2>2. seen'[App] <= version'[App]
    BY <1>1, <2>1
  <2>3. CASE build' = "listing"
    BY <2>1, <2>2, <2>3 DEF MomentInv, BuiltFromOneMoment, ListingInv
  <2>4. CASE build' = "compiling" /\ ~picked.native /\ graph' = {}
    <3>1. Compares' = {App} /\ Reached' = {App}
      BY <2>1, <2>4 DEF Compares, Reached
    <3> PICK v \in past : \A r \in Sources : v[r] = version[r]
      BY <1>1
    <3>2. Moment(v)'
      BY <1>1, <2>1, <2>2, <2>4, <3>1 DEF Moment, Compared
    <3>3. \E w \in past' : Moment(w)'
      BY <2>1, <3>2
    <3>4. ClosedInv'
      BY <2>1, <2>4, <3>1 DEF ClosedInv
    <3> QED
      BY <2>1, <2>2, <2>4, <3>3, <3>4 DEF MomentInv, BuiltFromOneMoment
  <2> QED
    BY <1>2, <2>3, <2>4 DEF DigestApp
<1>3. CASE \E r \in Sources : ReadManifest(r)
  <2> PICK r \in Sources : ReadManifest(r)
    BY <1>3
  <2>1. /\ build = "listing" /\ build' = build /\ r \in todo
        /\ done' = done \union {r}
        /\ todo' = (todo \union Uses[r][version[r]]) \ done'
        /\ listed' = [listed EXCEPT ![r] = version[r]]
        /\ UNCHANGED <<version, graph, seen>>
    BY DEF ReadManifest, Follow
  <2>2. ListingInv /\ seen[App] <= version[App]
    BY <2>1 DEF MomentInv
  <2>3. done' \union todo' = done \union todo \union Uses[r][version[r]]
    BY <2>1
  <2>4. ASSUME NEW q \in done' PROVE Uses[q][listed'[q]] \subseteq done' \union todo'
    BY <1>1, <2>1, <2>2, <2>3, <2>4 DEF ListingInv
  <2>5. App \in done' => seen'[App] <= listed'[App] /\ listed'[App] <= version'[App]
    BY <1>1, <2>1, <2>2 DEF ListingInv
  <2>6. App \in done' \union todo'
    BY <2>2, <2>3 DEF ListingInv
  <2> QED
    BY <2>1, <2>2, <2>4, <2>5, <2>6 DEF MomentInv, BuiltFromOneMoment, ListingInv
<1>4. CASE WriteRoots
  <2>1. /\ build = "listing" /\ build' = "hashing" /\ todo = {}
        /\ graph' = done \ {App} /\ todo' = graph'
        /\ UNCHANGED <<version, done, picked, listed, seen>>
    BY <1>4 DEF WriteRoots, readVars
  <2>2. ListingInv /\ seen[App] <= version[App]
    BY <2>1 DEF MomentInv
  <2>3. Compares' = done
    BY <2>1, <2>2 DEF Compares, ListingInv
  <2>4. ClosedInv'
    BY <2>1, <2>2, <2>3 DEF ListingInv, ClosedInv
  <2> QED
    BY <2>1, <2>2, <2>4 DEF MomentInv, BuiltFromOneMoment
<1>5. CASE \E r \in Sources : Hash(r)
  <2> PICK r \in Sources : Hash(r)
    BY <1>5
  <2>1. /\ build = "hashing" /\ build' = build /\ r \in todo /\ todo' = todo \ {r}
        /\ seen' = [seen EXCEPT ![r] = version[r]]
        /\ UNCHANGED <<version, graph, picked, listed>>
    BY DEF Hash
  <2>2. r \in graph /\ r # App /\ todo \subseteq graph
    BY <1>1, <2>1 DEF MomentInv
  <2>3. seen'[App] = seen[App] /\ seen[App] <= version[App]
    BY <1>1, <2>1, <2>2 DEF MomentInv
  <2>4. ClosedInv'
    BY <2>1, <2>3 DEF MomentInv, ClosedInv, Compares
  <2>5. ASSUME NEW q \in graph' \ todo' PROVE seen'[q] <= version'[q]
    BY <1>1, <2>1, <2>5 DEF MomentInv
  <2> QED
    BY <2>1, <2>2, <2>3, <2>4, <2>5 DEF MomentInv, BuiltFromOneMoment
<1> QED
  BY <1>2, <1>3, <1>4, <1>5

\* The passes that compile and compare: the moment is the one when every digest is taken.
LEMMA MomentPasses ==
  ASSUME MomentInv, TypeInv, NextPass \/ \E r \in Sources : Compile(r) \/ Check(r)
  PROVE  MomentInv'
<1> USE DEF TypeInv, diskVars, readVars
<1>1. /\ version \in [Roots -> Nat] /\ seen \in [Roots -> Nat] /\ compiled \in [Roots -> Nat]
      /\ graph \subseteq Deps /\ todo \subseteq Sources /\ done \subseteq Sources
      /\ App \in Sources /\ App \notin Deps /\ Sources = Deps \union {App}
      /\ Sources \subseteq Roots
      /\ Present \in past /\ \A r \in Sources : Present[r] = version[r]
      /\ \A v \in past : v \in [Sources -> Nat] /\ \A r \in Sources : v[r] <= version[r]
  BY RootAssumption DEF DiskTypes, BuildTypes, Roots, Sources, Present
<1>2. CASE NextPass
  <2>1. todo = {} /\ UNCHANGED <<version, past, graph, picked, listed, seen, compiled>>
    BY <1>2 DEF NextPass
  <2>2. CASE build = "hashing"
    <3>1. build' = "compiling" /\ todo' = {App} /\ done' = {}
      BY <1>2, <2>2 DEF NextPass
    <3>2. /\ seen[App] <= version[App] /\ \A r \in graph : seen[r] <= version[r]
          /\ ClosedInv
      BY <2>1, <2>2 DEF MomentInv
    <3> PICK v \in past : \A r \in Sources : v[r] = version[r]
      BY <1>1
    <3>3. Moment(v)'
      BY <1>1, <2>1, <3>1, <3>2 DEF Moment, Compared, Compares
    <3>4. \E w \in past' : Moment(w)'
      BY <2>1, <3>3
    <3>5. ClosedInv'
      BY <2>1, <3>1, <3>2 DEF ClosedInv, Compares, Reached
    <3> QED
      BY <2>1, <3>1, <3>2, <3>4, <3>5 DEF MomentInv, BuiltFromOneMoment
  <2>3. CASE build \in {"compiling", "checking"}
    <3>1. /\ build = "compiling" => build' = "checking" /\ todo' = graph
          /\ build = "checking" => build' = "publishing" /\ todo' = todo
          /\ done' = done
      BY <1>2, <2>3 DEF NextPass
    <3>2. PICK v \in past : Moment(v)
      BY <2>3 DEF MomentInv
    <3>3. Moment(v)'
      BY <2>1, <2>3, <3>1, <3>2 DEF Moment, Compared, Compares
    <3>4. ClosedInv'
      BY <2>1, <2>3, <3>1 DEF MomentInv, ClosedInv, Compares, Reached
    <3> QED
      BY <2>1, <2>3, <3>1, <3>3, <3>4 DEF MomentInv, BuiltFromOneMoment
  <2> QED
    BY <1>2, <2>2, <2>3 DEF NextPass
<1>3. CASE \E r \in Sources : Compile(r)
  <2> PICK r \in Sources : Compile(r)
    BY <1>3
  <2>1. /\ build = "compiling" /\ build' = build /\ r \in todo
        /\ done' = done \union {r}
        /\ todo' = (todo \union Uses[r][version[r]]) \ done'
        /\ compiled' = [compiled EXCEPT ![r] = version[r]]
        /\ UNCHANGED <<version, past, graph, picked, listed, seen>>
    BY DEF Compile, Follow
  <2>2. PICK v \in past : Moment(v)
    BY <2>1 DEF MomentInv
  <2>3. r \notin done /\ seen[App] <= version[App] /\ ClosedInv
    BY <2>1 DEF MomentInv
  <2>4. ASSUME NEW q \in Compares \intersect done'
        PROVE  v[q] <= compiled'[q] /\ compiled'[q] <= version[q]
    <3>1. CASE q = r
      BY <1>1, <2>1, <3>1
    <3>2. CASE q # r
      BY <1>1, <2>1, <2>2, <2>4, <3>2 DEF Moment
    <3> QED
      BY <3>1, <3>2
  <2>5. Moment(v)'
    BY <2>1, <2>2, <2>4 DEF Moment, Compared, Compares
  <2>6. ASSUME \A q \in Compares \intersect done' : Uses[q][compiled'[q]] \subseteq Compares
        PROVE  Reached' \subseteq Compares
    <3>1. \A q \in Compares \intersect done : Uses[q][compiled[q]] \subseteq Compares
      BY <1>1, <2>1, <2>3, <2>6
    <3>2. done \union todo \subseteq Compares
      BY <2>1, <2>3, <3>1 DEF ClosedInv, Reached
    <3>3. Uses[r][version[r]] \subseteq Compares
      BY <1>1, <2>1, <2>6, <3>2
    <3> QED
      BY <2>1, <3>2, <3>3 DEF Reached
  <2>7. ClosedInv'
    BY <2>1, <2>3, <2>6 DEF ClosedInv, Compares
  <2> QED
    BY <2>1, <2>3, <2>5, <2>7 DEF MomentInv, BuiltFromOneMoment
<1>4. CASE \E r \in Sources : Check(r)
  <2> PICK r \in Sources : Check(r)
    BY <1>4
  <2>1. /\ build = "checking" /\ r \in todo /\ todo' = todo \ {r}
        /\ UNCHANGED <<version, past, done, graph, picked, listed, seen, compiled>>
    BY DEF Check
  <2>2. CASE build' = "failed"
    BY <2>2, MomentFrame
  <2>3. CASE build' = "checking"
    <3>1. version[r] = seen[r]
      BY <2>1, <2>3 DEF Check, Unchanged
    <3>2. PICK v \in past : Moment(v)
      BY <2>1 DEF MomentInv
    <3>3. r \in graph /\ todo \subseteq graph /\ ClosedInv
      BY <2>1 DEF MomentInv
    <3>4. r \in done => compiled[r] = v[r] /\ compiled[r] = seen[r]
      <4>1. /\ seen[r] <= v[r]
            /\ r \in done => v[r] <= compiled[r] /\ compiled[r] <= version[r]
        BY <3>2, <3>3 DEF Moment, Compares
      <4> QED
        BY <1>1, <3>1, <4>1
    <3>5. Moment(v)'
      BY <2>1, <2>3, <3>2, <3>4 DEF Moment, Compared, Compares
    <3>6. ClosedInv'
      BY <2>1, <2>3, <3>3 DEF ClosedInv, Compares, Reached
    <3> QED
      BY <2>1, <2>3, <3>3, <3>5, <3>6 DEF MomentInv, BuiltFromOneMoment
  <2> QED
    BY <2>1, <2>2, <2>3 DEF Check
<1> QED
  BY <1>2, <1>3, <1>4

\* The last comparison: the App has not changed since its digest, which encloses the
\* reading of its manifest and its compilation.
LEMMA MomentPublish ==
  ASSUME MomentInv, TypeInv, PublishOutput
  PROVE  MomentInv'
<1>1. CASE build' = "failed"
  BY <1>1, MomentFrame
<1>2. CASE build' = "succeeded"
  <2>1. /\ build = "publishing" /\ version[App] = seen[App]
        /\ UNCHANGED <<version, past, done, graph, picked, listed, seen, compiled>>
    BY <1>2 DEF PublishOutput, Unchanged, diskVars, readVars
  <2>2. PICK v \in past : Moment(v)
    BY <2>1 DEF MomentInv
  <2>3. /\ version[App] \in Nat /\ seen[App] \in Nat /\ compiled[App] \in Nat
        /\ listed[App] \in Nat /\ v[App] \in Nat
    BY DEF TypeInv, DiskTypes, BuildTypes, Roots, Sources
  <2>4. ASSUME NEW r \in Compares \intersect done
        PROVE  compiled[r] = v[r] /\ compiled[r] = seen[r]
    <3>1. CASE r = App
      BY <2>1, <2>2, <2>3, <2>4, <3>1 DEF Moment
    <3>2. CASE r # App
      BY <2>1, <2>2, <2>4, <3>2 DEF Moment, Compared, Compares
    <3> QED
      BY <3>1, <3>2
  <2>5. ClosedInv
    BY <2>1 DEF MomentInv
  <2>6. ASSUME picked.native, \A r \in graph : listed[r] = seen[r]
        PROVE  done \subseteq Compares
    <3>1. \A r \in Compares : listed[r] = seen[r]
      BY <2>1, <2>3, <2>5, <2>6 DEF ClosedInv, Compares
    <3>2. \A r \in Compares \intersect done : Uses[r][compiled[r]] \subseteq Compares
      BY <2>4, <2>5, <2>6, <3>1 DEF ClosedInv
    <3> QED
      BY <2>1, <2>5, <3>2 DEF ClosedInv, Reached
  <2>7. BuiltFromOneMoment'
    BY <2>1, <2>2, <2>4, <2>6 DEF BuiltFromOneMoment, Compares
  <2> QED
    BY <1>2, <2>7 DEF MomentInv
<1> QED
  BY <1>1, <1>2 DEF PublishOutput

LEMMA MomentBuild ==
  ASSUME MomentInv, TypeInv, BuildStep
  PROVE  MomentInv'
<1>1. CASE Discover \/ BuildFails
  BY <1>1, MomentFrame DEF Discover, BuildFails
<1> QED
  BY <1>1, MomentDigests, MomentPasses, MomentPublish DEF BuildStep

\* An edit makes a version newer, which leaves the moment of a build where it was.
LEMMA MomentEdit ==
  ASSUME MomentInv, TypeInv, NEW r \in Roots, Edit(r)
  PROVE  MomentInv'
<1>1. /\ version \in [Roots -> Nat] /\ seen \in [Roots -> Nat] /\ compiled \in [Roots -> Nat]
      /\ listed \in [Roots -> Nat] /\ Compares \subseteq Roots /\ App \in Roots
      /\ graph \subseteq Roots
  BY DEF TypeInv, DiskTypes, BuildTypes, Roots, Sources, Compares
<1>2. /\ version' = [version EXCEPT ![r] = version[r] + 1] /\ past \subseteq past'
      /\ UNCHANGED <<build, todo, done, graph, picked, listed, seen, compiled>>
  BY DEF Edit, buildVars, readVars
<1>3. \A q \in Roots : version'[q] \in Nat /\ version[q] <= version'[q]
  BY <1>1, <1>2
<1>4. /\ seen[App] <= version[App] => seen[App] <= version'[App]
      /\ listed[App] <= version[App] => listed[App] <= version'[App]
      /\ \A q \in graph : seen[q] <= version[q] => seen[q] <= version'[q]
  BY <1>1, <1>3
<1>5. Compares' = Compares /\ Reached' = Reached /\ Compared' = Compared
  BY <1>2 DEF Compares, Reached, Compared
<1>6. ASSUME NEW v \in past, Moment(v)
      PROVE  Moment(v)'
  <2>1. \A q \in Compares : compiled[q] <= version[q] => compiled[q] <= version'[q]
    BY <1>1, <1>3
  <2> QED
    BY <1>2, <1>5, <1>6, <2>1 DEF Moment
<1>7. ListingInv => ListingInv'
  BY <1>2, <1>4 DEF ListingInv
<1>8. ClosedInv => ClosedInv'
  BY <1>2, <1>4, <1>5 DEF ClosedInv
<1>9. BuiltFromOneMoment'
  BY <1>2 DEF MomentInv, BuiltFromOneMoment
<1>10. (\E v \in past : Moment(v)) => \E v \in past' : Moment(v)'
  BY <1>2, <1>6
<1> QED
  BY <1>2, <1>4, <1>7, <1>8, <1>9, <1>10 DEF MomentInv

LEMMA MomentStep ==
  ASSUME MomentInv, TypeInv, [Next]_vars
  PROVE  MomentInv'
<1>1. CASE BuildStep
  BY <1>1, MomentBuild
<1>2. CASE \E r \in Roots : Edit(r)
  BY <1>2, MomentEdit
<1>3. CASE ~BuildStep /\ ~(\E r \in Roots : Edit(r))
  <2>1. \/ UNCHANGED <<version, past, build, todo, done, graph, picked, listed, seen,
                        compiled>>
        \/ build' \in {"none", "discovering", "digesting", "failed"}
    BY <1>3 DEF Next, LoopStep, StartBuild, BuildEnds, Drain, StartHost, Retire, ForgetHost,
       Receive, Coalesce, Rewatch, DrainLast, Leave, Interrupt, Fail, WatcherError, HostExits,
       Deliver, diskVars, buildVars, readVars, vars
  <2> QED
    BY <2>1, MomentFrame
<1> QED
  BY <1>1, <1>2, <1>3

\* A generation is built from sources as they were together at one moment, whatever
\* people save while the build reads them one after another: the digests taken before
\* the compilation and compared after it enclose it.  Nothing else is compiled, unless
\* a manifest was edited between cargo metadata and its digest (local_host::generate
\* and assemble).
THEOREM OneMoment == Spec => []BuiltFromOneMoment
<1>1. MomentInv => BuiltFromOneMoment
  BY DEF MomentInv
<1>2. Spec => [](MomentInv /\ TypeInv /\ LoopInv)
  BY InitMoment, MomentStep, InitTypes, TypeStep, InitLoop, NextKeeps, PTL DEF Spec
<1> QED
  BY <1>1, <1>2, PTL

-----------------------------------------------------------------------------
(* The two commands: a behaviour of either is one of its own module.       *)

PluginProofs == INSTANCE PluginDev_proofs WITH
  Files <- PluginFiles, MaxEdits <- MaxPluginEdits, MaxFaults <- MaxPluginFaults,
  kind <- pKind, version <- pVersion, edits <- pEdits, raised <- pRaised,
  queue <- pQueue, channel <- pChannel, mode <- pMode, baseline <- pBaseline,
  pending <- pPending, scan <- pScan, todo <- pTodo, pc <- pPc, tried <- pTried,
  revision <- pRevision, alive <- pAlive, result <- pResult, faults <- pFaults

\* Both instances are of the same definitions.
LEMMA SamePlugin ==
  /\ Plugin!Init <=> PluginProofs!Init
  /\ Plugin!Next <=> PluginProofs!Next
  /\ Plugin!TypeOK <=> PluginProofs!TypeOK
<1>1. Plugin!Init <=> PluginProofs!Init
  BY DEF Plugin!Init, PluginProofs!Init
<1>2. Plugin!Next <=> PluginProofs!Next
  BY DEF Plugin!diskVars, PluginProofs!diskVars, Plugin!channelVars,
     PluginProofs!channelVars, Plugin!watcherVars, PluginProofs!watcherVars,
     Plugin!sessionVars, PluginProofs!sessionVars, Plugin!vars, PluginProofs!vars,
     Plugin!Fault, PluginProofs!Fault, Plugin!End, PluginProofs!End, Plugin!Watching,
     PluginProofs!Watching, Plugin!Changed, PluginProofs!Changed,
     Plugin!Fingerprinting, PluginProofs!Fingerprinting, Plugin!Fingerprint,
     PluginProofs!Fingerprint, Plugin!FirstBaseline, PluginProofs!FirstBaseline,
     Plugin!FallBack, PluginProofs!FallBack, Plugin!Receive, PluginProofs!Receive,
     Plugin!Debounce, PluginProofs!Debounce, Plugin!FallenBack,
     PluginProofs!FallenBack, Plugin!Poll, PluginProofs!Poll, Plugin!Compare,
     PluginProofs!Compare, Plugin!WatcherStep, PluginProofs!WatcherStep,
     Plugin!StartBuild, PluginProofs!StartBuild, Plugin!BuildSucceeds,
     PluginProofs!BuildSucceeds, Plugin!BuildFails, PluginProofs!BuildFails,
     Plugin!StopHost, PluginProofs!StopHost, Plugin!Waiting, PluginProofs!Waiting,
     Plugin!HostIsGone, PluginProofs!HostIsGone, Plugin!Interrupt,
     PluginProofs!Interrupt, Plugin!Close, PluginProofs!Close, Plugin!Fail,
     PluginProofs!Fail, Plugin!SessionStep, PluginProofs!SessionStep, Plugin!Edit,
     PluginProofs!Edit, Plugin!Deliver, PluginProofs!Deliver, Plugin!NotificationsFail,
     PluginProofs!NotificationsFail, Plugin!LoseNotification,
     PluginProofs!LoseNotification, Plugin!HostExits, PluginProofs!HostExits,
     Plugin!Next, PluginProofs!Next
<1>3. Plugin!TypeOK <=> PluginProofs!TypeOK
  BY DEF Plugin!TypeOK, PluginProofs!TypeOK
<1> QED
  BY <1>1, <1>2, <1>3

LEMMA EitherCommand ==
  DevelopmentSpec => Spec /\ PluginProofs!Spec
<1>1. DevelopmentInit => Init /\ PluginProofs!Init
  BY SamePlugin DEF DevelopmentInit
<1>2. [(OfApp /\ Next) \/ (OfPlugin /\ Plugin!Next)]_allVars
        => [Next]_vars /\ [PluginProofs!Next]_(PluginProofs!vars)
  <2>1. UNCHANGED pluginVars => UNCHANGED PluginProofs!vars
    BY DEF pluginVars, PluginProofs!vars, PluginProofs!diskVars, PluginProofs!channelVars,
       PluginProofs!watcherVars, PluginProofs!sessionVars
  <2> QED
    BY <2>1, SamePlugin DEF OfApp, OfPlugin, allVars
<1> QED
  BY <1>1, <1>2, PTL DEF DevelopmentSpec, Spec, PluginProofs!Spec

\* Every variable of either command keeps its type.
THEOREM DevelopmentTypes == DevelopmentSpec => []DevelopmentTypeOK
<1>1. Spec => []TypeOK
  BY LoopTypesHold
<1>2. PluginProofs!Spec => []PluginProofs!TypeOK
  BY PluginProofs!SessionTypesHold
<1>3. TypeOK /\ PluginProofs!TypeOK => DevelopmentTypeOK
  BY SamePlugin DEF DevelopmentTypeOK
<1> QED
  BY <1>1, <1>2, <1>3, EitherCommand, PTL

\* One Host of plugin dev at most, of the last build, and none beside a build or after
\* the session, whenever it exits, the files change or Ctrl-C is pressed
\* (web_dev::run, stop).
THEOREM OneHostOfTheLastBuild == DevelopmentSpec => []ServesTheLastBuild
<1>1. PluginProofs!Spec => []PluginProofs!ServesTheLastBuild
  BY PluginProofs!OnlyTheLastBuild
<1>2. PluginProofs!ServesTheLastBuild => ServesTheLastBuild
  BY DEF PluginProofs!ServesTheLastBuild, Plugin!ServesTheLastBuild, ServesTheLastBuild
<1> QED
  BY <1>1, <1>2, EitherCommand, PTL

\* What is proved of app dev alone holds where the author may choose the other command.
THEOREM AppDevIsSafe ==
  DevelopmentSpec => []OneHostWithItsFiles /\ []BuiltFromOneMoment /\ HostsGoForward
BY OneHost, OneMoment, HostsOnlyForward, EitherCommand, PTL
=============================================================================
