-------------------------- MODULE PluginDev_proofs --------------------------
(***************************************************************************)
(* Theorems about the plugin development session, for all files and any    *)
(* number of edits and faults.                                             *)
(***************************************************************************)
EXTENDS PluginDev, TLAPS

Fingerprints == {version, baseline, scan, tried} \subseteq [Files -> Nat]

\* Every edit of a is also one of b.
Before(a, b) == \A f \in Files : a[f] <= b[f]

\* What was remembered or is being read was on the disk at some time.
RememberedInv == Before(baseline, version) /\ Before(scan, version)

\* While polling goes on without a rebuild, its baseline is that of the last
\* build; a watcher that falls back from receiving owes a rebuild.
PollingInv ==
  /\ pc \in {"building", "scanning"} \/ (pc = "polling" /\ ~pending)
       => Before(baseline, tried)
  /\ pc = "falling back" => pending

\* Only "serve" has a Host, and not before it is built.
HostInv ==
  /\ alive \subseteq {revision}
  /\ kind # "serve" => alive = {}
  /\ pc \in {"baseline", "begin", "building", "ended"} => alive = {}

SessionInv == Fingerprints /\ RememberedInv /\ PollingInv /\ HostInv

LEMMA InitSession == Init => SessionInv
BY DEF Init, SessionInv, Fingerprints, RememberedInv, Before, PollingInv, HostInv

\* A fingerprint copies the present version of a file.
LEMMA FingerprintKeeps ==
  ASSUME SessionInv, NEW f \in Files, Fingerprint(f)
  PROVE  SessionInv'
<1>1. /\ scan' = [scan EXCEPT ![f] = version[f]]
      /\ UNCHANGED <<kind, version, baseline, pending, pc, tried, revision, alive>>
  BY DEF Fingerprint, diskVars, sessionVars
<1>2. Fingerprints' /\ RememberedInv'
  BY <1>1 DEF SessionInv, Fingerprints, RememberedInv, Before
<1>3. PollingInv' /\ HostInv'
  BY <1>1 DEF SessionInv, PollingInv, HostInv, Before
<1> QED
  BY <1>2, <1>3 DEF SessionInv

\* The other steps of the watcher read nothing from the disk.
LEMMA WatcherKeeps ==
  ASSUME SessionInv,
         FirstBaseline \/ Receive \/ Debounce \/ FallenBack \/ Poll \/ Compare
  PROVE  SessionInv'
<1> USE DEF SessionInv, Fingerprints, RememberedInv, PollingInv, HostInv, Before,
            diskVars, channelVars, watcherVars, Changed
<1>1. CASE FirstBaseline
  BY <1>1 DEF FirstBaseline
<1>2. CASE Receive
  BY <1>2 DEF Receive, FallBack
<1>3. CASE Debounce
  BY <1>3 DEF Debounce, FallBack
<1>4. CASE FallenBack
  BY <1>4 DEF FallenBack
<1>5. CASE Poll
  BY <1>5 DEF Poll
<1>6. CASE Compare
  BY <1>6 DEF Compare
<1> QED
  BY <1>1, <1>2, <1>3, <1>4, <1>5, <1>6

LEMMA SessionKeeps ==
  ASSUME SessionInv, SessionStep \/ Interrupt \/ Fail
  PROVE  SessionInv'
<1> USE DEF SessionInv, Fingerprints, RememberedInv, PollingInv, HostInv, Before,
            diskVars, channelVars, watcherVars, End, Watching
<1>1. CASE StartBuild
  BY <1>1 DEF StartBuild
<1>2. CASE BuildSucceeds
  BY <1>2 DEF BuildSucceeds
<1>3. CASE BuildFails
  BY <1>3 DEF BuildFails
<1>4. CASE StopHost
  BY <1>4 DEF StopHost
<1>5. CASE HostIsGone
  BY <1>5 DEF HostIsGone
<1>6. CASE Interrupt
  BY <1>6 DEF Interrupt
<1>7. CASE Close
  BY <1>7 DEF Close
<1>8. CASE Fail
  BY <1>8 DEF Fail
<1> QED
  BY <1>1, <1>2, <1>3, <1>4, <1>5, <1>6, <1>7, <1>8 DEF SessionStep

\* An edit only moves a file away from what is remembered of it.
LEMMA EnvironmentKeeps ==
  ASSUME SessionInv,
         NotificationsFail \/ HostExits
           \/ \E f \in Files : Edit(f) \/ Deliver(f) \/ LoseNotification(f)
  PROVE  SessionInv'
<1> USE DEF SessionInv, diskVars, watcherVars, sessionVars
<1>1. ASSUME NEW f \in Files, Edit(f)
      PROVE  SessionInv'
  <2>1. /\ UNCHANGED <<kind, baseline, scan, tried, pending, pc, revision, alive>>
        /\ version' = [version EXCEPT ![f] = @ + 1]
    BY <1>1 DEF Edit
  <2>2. Fingerprints' /\ RememberedInv'
    BY <2>1 DEF Fingerprints, RememberedInv, Before
  <2> QED
    BY <2>1, <2>2 DEF PollingInv, HostInv, Before
<1>2. CASE HostExits
  BY <1>2 DEF HostExits, Fingerprints, RememberedInv, PollingInv, HostInv, Before
<1>3. CASE NotificationsFail \/ \E f \in Files : Deliver(f) \/ LoseNotification(f)
  <2>1. UNCHANGED <<kind, version, baseline, scan, tried, pending, pc, revision, alive>>
    BY <1>3 DEF NotificationsFail, Deliver, LoseNotification
  <2> QED
    BY <2>1 DEF Fingerprints, RememberedInv, PollingInv, HostInv, Before
<1> QED
  BY <1>1, <1>2, <1>3

LEMMA NextKeeps == SessionInv /\ [Next]_vars => SessionInv'
<1> SUFFICES ASSUME SessionInv, [Next]_vars
             PROVE  SessionInv'
  OBVIOUS
<1>1. CASE WatcherStep
  BY <1>1, FingerprintKeeps, WatcherKeeps DEF WatcherStep
<1>2. CASE SessionStep \/ Interrupt \/ Fail
  BY <1>2, SessionKeeps
<1>3. CASE NotificationsFail \/ HostExits
             \/ \E f \in Files : Edit(f) \/ Deliver(f) \/ LoseNotification(f)
  BY <1>3, EnvironmentKeeps
<1>4. CASE UNCHANGED vars
  BY <1>4 DEF vars, diskVars, watcherVars, sessionVars, SessionInv, Fingerprints,
     RememberedInv, PollingInv, HostInv, Before
<1> QED
  BY <1>1, <1>2, <1>3, <1>4 DEF Next

LEMMA SessionCorrect == Spec => []SessionInv
BY InitSession, NextKeeps, PTL DEF Spec

States == {"baseline", "begin", "building", "receiving", "debouncing", "falling back",
           "debounce failed", "polling", "scanning", "stopping", "closing", "ended"}

\* The types but those of the fingerprints.
ControlTypes ==
  /\ kind \in {"invoke", "serve"}
  /\ {edits, revision, faults} \subseteq Nat
  /\ {raised, todo} \subseteq SUBSET Files
  /\ queue \in Seq({"event", "error"})
  /\ channel \in {"open", "failing", "closed"}
  /\ mode \in {"notifications", "polling"}
  /\ pending \in BOOLEAN
  /\ pc \in States
  /\ alive \subseteq Nat
  /\ result \in {"none", "stopped", "failed"}

LEMMA TypeParts == TypeOK <=> Fingerprints /\ ControlTypes
BY DEF TypeOK, Fingerprints, ControlTypes, States

LEMMA InitTypes == Init => ControlTypes
<1> SUFFICES ASSUME Init
             PROVE  ControlTypes
  OBVIOUS
<1>1. queue \in Seq({"event", "error"})
  BY DEF Init
<1>2. {raised, todo} \subseteq SUBSET Files
  BY DEF Init
<1>3. pc \in States
  BY DEF Init, States
<1>4. {edits, revision, faults} \subseteq Nat /\ alive \subseteq Nat
  BY DEF Init
<1> QED
  BY <1>1, <1>2, <1>3, <1>4 DEF Init, ControlTypes

\* What is taken from the channel leaves a channel of the same entries.
LEMMA Taken ==
  ASSUME queue \in Seq({"event", "error"}), queue # <<>>
  PROVE  Tail(queue) \in Seq({"event", "error"})
OBVIOUS

LEMMA TypeStep ==
  ASSUME ControlTypes, [Next]_vars
  PROVE  ControlTypes'
<1> USE DEF ControlTypes, diskVars, channelVars, watcherVars, sessionVars
<1>1. Changed \in States /\ Watching \in States
  BY DEF Changed, Watching, States
<1>2. CASE \E f \in Files : Fingerprint(f)
  BY <1>2 DEF Fingerprint
<1>3. CASE FirstBaseline \/ FallenBack \/ Poll \/ Compare
  <2>1. CASE FirstBaseline
    BY <2>1 DEF FirstBaseline, States
  <2>2. CASE FallenBack
    <3>1. <<>> \in Seq({"event", "error"})
      OBVIOUS
    <3> QED
      BY <1>1, <2>2, <3>1 DEF FallenBack, States
  <2>3. CASE Poll
    BY <1>1, <2>3 DEF Poll, States
  <2>4. CASE Compare
    BY <1>1, <2>4 DEF Compare, States
  <2> QED
    BY <1>3, <2>1, <2>2, <2>3, <2>4
<1>4. CASE Receive
  <2>1. queue' \in Seq({"event", "error"})
    BY <1>4, Taken DEF Receive
  <2>2. pc' \in States /\ todo' \subseteq Files /\ pending' \in BOOLEAN
    BY <1>4 DEF Receive, FallBack, States
  <2> QED
    BY <1>4, <2>1, <2>2 DEF Receive, FallBack
<1>5. CASE Debounce
  <2>1. queue' \in Seq({"event", "error"})
    BY <1>5, Taken DEF Debounce
  <2>2. pc' \in States /\ todo' \subseteq Files /\ pending' \in BOOLEAN
    BY <1>1, <1>5 DEF Debounce, FallBack, States
  <2> QED
    BY <1>5, <2>1, <2>2 DEF Debounce, FallBack
<1>6. CASE StartBuild \/ BuildSucceeds \/ BuildFails
  <2>1. CASE StartBuild
    <3>1. {edits', revision', faults'} \subseteq Nat
      BY <2>1 DEF StartBuild
    <3> QED
      BY <2>1, <3>1 DEF StartBuild, States
  <2>2. CASE BuildSucceeds
    <3>1. alive' \subseteq Nat
      BY <2>2 DEF BuildSucceeds
    <3> QED
      BY <1>1, <2>2, <3>1 DEF BuildSucceeds
  <2>3. CASE BuildFails
    BY <1>1, <2>3 DEF BuildFails, End, States
  <2> QED
    BY <1>6, <2>1, <2>2, <2>3
<1>7. CASE StopHost \/ HostIsGone \/ Close \/ Interrupt
  <2>1. CASE StopHost
    BY <2>1 DEF StopHost, States
  <2>2. CASE HostIsGone
    BY <2>2 DEF HostIsGone, End, States
  <2>3. CASE Close
    BY <2>3 DEF Close, End, States
  <2>4. CASE Interrupt
    BY <2>4 DEF Interrupt, End, States
  <2> QED
    BY <1>7, <2>1, <2>2, <2>3, <2>4
<1>8. CASE Fail \/ HostExits
  <2>1. {edits', revision', faults'} \subseteq Nat
    BY <1>8 DEF Fail, Fault, HostExits
  <2>2. CASE Fail
    BY <2>1, <2>2 DEF Fail, End, States
  <2>3. CASE HostExits
    BY <2>1, <2>3 DEF HostExits
  <2> QED
    BY <1>8, <2>2, <2>3
<1>9. CASE NotificationsFail
  <2>1. queue' \in Seq({"event", "error"})
    BY <1>9 DEF NotificationsFail
  <2>2. {raised', todo'} \subseteq SUBSET Files
    BY <1>9 DEF NotificationsFail
  <2>3. {edits', revision', faults'} \subseteq Nat
    BY <1>9 DEF NotificationsFail, Fault
  <2>4. channel' \in {"open", "failing", "closed"}
    BY <1>9 DEF NotificationsFail
  <2> QED
    BY <1>9, <2>1, <2>2, <2>3, <2>4 DEF NotificationsFail
<1>10. ASSUME NEW f \in Files, Edit(f) \/ Deliver(f) \/ LoseNotification(f)
       PROVE  ControlTypes'
  <2>1. CASE Edit(f)
    <3>1. {raised', todo'} \subseteq SUBSET Files
      BY <2>1 DEF Edit
    <3>2. {edits', revision', faults'} \subseteq Nat
      BY <2>1 DEF Edit
    <3> QED
      BY <2>1, <3>1, <3>2 DEF Edit
  <2>2. CASE Deliver(f)
    <3>1. queue' \in Seq({"event", "error"})
      BY <2>2 DEF Deliver
    <3> QED
      BY <2>2, <3>1 DEF Deliver
  <2>3. CASE LoseNotification(f)
    BY <2>3 DEF LoseNotification
  <2> QED
    BY <1>10, <2>1, <2>2, <2>3
<1>11. CASE UNCHANGED vars
  BY <1>11 DEF vars
<1> QED
  BY <1>2, <1>3, <1>4, <1>5, <1>6, <1>7, <1>8, <1>9, <1>10, <1>11
  DEF Next, WatcherStep, SessionStep

\* Every variable of the session keeps its type.
THEOREM SessionTypesHold == Spec => []TypeOK
<1>1. Spec => []ControlTypes
  BY InitTypes, TypeStep, PTL DEF Spec
<1>2. SessionInv => Fingerprints
  BY DEF SessionInv
<1> QED
  BY <1>1, <1>2, TypeParts, SessionCorrect, PTL

\* No edit is swallowed when notifications fail, nor by a fingerprint or a build
\* that it overlaps: what the polling watcher remembers has been built.
THEOREM NothingIsSwallowed == Spec => []BaselineIsBuilt
<1>1. SessionInv => BaselineIsBuilt
  BY DEF SessionInv, PollingInv, Before, BaselineIsBuilt
<1> QED
  BY <1>1, SessionCorrect, PTL

\* However Hosts exit, builds fail and sessions end, a Host serves the last build,
\* never beside the next one, and goes with the session.
THEOREM OnlyTheLastBuild == Spec => []ServesTheLastBuild
<1>1. SessionInv => ServesTheLastBuild
  BY DEF SessionInv, HostInv, ServesTheLastBuild
<1> QED
  BY <1>1, SessionCorrect, PTL
=============================================================================
