----------------------------- MODULE PluginDev -----------------------------
(***************************************************************************)
(* `lenso plugin dev --watch`: a session that builds a Plugin, runs it and *)
(* builds it again when SourceWatcher::changed returns.  The watcher takes *)
(* the notifications of the system and, when these fail, compares          *)
(* fingerprints of the files for the rest of the session.                  *)
(*                                                                         *)
(* Two sessions share it: "invoke" (dev.rs) calls the Plugin once after    *)
(* each build and survives failed rebuilds, "serve" (web_dev.rs) keeps a   *)
(* Host running between two builds and ends with the first failure.        *)
(*                                                                         *)
(* A file is modelled by a version that grows with each edit, its          *)
(* fingerprint by the version it is of.  Notifications about other files   *)
(* are left out: they only lengthen the debounce.  Ctrl-C while a build    *)
(* runs stops that build, and is one of the ways it fails.                 *)
(***************************************************************************)
EXTENDS Naturals, Sequences, FiniteSets

CONSTANTS
  Files,     \* the files under src/ and PROJECT_FILES
  MaxEdits,  \* bound on the edits of all files together
  MaxFaults  \* bound on failing system calls, notifications and Hosts

VARIABLES
  kind,      \* "invoke" or "serve"
  version,   \* of each file
  edits,
  raised,    \* edited files whose notification is on its way
  queue,     \* the channel: "event" and "error"
  channel,   \* "open", "failing" once notifications may be lost, "closed"
  mode,      \* of the watcher: "notifications" or "polling"
  baseline,  \* the fingerprint polling compares with
  pending,   \* rebuild_pending
  scan,      \* the fingerprint being taken
  todo,      \* the files it lacks
  pc,        \* where the session is
  tried,     \* the versions when the last build was started
  revision,  \* of the last build
  alive,     \* the Hosts that run, each by the build it is of
  result,    \* what run returned
  faults

diskVars == <<version, edits>>
channelVars == <<raised, queue, channel>>
watcherVars == <<mode, baseline, pending, scan, todo>>
sessionVars == <<pc, tried, revision, alive, result>>
vars == <<kind, diskVars, channelVars, watcherVars, sessionVars, faults>>

-----------------------------------------------------------------------------
(* SourceWatcher::new: notifications, or else a first fingerprint.         *)
Init ==
  /\ kind \in {"invoke", "serve"}
  /\ version = [f \in Files |-> 0] /\ edits = 0
  /\ raised = {} /\ queue = <<>> /\ channel = "open"
  /\ mode \in {"notifications", "polling"}
  /\ baseline = version /\ pending = FALSE
  /\ scan = version /\ todo = IF mode = "polling" THEN Files ELSE {}
  /\ pc = IF mode = "polling" THEN "baseline" ELSE "begin"
  /\ tried = version /\ revision = 0
  /\ alive = {} /\ result = "none" /\ faults = 0

Fault == faults < MaxFaults /\ faults' = faults + 1

\* run returns; a Host it holds is killed when its handle is dropped.
End(why) == pc' = "ended" /\ result' = why /\ alive' = {}

\* The loop of changed is entered, again or for the first time.
Watching == IF mode = "polling" THEN "polling" ELSE "receiving"

\* changed returns Ok.
Changed == IF kind = "serve" THEN "stopping" ELSE "begin"

-----------------------------------------------------------------------------
(* SourceWatcher::changed                                                  *)

Fingerprinting == pc \in {"baseline", "falling back", "debounce failed", "scanning"}

\* source_fingerprint reads one file after another.
Fingerprint(f) ==
  /\ Fingerprinting /\ f \in todo
  /\ scan' = [scan EXCEPT ![f] = version[f]]
  /\ todo' = todo \ {f}
  /\ UNCHANGED <<kind, diskVars, channelVars, mode, baseline, pending, sessionVars,
                 faults>>

FirstBaseline ==
  /\ pc = "baseline" /\ todo = {}
  /\ baseline' = scan
  /\ pc' = "begin"
  /\ UNCHANGED <<kind, diskVars, channelVars, mode, pending, scan, todo, tried,
                 revision, alive, result, faults>>

FallBackQuietly(then, owed) ==
  /\ pc' = then /\ todo' = Files
  /\ pending' = FALSE
  /\ UNCHANGED <<mode, baseline, scan>>

\* use_polling_fallback starts with a fingerprint.
FallBack(then, owed) ==
  /\ pc' = then /\ todo' = Files
  /\ pending' = owed
  /\ UNCHANGED <<mode, baseline, scan>>

\* An event opens the debounce; a failed or a closed channel owes a rebuild.
Receive ==
  /\ pc = "receiving"
  /\ \/ /\ queue # <<>> /\ queue' = Tail(queue)
        /\ IF Head(queue) = "event"
           THEN pc' = "debouncing" /\ UNCHANGED watcherVars
           ELSE FallBack("falling back", TRUE)
     \/ /\ queue = <<>> /\ channel = "closed" /\ UNCHANGED queue
        /\ FallBack("falling back", TRUE)
  /\ UNCHANGED <<kind, diskVars, raised, channel, tried, revision, alive, result,
                 faults>>

\* debounce_notifications: events that follow within DEBOUNCE belong to it.
Debounce ==
  /\ pc = "debouncing"
  /\ \/ /\ queue # <<>> /\ queue' = Tail(queue)
        /\ IF Head(queue) = "event"
           THEN UNCHANGED <<pc, watcherVars>>
           ELSE FallBack("debounce failed", FALSE)
     \/ /\ queue = <<>> /\ UNCHANGED queue
        /\ IF channel = "closed"
           THEN FallBack("debounce failed", FALSE)
           ELSE pc' = Changed /\ UNCHANGED watcherVars
  /\ UNCHANGED <<kind, diskVars, raised, channel, tried, revision, alive, result,
                 faults>>

\* The watcher and its channel are dropped; the failed debounce returns, the
\* failed receive goes round the loop.
FallenBack ==
  /\ pc \in {"falling back", "debounce failed"} /\ todo = {}
  /\ mode' = "polling" /\ baseline' = scan
  /\ raised' = {} /\ queue' = <<>> /\ channel' = "closed"
  /\ pc' = IF pc = "debounce failed" THEN Changed ELSE "polling"
  /\ UNCHANGED <<kind, diskVars, pending, scan, todo, tried, revision, alive, result,
                 faults>>

\* The top of the loop, polling: the rebuild that is owed, or the sleep.
Poll ==
  /\ pc = "polling"
  /\ IF pending
     THEN pc' = Changed /\ pending' = FALSE /\ UNCHANGED todo
     ELSE pc' = "scanning" /\ todo' = Files /\ UNCHANGED pending
  /\ UNCHANGED <<kind, diskVars, channelVars, mode, baseline, scan, tried, revision,
                 alive, result, faults>>

Compare ==
  /\ pc = "scanning" /\ todo = {}
  /\ baseline' = scan
  /\ pc' = IF scan = baseline THEN "polling" ELSE Changed
  /\ UNCHANGED <<kind, diskVars, channelVars, mode, pending, scan, todo, tried,
                 revision, alive, result, faults>>

WatcherStep ==
  \/ FirstBaseline \/ Receive \/ Debounce \/ FallenBack \/ Poll \/ Compare
  \/ \E f \in Files : Fingerprint(f)

-----------------------------------------------------------------------------
(* run, of dev.rs and web_dev.rs                                           *)

StartBuild ==
  /\ pc = "begin"
  /\ pc' = "building"
  /\ tried' = version
  /\ revision' = revision + 1
  /\ UNCHANGED <<kind, diskVars, channelVars, watcherVars, alive, result, faults>>

\* "serve" starts the Host that was built, "invoke" has called the Plugin.
BuildSucceeds ==
  /\ pc = "building"
  /\ pc' = Watching
  /\ alive' = IF kind = "serve" THEN alive \union {revision} ELSE alive
  /\ UNCHANGED <<kind, diskVars, channelVars, watcherVars, tried, revision, result,
                 faults>>

\* Only a rebuild of "invoke" may fail.
BuildFails ==
  /\ pc = "building"
  /\ IF kind = "invoke" /\ revision > 1
     THEN pc' = Watching /\ UNCHANGED <<alive, result>>
     ELSE End("failed")
  /\ UNCHANGED <<kind, diskVars, channelVars, watcherVars, tried, revision, faults>>

SignalHost ==
  /\ pc = "stopping"
  /\ pc' = "begin"
  /\ UNCHANGED <<kind, diskVars, channelVars, watcherVars, tried, revision, alive,
                 result, faults>>

\* stop: SIGINT, four seconds, SIGKILL, and the wait for the Host.
StopHost ==
  /\ pc = "stopping"
  /\ alive' = {}
  /\ pc' = "begin"
  /\ UNCHANGED <<kind, diskVars, channelVars, watcherVars, tried, revision, result,
                 faults>>

\* changed waits, so that select! sees its other branches.
Waiting == pc \in {"receiving", "debouncing"} \/ (pc = "polling" /\ ~pending)

\* The Host has exited by itself, with success or without.
HostIsGone ==
  /\ kind = "serve" /\ Waiting /\ alive = {}
  /\ End("failed") \/ End("stopped")
  /\ UNCHANGED <<kind, diskVars, channelVars, watcherVars, tried, revision, faults>>

\* Ctrl-C; the signal reaches the Host too, which has four seconds.
Interrupt ==
  /\ Waiting
  /\ IF kind = "serve" THEN pc' = "closing" /\ UNCHANGED <<alive, result>>
                       ELSE End("stopped")
  /\ UNCHANGED <<kind, diskVars, channelVars, watcherVars, tried, revision, faults>>

\* wait_for_signal_shutdown
Close ==
  /\ pc = "closing"
  /\ End("stopped")
  /\ UNCHANGED <<kind, diskVars, channelVars, watcherVars, tried, revision, faults>>

\* A file that vanishes under the fingerprint, or a Host that cannot be started.
Fail ==
  /\ \/ Fingerprinting
     \/ pc = "building" /\ kind = "serve"
  /\ Fault
  /\ End("failed")
  /\ UNCHANGED <<kind, diskVars, channelVars, watcherVars, tried, revision>>

SessionStep ==
  \/ StartBuild \/ BuildSucceeds \/ BuildFails \/ StopHost \/ HostIsGone \/ Close

-----------------------------------------------------------------------------
(* People, the notifications of the system, the Host.                      *)

Edit(f) ==
  /\ pc # "ended" /\ edits < MaxEdits
  /\ edits' = edits + 1
  /\ version' = [version EXCEPT ![f] = @ + 1]
  /\ raised' = IF channel = "closed" \/ mode = "polling" THEN raised
               ELSE raised \union {f}
  /\ UNCHANGED <<kind, queue, channel, watcherVars, sessionVars, faults>>

Deliver(f) ==
  /\ pc # "ended" /\ f \in raised /\ channel # "closed"
  /\ raised' = raised \ {f}
  /\ queue' = Append(queue, "event")
  /\ UNCHANGED <<kind, diskVars, channel, watcherVars, sessionVars, faults>>

\* Notifications fail: some are lost, and an error or the end of the channel
\* follows what is queued.
NotificationsFail ==
  /\ pc # "ended" /\ mode = "notifications" /\ channel # "closed"
  /\ Fault
  /\ raised' \in SUBSET raised
  /\ \/ queue' = Append(queue, "error") /\ channel' = "failing"
     \/ UNCHANGED queue /\ channel' = "closed"
  /\ UNCHANGED <<kind, diskVars, watcherVars, sessionVars>>

LoseNotification(f) ==
  /\ channel \in {"failing", "closed"} /\ f \in raised
  /\ raised' = raised \ {f}
  /\ UNCHANGED <<kind, diskVars, queue, channel, watcherVars, sessionVars, faults>>

HostExits ==
  /\ pc # "ended" /\ alive # {} /\ Fault
  /\ alive' = {}
  /\ UNCHANGED <<kind, diskVars, channelVars, watcherVars, pc, tried, revision, result>>

Next ==
  \/ WatcherStep \/ SessionStep \/ Interrupt \/ Fail \/ NotificationsFail \/ HostExits
  \/ \E f \in Files : Edit(f) \/ Deliver(f) \/ LoseNotification(f)

Spec == Init /\ [][Next]_vars

\* The session and the notification thread are scheduled, builds end.
FairSpec ==
  /\ Spec
  /\ WF_vars(WatcherStep) /\ WF_vars(SessionStep)
  /\ \A f \in Files : WF_vars(Deliver(f))

-----------------------------------------------------------------------------
(* Properties                                                              *)

TypeOK ==
  /\ kind \in {"invoke", "serve"}
  /\ {version, baseline, scan, tried} \subseteq [Files -> Nat]
  /\ {edits, revision, faults} \subseteq Nat
  /\ {raised, todo} \subseteq SUBSET Files
  /\ queue \in Seq({"event", "error"})
  /\ channel \in {"open", "failing", "closed"}
  /\ mode \in {"notifications", "polling"}
  /\ pending \in BOOLEAN
  /\ pc \in {"baseline", "begin", "building", "receiving", "debouncing", "falling back",
             "debounce failed", "polling", "scanning", "stopping", "closing", "ended"}
  /\ alive \subseteq Nat
  /\ result \in {"none", "stopped", "failed"}

(* The polling watcher, when it is about to sleep, remembers no edit that  *)
(* was not there yet when the last build started: whatever it finds        *)
(* unchanged has been built.  So neither the change from notifications to  *)
(* polling nor an edit made during a fingerprint or a build is swallowed   *)
(* (changed, use_polling_fallback and its comment on rebuild_pending).     *)
BaselineIsBuilt ==
  (pc = "polling" /\ ~pending) => \A f \in Files : baseline[f] <= tried[f]

(* An edit is followed by a build that starts after it, although           *)
(* notifications are delayed, coalesced or fail, unless the session ends   *)
(* (changed, debounce_notifications; the loops of run).                    *)
PluginEditsAreBuilt ==
  \A f \in Files : version[f] # tried[f] ~> (tried[f] = version[f] \/ pc = "ended")

(* No Host runs while its executable is built again, the one that runs is  *)
(* of the last build, and none outlives the session, whenever it exits,    *)
(* the files change or Ctrl-C is pressed (web_dev::run, stop,              *)
(* kill_on_drop).                                                          *)
ServesTheLastBuild ==
  /\ alive \subseteq {revision}
  /\ pc \in {"begin", "building", "ended"} => alive = {}
=============================================================================
