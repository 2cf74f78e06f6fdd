-------------------------- MODULE CompilerProcess --------------------------
(***************************************************************************)
(* Calls of external compilers: each is spawned as the leader of a process *)
(* group, registered so that the host can end it on shutdown, polled until *)
(* it exits, is cancelled, runs out of time or writes too much, and its    *)
(* group is killed whichever happened.  The operating system gives a pid   *)
(* to another process once it is reaped and its group is empty.            *)
(***************************************************************************)
EXTENDS Naturals, FiniteSets

CONSTANTS
  Calls,   \* concurrent invocations
  Pids,
  NoPid,   \* the empty slot
  Slots,
  SlotOf,  \* the slot a host observes each call through
  Stranger, \* the owner of every process that is no compiler
  Reuse,   \* a pid can be taken again before its call has forgotten it
  MaxCalls, MaxStrangers, \* bounds
  MaxFaults \* bound on cancellations, excessive outputs and failing system calls

ASSUME SlotAssumption == SlotOf \in [Calls -> Slots]
ASSUME PidAssumption == IsFiniteSet(Pids)
ASSUME MarkAssumption == NoPid \notin Pids /\ Stranger \notin Calls
ASSUME ReuseAssumption == Reuse \in BOOLEAN
ASSUME BoundAssumption == {MaxCalls, MaxStrangers, MaxFaults} \subseteq Nat

VARIABLES
  leader,     \* the state of the process with each pid
  members,    \* whether its process group has other live members
  owner,      \* who spawned it
  slot,       \* the pid a host observes
  groups,     \* the registry of live compilers
  pc, pid,    \* of each call: where it is, the compiler it spawned
  cancelled,  \* the token it was given
  late,       \* its time is up
  excess,     \* its compiler has written too much
  noticed,    \* what the poll that ends the call has seen
  taken,      \* what its guard took from the slot
  result,     \* what it returned
  calls, strangers, faults, struck \* counts; struck: strangers that were killed

os == <<leader, members, owner, strangers>>
registry == <<slot, groups>>
signals == <<cancelled, late, excess>>
locals == <<pid, noticed, taken, result>>
counts == <<calls, faults>>
vars == <<leader, members, owner, slot, groups, pc, pid, cancelled, late, excess,
          noticed, taken, result, calls, strangers, faults, struck>>

Init ==
  /\ leader = [p \in Pids |-> "free"]
  /\ members = [p \in Pids |-> FALSE]
  /\ owner = [p \in Pids |-> Stranger]
  /\ slot = [s \in Slots |-> NoPid]
  /\ groups = {}
  /\ pc = [c \in Calls |-> "idle"]
  /\ pid = [c \in Calls |-> NoPid]
  /\ cancelled = [c \in Calls |-> FALSE]
  /\ late = [c \in Calls |-> FALSE]
  /\ excess = [c \in Calls |-> FALSE]
  /\ noticed = [c \in Calls |-> "none"]
  /\ taken = [c \in Calls |-> NoPid]
  /\ result = [c \in Calls |-> "none"]
  /\ calls = 0 /\ strangers = 0 /\ faults = 0 /\ struck = 0

----------------------------------------------------------------------------
\* What the operating system does.

Free(p) == leader[p] = "free" /\ ~members[p]
\* Mutant: whatever exists counts as dead.
Existing(p) == leader[p] # "free"

Zombie(p) == leader[p] \in {"exited", "failed", "killed"}

\* Mutant: the compiler is killed and not its helpers.
KillLeaderOnly(P) ==
  /\ leader' = [p \in Pids |->
       IF p \notin P \/ leader[p] # "running" THEN leader[p]
       ELSE IF owner[p] = Stranger THEN "free" ELSE "killed"]
  /\ struck' = struck + Cardinality({p \in P : leader[p] = "running" /\ owner[p] = Stranger})
  /\ UNCHANGED <<members, owner, strangers>>

\* The groups P get SIGKILL.  A killed compiler waits to be reaped by its call.
Kill(P) ==
  /\ leader' = [p \in Pids |->
       IF p \notin P \/ leader[p] # "running" THEN leader[p]
       ELSE IF owner[p] = Stranger THEN "free" ELSE "killed"]
  /\ members' = [p \in Pids |-> p \notin P /\ members[p]]
  /\ struck' = struck + Cardinality({p \in P : leader[p] = "running" /\ owner[p] = Stranger})
  /\ UNCHANGED <<owner, strangers>>

Reap(p) ==
  /\ leader' = [leader EXCEPT ![p] = "free"]
  /\ UNCHANGED <<members, owner, strangers, struck>>

Exit(p) ==
  /\ leader[p] = "running"
  /\ \E status \in IF owner[p] = Stranger THEN {"free"} ELSE {"exited", "failed"} :
       leader' = [leader EXCEPT ![p] = status]
  /\ UNCHANGED <<members, owner, strangers, struck, registry, pc, signals, locals, counts>>

\* A compiler starts a helper, which stays in its group.
Fork(p) ==
  /\ leader[p] = "running" /\ owner[p] # Stranger
  /\ members' = [members EXCEPT ![p] = TRUE]
  /\ UNCHANGED <<leader, owner, strangers, struck, registry, pc, signals, locals, counts>>

StrangerStarts(p) ==
  /\ Free(p)
  /\ Reuse \/ p \notin groups
  /\ strangers < MaxStrangers
  /\ strangers' = strangers + 1
  /\ leader' = [leader EXCEPT ![p] = "running"]
  /\ owner' = [owner EXCEPT ![p] = Stranger]
  /\ UNCHANGED <<members, struck, registry, pc, signals, locals, counts>>

----------------------------------------------------------------------------
\* The world around a call.

Cancel(c) ==
  /\ ~cancelled[c]
  /\ faults < MaxFaults
  /\ faults' = faults + 1
  /\ cancelled' = [cancelled EXCEPT ![c] = TRUE]
  /\ UNCHANGED <<os, struck, registry, pc, late, excess, locals, calls>>

TimeUp(c) ==
  /\ pc[c] # "idle"
  /\ ~late[c]
  /\ late' = [late EXCEPT ![c] = TRUE]
  /\ UNCHANGED <<os, struck, registry, pc, cancelled, excess, locals, counts>>

WriteTooMuch(c) ==
  /\ pid[c] # NoPid /\ owner[pid[c]] = c
  /\ leader[pid[c]] = "running" \/ members[pid[c]]
  /\ ~excess[c]
  /\ faults < MaxFaults
  /\ faults' = faults + 1
  /\ excess' = [excess EXCEPT ![c] = TRUE]
  /\ UNCHANGED <<os, struck, registry, pc, cancelled, late, locals, calls>>

\* terminate_active_processes, from the thread that handles a signal.
Terminate ==
  /\ groups # {}
  /\ Kill(groups)
  /\ UNCHANGED <<registry, pc, signals, locals, counts>>

----------------------------------------------------------------------------
Goto(c, there) == pc' = [pc EXCEPT ![c] = there]
Result(c, r) == result' = [result EXCEPT ![c] = r]

\* The call spawns its compiler unless it is cancelled already.
Spawn(c, p) ==
  /\ pc[c] = "idle"
  /\ calls < MaxCalls
  /\ calls' = calls + 1
  /\ ~cancelled[c]
  /\ Free(p)
  /\ Reuse \/ p \notin groups
  /\ leader' = [leader EXCEPT ![p] = "running"]
  /\ owner' = [owner EXCEPT ![p] = c]
  /\ pid' = [pid EXCEPT ![c] = p]
  /\ late' = [late EXCEPT ![c] = FALSE]
  /\ excess' = [excess EXCEPT ![c] = FALSE]
  /\ Result(c, "none")
  /\ Goto(c, "spawned")
  /\ UNCHANGED <<members, strangers, struck, registry, cancelled, noticed, taken, faults>>

\* Cancelled before the start, or the program does not start.
NeverStart(c) ==
  /\ pc[c] = "idle"
  /\ calls < MaxCalls
  /\ calls' = calls + 1
  /\ \E r \in {x \in {"cancelled"} : cancelled[c]} \union {x \in {"error"} : ~cancelled[c]} :
       Result(c, r)
  /\ cancelled' = [cancelled EXCEPT ![c] = FALSE]
  /\ UNCHANGED <<os, struck, registry, pc, late, excess, pid, noticed, taken, faults>>

\* CompilerGroup::new.
Observe(c) ==
  /\ pc[c] = "spawned"
  /\ slot' = [slot EXCEPT ![SlotOf[c]] = pid[c]]
  /\ Goto(c, "observed")
  /\ UNCHANGED <<os, struck, groups, signals, locals, counts>>

Register(c) ==
  /\ pc[c] = "observed"
  /\ groups' = groups \union {pid[c]}
  /\ Goto(c, "polling")
  /\ UNCHANGED <<os, struck, slot, signals, locals, counts>>

\* try_wait finds the compiler dead and reaps it, or alive.
TryWait(c) ==
  /\ pc[c] = "polling"
  /\ IF Zombie(pid[c])
     THEN /\ noticed' = [noticed EXCEPT ![c] = leader[pid[c]]]
          /\ Reap(pid[c])
          /\ Goto(c, "dropping")
     ELSE /\ Goto(c, "checking")
          /\ UNCHANGED <<os, struck, noticed>>
  /\ UNCHANGED <<registry, signals, pid, taken, result, counts>>

\* Mutant: a compiler that writes nothing and is not cancelled runs for ever.
PatientReasons(c) == {x \in {"excess"} : excess[c]}

\* Time and output as this poll has seen them, the first of which is reported.
Reasons(c) ==
  IF late[c] THEN {"late"} ELSE {x \in {"excess"} : excess[c]}

Check(c) ==
  /\ pc[c] = "checking"
  /\ IF cancelled[c] \/ Reasons(c) # {}
     THEN /\ noticed' = [noticed EXCEPT
               ![c] = IF Reasons(c) = {} THEN "none" ELSE CHOOSE r \in Reasons(c) : TRUE]
          /\ Goto(c, "ending")
     ELSE Goto(c, "polling") /\ UNCHANGED noticed
  /\ UNCHANGED <<os, struck, registry, signals, pid, taken, result, counts>>

KillGroup(c) ==
  /\ pc[c] = "ending"
  /\ Kill({pid[c]})
  /\ Goto(c, "killed")
  /\ UNCHANGED <<registry, signals, locals, counts>>

\* wait, and what the call reports: a cancellation first.
Wait(c) ==
  /\ pc[c] = "killed"
  /\ Zombie(pid[c])
  /\ Reap(pid[c])
  /\ Result(c, IF cancelled[c] THEN "cancelled" ELSE noticed[c])
  /\ Goto(c, "dropping")
  /\ UNCHANGED <<registry, signals, pid, noticed, taken, counts>>

\* A system call of the loop fails: ChildGuard kills the compiler, if it is alive,
\* and waits for it.
Abandon(c) ==
  /\ pc[c] \in {"polling", "checking"}
  /\ faults < MaxFaults
  /\ faults' = faults + 1
  /\ leader' = [leader EXCEPT ![pid[c]] = "free"]
  /\ Result(c, "error")
  /\ Goto(c, "dropping")
  /\ UNCHANGED <<members, owner, strangers, struck, registry, signals, pid, noticed,
                 taken, calls>>

\* CompilerGroup::drop, in three steps.
TakeSlot(c) ==
  /\ pc[c] = "dropping"
  /\ taken' = [taken EXCEPT ![c] = slot[SlotOf[c]]]
  /\ slot' = [slot EXCEPT ![SlotOf[c]] = NoPid]
  /\ Goto(c, "taken")
  /\ UNCHANGED <<os, struck, groups, signals, pid, noticed, result, counts>>

\* Mutant: unregister first and kill afterwards.
UnregisterFirst(c) ==
  /\ pc[c] = "taken"
  /\ IF taken[c] \in groups
     THEN groups' = groups \ {taken[c]} /\ UNCHANGED <<os, struck, pc>>
     ELSE Kill({taken[c]} \ {NoPid}) /\ Goto(c, "stopped") /\ UNCHANGED groups
  /\ UNCHANGED <<slot, signals, locals, counts>>

StopGroup(c) ==
  /\ pc[c] = "taken"
  /\ Kill({taken[c]} \ {NoPid})
  /\ Goto(c, "stopped")
  /\ UNCHANGED <<registry, signals, locals, counts>>

Unregister(c) ==
  /\ pc[c] = "stopped"
  /\ groups' = groups \ {taken[c]}
  /\ Goto(c, "finished")
  /\ UNCHANGED <<os, struck, slot, signals, locals, counts>>

\* The rest of the call: what a compiler that ended by itself has left.
Finish(c) ==
  /\ pc[c] = "finished"
  /\ Result(c, CASE result[c] # "none" -> result[c]
                 [] result[c] = "none" /\ excess[c] -> "excess"
                 [] result[c] = "none" /\ ~excess[c] /\ noticed[c] = "exited" -> "ok"
                 [] OTHER -> "failed")
  /\ pid' = [pid EXCEPT ![c] = NoPid]
  /\ noticed' = [noticed EXCEPT ![c] = "none"]
  /\ taken' = [taken EXCEPT ![c] = NoPid]
  /\ cancelled' = [cancelled EXCEPT ![c] = FALSE]
  /\ late' = [late EXCEPT ![c] = FALSE]
  /\ excess' = [excess EXCEPT ![c] = FALSE]
  /\ Goto(c, "idle")
  /\ UNCHANGED <<os, struck, registry, counts>>

Running(c) ==
  \/ Observe(c) \/ Register(c) \/ TryWait(c) \/ Check(c) \/ KillGroup(c) \/ Wait(c)
  \/ TakeSlot(c) \/ StopGroup(c) \/ Unregister(c) \/ Finish(c)

Next ==
  \/ \E c \in Calls :
       \/ \E p \in Pids : Spawn(c, p)
       \/ NeverStart(c) \/ Running(c) \/ Abandon(c)
       \/ Cancel(c) \/ TimeUp(c) \/ WriteTooMuch(c)
  \/ \E p \in Pids : Exit(p) \/ Fork(p) \/ StrangerStarts(p)
  \/ Terminate

Spec == Init /\ [][Next]_vars

\* The thread of a call is scheduled and time passes; compilers owe nothing.
FairSpec == Spec /\ \A c \in Calls : WF_vars(Running(c)) /\ WF_vars(TimeUp(c))

----------------------------------------------------------------------------
Statuses == {"exited", "failed", "killed"}
Outcomes == {"none", "ok", "failed", "error", "cancelled", "late", "excess"}

\* Every variable has its type, and a call that ended by itself or was ended
\* reports which.
TypeOK ==
  /\ leader \in [Pids -> {"free", "running"} \union Statuses]
  /\ members \in [Pids -> BOOLEAN]
  /\ owner \in [Pids -> Calls \union {Stranger}]
  /\ slot \in [Slots -> Pids \union {NoPid}]
  /\ groups \subseteq Pids
  /\ pc \in [Calls -> {"idle", "spawned", "observed", "polling", "checking", "ending",
                       "killed", "dropping", "taken", "stopped", "finished"}]
  /\ pid \in [Calls -> Pids \union {NoPid}]
  /\ \A c \in Calls : pid[c] = NoPid <=> pc[c] = "idle"
  /\ {cancelled, late, excess} \subseteq [Calls -> BOOLEAN]
  /\ noticed \in [Calls -> Statuses \union {"none", "late", "excess"}]
  /\ taken \in [Calls -> Pids \union {NoPid}]
  /\ result \in [Calls -> Outcomes]
  /\ calls \in 0..MaxCalls /\ strangers \in 0..MaxStrangers
  /\ faults \in 0..MaxFaults /\ struck \in Nat

Alive(p) == leader[p] = "running" \/ members[p]

\* A call leaves nothing behind: when it returns, for whatever reason, neither its
\* compiler nor a helper in its group is alive, and the compiler is reaped
\* (execute_cancellable_with_budget).
NothingIsLeftBehind ==
  \A p \in Pids :
    (owner[p] # Stranger /\ ~Free(p)) => pid[owner[p]] = p

\* No signal ever reaches a process that is not a compiler of a running call, if
\* the system does not give out a pid again within the moments in which the call
\* that reaped it still has it registered (stop_group).
NoStrangerIsKilled == struck = 0

\* A call returns, also if its compiler never does (the polling loop).
CallsReturn == \A c \in Calls : pc[c] = "spawned" ~> pc[c] = "idle"
=============================================================================
