----------------------- MODULE CompilerProcess_proofs -----------------------
(***************************************************************************)
(* Theorems about CompilerProcess, for any number of calls and pids, all   *)
(* ways of ending a call and all moments at which the host ends them.      *)
(***************************************************************************)
EXTENDS CompilerProcess, TLAPS, FiniteSetTheorems

\* Each call is observed through a slot of its own.
SlotsAreOwn == \A c, d \in Calls : SlotOf[c] = SlotOf[d] => c = d

\* The compiler is not reaped yet.
Compiling == {"spawned", "observed", "polling", "checking", "ending", "killed"}
\* It is reaped, its group is not gone.
Dropping == {"dropping", "taken", "stopped"}
Registered == {"polling", "checking", "ending", "killed"} \union Dropping

\* While a call has its compiler's pid registered it is the compiler's.
OwnerInv ==
  \A c \in Calls :
    /\ pc[c] \in Compiling \union Dropping => owner[pid[c]] = c
    /\ pc[c] \in Compiling => leader[pid[c]] # "free"
    /\ pc[c] \in Dropping => leader[pid[c]] = "free"
    /\ pc[c] = "stopped" => ~members[pid[c]]

RegistryInv == groups = {pid[c] : c \in {d \in Calls : pc[d] \in Registered}}

SlotInv ==
  \A c \in Calls :
    /\ pc[c] \in {"observed", "polling", "checking", "ending", "killed", "dropping"}
         => slot[SlotOf[c]] = pid[c]
    /\ pc[c] \in {"taken", "stopped"} => taken[c] = pid[c]

\* A compiler or a helper that lives belongs to a call that still has to stop it.
LiveInv ==
  \A p \in Pids :
    owner[p] # Stranger /\ ~Free(p) =>
      /\ pid[owner[p]] = p
      /\ pc[owner[p]] \in Compiling \union {"dropping", "taken"}

\* What a poll has noticed when it ends the call.
ReasonInv ==
  \A c \in Calls :
    pc[c] \in {"ending", "killed"} =>
      noticed[c] \in {"late", "excess"} \/ (noticed[c] = "none" /\ cancelled[c])

ProcessInv == OwnerInv /\ RegistryInv /\ SlotInv /\ LiveInv /\ NoStrangerIsKilled

----------------------------------------------------------------------------
(* Types and reasons.                                                      *)

LEMMA InitTypes == Init => TypeOK /\ ReasonInv
<1> SUFFICES ASSUME Init PROVE TypeOK /\ ReasonInv
  OBVIOUS
<1>1. 0 \in 0..MaxCalls /\ 0 \in 0..MaxStrangers /\ 0 \in 0..MaxFaults /\ 0 \in Nat
  BY BoundAssumption
<1>2. TypeOK
  BY <1>1 DEF Init, TypeOK, Outcomes
<1>3. ReasonInv
  BY DEF Init, ReasonInv
<1> QED
  BY <1>2, <1>3

LEMMA KillTypes ==
  ASSUME TypeOK, NEW P \in SUBSET Pids, Kill(P)
  PROVE  /\ leader' \in [Pids -> {"free", "running"} \union Statuses]
         /\ members' \in [Pids -> BOOLEAN]
         /\ struck' \in Nat
         /\ UNCHANGED <<owner, strangers>>
<1>1. Cardinality({p \in P : leader[p] = "running" /\ owner[p] = Stranger}) \in Nat
  BY PidAssumption, FS_Subset, FS_CardinalityType
<1> QED
  BY <1>1 DEF Kill, TypeOK, Statuses

\* What the system and the world around a call do.
LEMMA OutsideTypes ==
  ASSUME TypeOK,
         \/ \E c \in Calls : Cancel(c) \/ TimeUp(c) \/ WriteTooMuch(c)
         \/ \E p \in Pids : Exit(p) \/ Fork(p) \/ StrangerStarts(p)
         \/ Terminate
  PROVE  TypeOK'
<1>1. CASE \E c \in Calls : Cancel(c) \/ TimeUp(c) \/ WriteTooMuch(c)
  <2>1. UNCHANGED <<os, struck, registry, pc, locals, calls>>
    BY <1>1 DEF Cancel, TimeUp, WriteTooMuch, counts
  <2>2. {cancelled', late', excess'} \subseteq [Calls -> BOOLEAN]
    <3>1. CASE \E c \in Calls : Cancel(c)
      BY <1>1, <3>1 DEF Cancel, TypeOK
    <3>2. CASE \E c \in Calls : TimeUp(c)
      BY <1>1, <3>2 DEF TimeUp, TypeOK
    <3>3. CASE \E c \in Calls : WriteTooMuch(c)
      BY <1>1, <3>3 DEF WriteTooMuch, TypeOK
    <3> QED
      BY <1>1, <3>1, <3>2, <3>3
  <2>3. faults' \in 0..MaxFaults
    BY <1>1, BoundAssumption DEF Cancel, TimeUp, WriteTooMuch, counts, TypeOK
  <2> QED
    BY <2>1, <2>2, <2>3 DEF TypeOK, os, registry, locals
<1>2. CASE \E p \in Pids : Exit(p) \/ Fork(p) \/ StrangerStarts(p)
  <2>1. UNCHANGED <<struck, registry, pc, signals, locals, counts>>
    BY <1>2 DEF Exit, Fork, StrangerStarts
  <2>2. /\ leader' \in [Pids -> {"free", "running"} \union Statuses]
        /\ members' \in [Pids -> BOOLEAN]
        /\ owner' \in [Pids -> Calls \union {Stranger}]
    BY <1>2 DEF Exit, Fork, StrangerStarts, TypeOK, Statuses
  <2>3. strangers' \in 0..MaxStrangers
    BY <1>2, BoundAssumption DEF Exit, Fork, StrangerStarts, TypeOK
  <2> QED
    BY <2>1, <2>2, <2>3 DEF TypeOK, registry, signals, locals, counts
<1>3. CASE Terminate
  <2>1. Kill(groups) /\ groups \in SUBSET Pids
    BY <1>3 DEF Terminate, TypeOK
  <2>2. UNCHANGED <<registry, pc, signals, locals, counts>>
    BY <1>3 DEF Terminate
  <2> QED
    BY <2>1, <2>2, KillTypes DEF TypeOK, registry, signals, locals, counts
<1> QED
  BY <1>1, <1>2, <1>3

\* A poll that ends the call has a reason, if only that the call is cancelled.
LEMMA CheckNotices ==
  ASSUME NEW c \in Calls, Check(c)
  PROVE  \/ /\ pc' = [pc EXCEPT ![c] = "polling"] /\ noticed' = noticed
         \/ /\ pc' = [pc EXCEPT ![c] = "ending"]
            /\ \E r \in {"none", "late", "excess"} :
                 /\ noticed' = [noticed EXCEPT ![c] = r]
                 /\ r = "none" => cancelled[c]
<1>1. Reasons(c) \subseteq {"late", "excess"}
  BY DEF Reasons
<1>2. Reasons(c) # {} => (CHOOSE r \in Reasons(c) : TRUE) \in Reasons(c)
  OBVIOUS
<1> QED
  BY <1>1, <1>2 DEF Check, Goto

LEMMA CallTypes ==
  ASSUME TypeOK, ReasonInv, NEW c \in Calls,
         (\E p \in Pids : Spawn(c, p)) \/ NeverStart(c) \/ Running(c) \/ Abandon(c)
  PROVE  TypeOK'
<1> USE MarkAssumption, BoundAssumption DEF TypeOK, Goto, Result, os, registry, signals, locals, counts
<1>1. CASE \E p \in Pids : Spawn(c, p)
  BY <1>1 DEF Spawn, Outcomes
<1>2. CASE NeverStart(c)
  BY <1>2 DEF NeverStart, Outcomes
<1>3. CASE Observe(c)
  BY <1>3, SlotAssumption DEF Observe
<1>4. CASE Register(c)
  BY <1>4 DEF Register
<1>5. CASE TryWait(c)
  BY <1>5 DEF TryWait, Reap, Zombie, Statuses
<1>6. CASE Check(c)
  BY <1>6, CheckNotices DEF Check
<1>7. CASE KillGroup(c)
  <2>1. pid[c] \in Pids
    BY <1>7 DEF KillGroup
  <2> QED
    BY <1>7, <2>1, KillTypes DEF KillGroup
<1>8. CASE Wait(c)
  BY <1>8 DEF Wait, Reap, ReasonInv, Outcomes
<1>9. CASE Abandon(c)
  BY <1>9 DEF Abandon, Outcomes
<1>10. CASE TakeSlot(c)
  BY <1>10, SlotAssumption DEF TakeSlot
<1>11. CASE StopGroup(c)
  <2>1. {taken[c]} \ {NoPid} \in SUBSET Pids
    BY <1>11 DEF StopGroup
  <2> QED
    BY <1>11, <2>1, KillTypes DEF StopGroup
<1>12. CASE Unregister(c)
  BY <1>12 DEF Unregister
<1>13. CASE Finish(c)
  BY <1>13 DEF Finish, Outcomes
<1> QED
  BY <1>1, <1>2, <1>3, <1>4, <1>5, <1>6, <1>7, <1>8, <1>9, <1>10, <1>11, <1>12, <1>13 DEF Running

LEMMA ReasonKeeps ==
  ASSUME TypeOK, ReasonInv, [Next]_vars
  PROVE  ReasonInv'
<1> USE DEF TypeOK, ReasonInv, Goto, Result, os, registry, signals, locals, counts
<1>1. ASSUME NEW c \in Calls,
             (\E p \in Pids : Spawn(c, p)) \/ NeverStart(c) \/ Observe(c) \/ Register(c)
               \/ TryWait(c) \/ KillGroup(c) \/ Abandon(c) \/ TakeSlot(c) \/ StopGroup(c)
               \/ Unregister(c)
      PROVE  ReasonInv'
  BY <1>1 DEF Spawn, NeverStart, Observe, Register, TryWait, KillGroup, Abandon, TakeSlot,
     StopGroup, Unregister
<1>2. ASSUME NEW c \in Calls, Check(c)
      PROVE  ReasonInv'
  BY <1>2, CheckNotices DEF Check
<1>3. ASSUME NEW c \in Calls, Wait(c) \/ Finish(c)
      PROVE  ReasonInv'
  BY <1>3 DEF Wait, Finish
<1>4. ASSUME NEW c \in Calls, Cancel(c) \/ TimeUp(c) \/ WriteTooMuch(c)
      PROVE  ReasonInv'
  BY <1>4 DEF Cancel, TimeUp, WriteTooMuch
<1>5. CASE (\E p \in Pids : Exit(p) \/ Fork(p) \/ StrangerStarts(p)) \/ Terminate
  BY <1>5 DEF Exit, Fork, StrangerStarts, Terminate
<1>6. CASE UNCHANGED vars
  BY <1>6 DEF vars
<1> QED
  BY <1>1, <1>2, <1>3, <1>4, <1>5, <1>6 DEF Next, Running

LEMMA TypesKeep == TypeOK /\ ReasonInv /\ [Next]_vars => TypeOK' /\ ReasonInv'
<1> SUFFICES ASSUME TypeOK, ReasonInv, [Next]_vars PROVE TypeOK' /\ ReasonInv'
  OBVIOUS
<1>1. CASE UNCHANGED vars
  BY <1>1, ReasonKeeps DEF vars, TypeOK
<1>2. CASE Next
  BY <1>2, OutsideTypes, CallTypes, ReasonKeeps DEF Next
<1> QED
  BY <1>1, <1>2

LEMMA TypesCorrect == Spec => [](TypeOK /\ ReasonInv)
BY InitTypes, TypesKeep, PTL DEF Spec

----------------------------------------------------------------------------
(* Compilers, their groups and the registry.                               *)

LEMMA InitProcess == Init => ProcessInv
BY DEF Init, ProcessInv, OwnerInv, RegistryInv, SlotInv, LiveInv, NoStrangerIsKilled, Compiling,
   Dropping, Registered, Free

LEMMA ProcessFrame ==
  ASSUME ProcessInv, UNCHANGED <<leader, members, owner, slot, groups, pc, pid, taken, struck>>
  PROVE  ProcessInv'
BY DEF ProcessInv, OwnerInv, RegistryInv, SlotInv, LiveInv, NoStrangerIsKilled, Free

\* A pid that a call has not given up yet is its own.
LEMMA OwnPid ==
  ASSUME TypeOK, ProcessInv, NEW c \in Calls, pc[c] \in Compiling \union Dropping
  PROVE  /\ pid[c] \in Pids /\ owner[pid[c]] = c /\ owner[pid[c]] # Stranger
         /\ \A d \in Calls : pc[d] \in Compiling \union Dropping /\ pid[d] = pid[c] => d = c
BY MarkAssumption DEF TypeOK, ProcessInv, OwnerInv, Compiling, Dropping

\* Killing the groups of compilers kills no stranger and frees no pid.
LEMMA KillCompilers ==
  ASSUME TypeOK, NoStrangerIsKilled, NEW P \in SUBSET Pids, Kill(P),
         \A p \in P : owner[p] # Stranger
  PROVE  /\ struck' = 0 /\ owner' = owner
         /\ \A p \in Pids : leader'[p] = "free" <=> leader[p] = "free"
         /\ \A p \in Pids : members'[p] <=> (p \notin P /\ members[p])
<1>1. {p \in P : leader[p] = "running" /\ owner[p] = Stranger} = {}
  OBVIOUS
<1>2. struck' = 0
  BY <1>1, FS_EmptySet DEF Kill, NoStrangerIsKilled
<1>3. \A p \in Pids : leader'[p] = "free" <=> leader[p] = "free"
  BY DEF Kill
<1>4. \A p \in Pids : members'[p] <=> (p \notin P /\ members[p])
  BY DEF Kill
<1> QED
  BY <1>2, <1>3, <1>4 DEF Kill

\* The groups of calls that are registered get a signal: nothing that another call
\* or a stranger owns is touched.
LEMMA KillKeeps ==
  ASSUME TypeOK, ProcessInv, NEW P \in SUBSET Pids, Kill(P),
         \A p \in P : owner[p] # Stranger,
         UNCHANGED <<slot, groups, pc, pid, taken>>
  PROVE  ProcessInv'
<1>1. /\ struck' = 0 /\ owner' = owner
      /\ \A p \in Pids : leader'[p] = "free" <=> leader[p] = "free"
      /\ \A p \in Pids : members'[p] => members[p]
  BY KillCompilers DEF ProcessInv
<1>2. OwnerInv'
  BY <1>1 DEF ProcessInv, OwnerInv, TypeOK, Compiling, Dropping
<1>3. LiveInv'
  BY <1>1 DEF ProcessInv, LiveInv, Free
<1> QED
  BY <1>1, <1>2, <1>3 DEF ProcessInv, RegistryInv, SlotInv, NoStrangerIsKilled

LEMMA SystemKeeps ==
  ASSUME TypeOK, ProcessInv, Reuse = FALSE,
         (\E p \in Pids : Exit(p) \/ Fork(p) \/ StrangerStarts(p)) \/ Terminate
  PROVE  ProcessInv'
<1>1. ASSUME NEW p \in Pids, Exit(p) \/ Fork(p)
      PROVE  ProcessInv'
  <2>1. UNCHANGED <<owner, slot, groups, pc, pid, taken, struck>>
    BY <1>1 DEF Exit, Fork, registry, locals
  <2>2. OwnerInv'
    <3>1. CASE Exit(p)
      BY <2>1, <3>1, MarkAssumption DEF Exit, ProcessInv, OwnerInv, TypeOK, Compiling, Dropping
    <3>2. CASE Fork(p)
      BY <2>1, <3>2 DEF Fork, ProcessInv, OwnerInv, TypeOK, Compiling, Dropping
    <3> QED
      BY <1>1, <3>1, <3>2
  <2>3. LiveInv'
    BY <1>1, <2>1 DEF Exit, Fork, ProcessInv, LiveInv, Free, TypeOK
  <2> QED
    BY <2>1, <2>2, <2>3 DEF ProcessInv, RegistryInv, SlotInv, NoStrangerIsKilled
<1>2. ASSUME NEW p \in Pids, StrangerStarts(p)
      PROVE  ProcessInv'
  <2>1. /\ Free(p) /\ p \notin groups
        /\ leader' = [leader EXCEPT ![p] = "running"]
        /\ owner' = [owner EXCEPT ![p] = Stranger]
        /\ UNCHANGED <<members, slot, groups, pc, pid, taken, struck>>
    BY <1>2 DEF StrangerStarts, registry, locals
  <2>2. \A c \in Calls : pc[c] \in Compiling \union Dropping => pid[c] # p
    BY <2>1 DEF ProcessInv, OwnerInv, RegistryInv, Registered, Free, Compiling, Dropping
  <2>3. OwnerInv'
    BY <2>1, <2>2 DEF ProcessInv, OwnerInv, TypeOK, Dropping
  <2>4. LiveInv'
    BY <2>1 DEF ProcessInv, LiveInv, Free, TypeOK
  <2> QED
    BY <2>1, <2>3, <2>4 DEF ProcessInv, RegistryInv, SlotInv, NoStrangerIsKilled
<1>3. CASE Terminate
  <2>1. Kill(groups) /\ UNCHANGED <<slot, groups, pc, pid, taken>>
    BY <1>3 DEF Terminate, registry, locals
  <2>2. \A p \in groups : owner[p] # Stranger
    BY OwnPid DEF ProcessInv, RegistryInv, Registered, Compiling
  <2> QED
    BY <2>1, <2>2, KillKeeps DEF TypeOK
<1> QED
  BY <1>1, <1>2, <1>3

\* A call spawns its compiler under a pid that nobody holds, and registers it.
LEMMA StartKeeps ==
  ASSUME TypeOK, ProcessInv, Reuse = FALSE, SlotsAreOwn, NEW c \in Calls,
         (\E p \in Pids : Spawn(c, p)) \/ Observe(c) \/ Register(c)
  PROVE  ProcessInv'
<1>1. ASSUME NEW p \in Pids, Spawn(c, p)
      PROVE  ProcessInv'
  <2>1. /\ Free(p) /\ p \notin groups /\ pc[c] = "idle"
        /\ leader' = [leader EXCEPT ![p] = "running"]
        /\ owner' = [owner EXCEPT ![p] = c]
        /\ pid' = [pid EXCEPT ![c] = p]
        /\ pc' = [pc EXCEPT ![c] = "spawned"]
        /\ UNCHANGED <<members, slot, groups, taken, struck>>
    BY <1>1 DEF Spawn, Goto, registry
  <2>2. \A d \in Calls : pc[d] \in Compiling \union Dropping => pid[d] # p
    BY <2>1 DEF ProcessInv, OwnerInv, RegistryInv, Registered, Free, Compiling, Dropping
  <2>3. OwnerInv'
    BY <2>1, <2>2 DEF ProcessInv, OwnerInv, TypeOK, Compiling, Dropping
  <2>4. RegistryInv'
    BY <2>1 DEF ProcessInv, RegistryInv, TypeOK, Registered, Dropping
  <2>5. SlotInv'
    BY <2>1 DEF ProcessInv, SlotInv, TypeOK
  <2>6. LiveInv'
    BY <2>1 DEF ProcessInv, LiveInv, Free, TypeOK, Compiling
  <2> QED
    BY <2>1, <2>3, <2>4, <2>5, <2>6 DEF ProcessInv, NoStrangerIsKilled
<1>2. CASE Observe(c)
  <2>1. /\ pc[c] = "spawned" /\ pc' = [pc EXCEPT ![c] = "observed"]
        /\ slot' = [slot EXCEPT ![SlotOf[c]] = pid[c]]
        /\ UNCHANGED <<leader, members, owner, groups, pid, taken, struck>>
    BY <1>2 DEF Observe, Goto, os, locals
  <2>2. OwnerInv' /\ LiveInv'
    BY <2>1 DEF ProcessInv, OwnerInv, LiveInv, Free, TypeOK, Compiling, Dropping
  <2>3. RegistryInv'
    BY <2>1 DEF ProcessInv, RegistryInv, TypeOK, Registered, Dropping
  <2>4. SlotInv'
    BY <2>1, SlotAssumption DEF ProcessInv, SlotInv, SlotsAreOwn, TypeOK
  <2> QED
    BY <2>1, <2>2, <2>3, <2>4 DEF ProcessInv, NoStrangerIsKilled
<1>3. CASE Register(c)
  <2>1. /\ pc[c] = "observed" /\ pc' = [pc EXCEPT ![c] = "polling"]
        /\ groups' = groups \union {pid[c]}
        /\ UNCHANGED <<leader, members, owner, slot, pid, taken, struck>>
    BY <1>3 DEF Register, Goto, os, locals
  <2>2. OwnerInv' /\ LiveInv'
    BY <2>1 DEF ProcessInv, OwnerInv, LiveInv, Free, TypeOK, Compiling, Dropping
  <2>3. RegistryInv'
    <3>1. {d \in Calls : pc'[d] \in Registered} = {d \in Calls : pc[d] \in Registered} \union {c}
      BY <2>1 DEF TypeOK, Registered
    <3> QED
      BY <2>1, <3>1 DEF ProcessInv, RegistryInv
  <2>4. SlotInv'
    BY <2>1 DEF ProcessInv, SlotInv, TypeOK
  <2> QED
    BY <2>1, <2>2, <2>3, <2>4 DEF ProcessInv, NoStrangerIsKilled
<1> QED
  BY <1>1, <1>2, <1>3

\* A poll reaps its compiler or leaves it, and the compiler stays the call's own.
LEMMA PollKeeps ==
  ASSUME TypeOK, ProcessInv, NEW c \in Calls,
         TryWait(c) \/ Check(c) \/ KillGroup(c) \/ Wait(c) \/ Abandon(c)
  PROVE  ProcessInv'
<1>1. ASSUME pc[c] \in {"polling", "checking", "killed"},
             leader' = [leader EXCEPT ![pid[c]] = "free"],
             pc' = [pc EXCEPT ![c] = "dropping"],
             UNCHANGED <<members, owner, slot, groups, pid, taken, struck>>
      PROVE  ProcessInv'
  <2>1. pc[c] \in Compiling /\ pc[c] \in Registered
    BY <1>1 DEF Compiling, Registered
  <2>2. /\ pid[c] \in Pids
        /\ \A d \in Calls : pc[d] \in Compiling \union Dropping /\ pid[d] = pid[c] => d = c
    BY <2>1, OwnPid
  <2>3. OwnerInv'
    BY <1>1, <2>1, <2>2 DEF ProcessInv, OwnerInv, TypeOK, Compiling, Dropping
  <2>4. RegistryInv'
    <3>1. {d \in Calls : pc'[d] \in Registered} = {d \in Calls : pc[d] \in Registered}
      BY <1>1, <2>1 DEF TypeOK, Registered, Dropping
    <3> QED
      BY <1>1, <3>1 DEF ProcessInv, RegistryInv
  <2>5. SlotInv'
    BY <1>1 DEF ProcessInv, SlotInv, TypeOK
  <2>6. LiveInv'
    BY <1>1, <2>2 DEF ProcessInv, LiveInv, Free, TypeOK
  <2> QED
    BY <1>1, <2>3, <2>4, <2>5, <2>6 DEF ProcessInv, NoStrangerIsKilled
<1>2. ASSUME NEW here \in {"polling", "checking", "ending"},
             NEW there \in {"polling", "checking", "ending", "killed"},
             pc[c] = here, pc' = [pc EXCEPT ![c] = there],
             UNCHANGED <<leader, members, owner, slot, groups, pid, taken, struck>>
      PROVE  ProcessInv'
  <2>1. \A d \in Calls : /\ pc'[d] \in Compiling <=> pc[d] \in Compiling
                         /\ pc'[d] \in Dropping <=> pc[d] \in Dropping
                         /\ pc'[d] \in Registered <=> pc[d] \in Registered
                         /\ pc'[d] = "stopped" <=> pc[d] = "stopped"
    BY <1>2 DEF TypeOK, Compiling, Dropping, Registered
  <2>2. OwnerInv'
    BY <1>2, <2>1 DEF ProcessInv, OwnerInv
  <2>3. RegistryInv'
    BY <1>2, <2>1 DEF ProcessInv, RegistryInv
  <2>4. SlotInv' /\ LiveInv'
    BY <1>2 DEF ProcessInv, SlotInv, LiveInv, Free, TypeOK, Compiling
  <2> QED
    BY <1>2, <2>2, <2>3, <2>4 DEF ProcessInv, NoStrangerIsKilled
<1>3. CASE TryWait(c)
  BY <1>1, <1>2, <1>3 DEF TryWait, Reap, Goto, os, registry
<1>4. CASE Check(c)
  BY <1>2, <1>4 DEF Check, Goto, os, registry
<1>5. CASE KillGroup(c)
  <2>1. /\ Kill({pid[c]}) /\ pc[c] = "ending" /\ pc' = [pc EXCEPT ![c] = "killed"]
        /\ UNCHANGED <<slot, groups, pid, taken>>
    BY <1>5 DEF KillGroup, Goto, registry, locals
  <2>2. pid[c] \in Pids /\ owner[pid[c]] # Stranger
    BY <2>1, OwnPid DEF Compiling
  <2>3. /\ struck' = 0 /\ owner' = owner
        /\ \A p \in Pids : leader'[p] = "free" <=> leader[p] = "free"
        /\ \A p \in Pids : members'[p] => members[p]
    BY <2>1, <2>2, KillCompilers DEF ProcessInv
  <2>4. \A d \in Calls : /\ pc'[d] \in Compiling <=> pc[d] \in Compiling
                         /\ pc'[d] \in Dropping <=> pc[d] \in Dropping
                         /\ pc'[d] \in Registered <=> pc[d] \in Registered
                         /\ pc'[d] = "stopped" <=> pc[d] = "stopped"
    BY <2>1 DEF TypeOK, Compiling, Dropping, Registered
  <2>5. OwnerInv'
    BY <2>1, <2>3, <2>4, OwnPid DEF ProcessInv, OwnerInv, Dropping
  <2>6. RegistryInv'
    BY <2>1, <2>4 DEF ProcessInv, RegistryInv
  <2>7. SlotInv' /\ LiveInv'
    BY <2>1, <2>3 DEF ProcessInv, SlotInv, LiveInv, Free, TypeOK, Compiling
  <2> QED
    BY <2>3, <2>5, <2>6, <2>7 DEF ProcessInv, NoStrangerIsKilled
<1>6. CASE Wait(c) \/ Abandon(c)
  BY <1>1, <1>6 DEF Wait, Abandon, Reap, Goto, registry
<1> QED
  BY <1>3, <1>4, <1>5, <1>6

\* The end of a call: the slot, the group, the registry, and only then the pid.
LEMMA DropKeeps ==
  ASSUME TypeOK, ProcessInv, SlotsAreOwn, NEW c \in Calls,
         TakeSlot(c) \/ StopGroup(c) \/ Unregister(c) \/ Finish(c)
  PROVE  ProcessInv'
<1>1. CASE TakeSlot(c)
  <2>1. /\ pc[c] = "dropping" /\ pc' = [pc EXCEPT ![c] = "taken"]
        /\ taken' = [taken EXCEPT ![c] = slot[SlotOf[c]]]
        /\ slot' = [slot EXCEPT ![SlotOf[c]] = NoPid]
        /\ UNCHANGED <<leader, members, owner, groups, pid, struck>>
    BY <1>1 DEF TakeSlot, Goto, os
  <2>2. OwnerInv' /\ LiveInv'
    BY <2>1 DEF ProcessInv, OwnerInv, LiveInv, Free, TypeOK, Compiling, Dropping
  <2>3. RegistryInv'
    <3>1. {d \in Calls : pc'[d] \in Registered} = {d \in Calls : pc[d] \in Registered}
      BY <2>1 DEF TypeOK, Registered, Dropping
    <3> QED
      BY <2>1, <3>1 DEF ProcessInv, RegistryInv
  <2>4. SlotInv'
    BY <2>1, SlotAssumption DEF ProcessInv, SlotInv, SlotsAreOwn, TypeOK
  <2> QED
    BY <2>1, <2>2, <2>3, <2>4 DEF ProcessInv, NoStrangerIsKilled
<1>2. CASE StopGroup(c)
  <2>1. /\ pc[c] = "taken" /\ pc' = [pc EXCEPT ![c] = "stopped"]
        /\ taken[c] = pid[c] /\ Kill({taken[c]} \ {NoPid})
        /\ UNCHANGED <<slot, groups, pid, taken>>
    BY <1>2 DEF StopGroup, Goto, registry, locals, ProcessInv, SlotInv
  <2>2. /\ pid[c] \in Pids /\ owner[pid[c]] = c /\ owner[pid[c]] # Stranger
        /\ \A d \in Calls : pc[d] \in Compiling \union Dropping /\ pid[d] = pid[c] => d = c
    BY <2>1, OwnPid DEF Dropping
  <2>3. {taken[c]} \ {NoPid} = {pid[c]}
    BY <2>1, <2>2, MarkAssumption
  <2>4. /\ struck' = 0 /\ owner' = owner
        /\ \A p \in Pids : leader'[p] = "free" <=> leader[p] = "free"
        /\ \A p \in Pids : members'[p] <=> (p # pid[c] /\ members[p])
    BY <2>1, <2>2, <2>3, KillCompilers DEF ProcessInv
  <2>5. OwnerInv'
    <3>1. \A d \in Calls : pc[d] \in Compiling \union Dropping => pid[d] \in Pids
      BY OwnPid
    <3> QED
      BY <2>1, <2>4, <3>1 DEF ProcessInv, OwnerInv, TypeOK, Compiling, Dropping
  <2>6. RegistryInv'
    <3>1. {d \in Calls : pc'[d] \in Registered} = {d \in Calls : pc[d] \in Registered}
      BY <2>1 DEF TypeOK, Registered, Dropping
    <3> QED
      BY <2>1, <3>1 DEF ProcessInv, RegistryInv
  <2>7. SlotInv'
    BY <2>1 DEF ProcessInv, SlotInv, TypeOK
  <2>8. LiveInv'
    <3>1. leader[pid[c]] = "free"
      BY <2>1 DEF ProcessInv, OwnerInv, Dropping
    <3> QED
      BY <2>1, <2>2, <2>4, <3>1 DEF ProcessInv, LiveInv, Free, TypeOK
  <2> QED
    BY <2>4, <2>5, <2>6, <2>7, <2>8 DEF ProcessInv, NoStrangerIsKilled
<1>3. CASE Unregister(c)
  <2>1. /\ pc[c] = "stopped" /\ pc' = [pc EXCEPT ![c] = "finished"]
        /\ taken[c] = pid[c] /\ groups' = groups \ {pid[c]}
        /\ UNCHANGED <<leader, members, owner, slot, pid, taken, struck>>
    BY <1>3 DEF Unregister, Goto, os, locals, ProcessInv, SlotInv
  <2>2. \A d \in Calls : pc[d] \in Compiling \union Dropping /\ pid[d] = pid[c] => d = c
    BY <2>1, OwnPid DEF Dropping
  <2>3. OwnerInv' /\ LiveInv'
    BY <2>1 DEF ProcessInv, OwnerInv, LiveInv, Free, TypeOK, Compiling, Dropping
  <2>4. RegistryInv'
    <3>1. {d \in Calls : pc'[d] \in Registered} = {d \in Calls : pc[d] \in Registered} \ {c}
      BY <2>1 DEF TypeOK, Registered, Dropping
    <3>2. \A d \in Calls : pc[d] \in Registered => pc[d] \in Compiling \union Dropping
      BY DEF Registered, Compiling
    <3> QED
      BY <2>1, <2>2, <3>1, <3>2 DEF ProcessInv, RegistryInv
  <2>5. SlotInv'
    BY <2>1 DEF ProcessInv, SlotInv, TypeOK
  <2> QED
    BY <2>1, <2>3, <2>4, <2>5 DEF ProcessInv, NoStrangerIsKilled
<1>4. CASE Finish(c)
  <2>1. /\ pc[c] = "finished" /\ pc' = [pc EXCEPT ![c] = "idle"]
        /\ pid' = [pid EXCEPT ![c] = NoPid] /\ taken' = [taken EXCEPT ![c] = NoPid]
        /\ UNCHANGED <<leader, members, owner, slot, groups, struck>>
    BY <1>4 DEF Finish, Goto, os, registry
  <2>2. OwnerInv'
    BY <2>1 DEF ProcessInv, OwnerInv, TypeOK, Compiling, Dropping
  <2>3. RegistryInv'
    <3>1. {d \in Calls : pc'[d] \in Registered} = {d \in Calls : pc[d] \in Registered}
      BY <2>1 DEF TypeOK, Registered, Dropping
    <3>2. \A d \in {e \in Calls : pc[e] \in Registered} : pid'[d] = pid[d]
      BY <2>1 DEF TypeOK, Registered, Dropping
    <3> QED
      BY <2>1, <3>1, <3>2 DEF ProcessInv, RegistryInv
  <2>4. SlotInv'
    BY <2>1 DEF ProcessInv, SlotInv, TypeOK
  <2>5. LiveInv'
    BY <2>1 DEF ProcessInv, LiveInv, Free, TypeOK, Compiling
  <2> QED
    BY <2>1, <2>2, <2>3, <2>4, <2>5 DEF ProcessInv, NoStrangerIsKilled
<1> QED
  BY <1>1, <1>2, <1>3, <1>4

LEMMA ProcessCorrect ==
  ASSUME Reuse = FALSE, SlotsAreOwn
  PROVE  Spec => []ProcessInv
<1>1. TypeOK /\ ProcessInv /\ [Next]_vars => ProcessInv'
  <2> SUFFICES ASSUME TypeOK, ProcessInv, [Next]_vars PROVE ProcessInv'
    OBVIOUS
  <2>1. ASSUME NEW c \in Calls, NeverStart(c) \/ Cancel(c) \/ TimeUp(c) \/ WriteTooMuch(c)
        PROVE  ProcessInv'
    BY <2>1, ProcessFrame DEF NeverStart, Cancel, TimeUp, WriteTooMuch, os, registry, locals
  <2>2. CASE UNCHANGED vars
    BY <2>2, ProcessFrame DEF vars
  <2> QED
    BY <2>1, <2>2, SystemKeeps, StartKeeps, PollKeeps, DropKeeps DEF Next, Running
<1> QED
  BY <1>1, InitProcess, TypesCorrect, PTL DEF Spec

----------------------------------------------------------------------------
(* Theorems.                                                               *)

\* Every variable has its type, whether or not the system gives out a pid too early
\* and slots are shared; so what a call reports is always one of its outcomes.
THEOREM ProcessTypes == Spec => []TypeOK
BY TypesCorrect, PTL

\* When a call returns, for whatever reason, neither its compiler nor a helper in its
\* group is left, alive or to be reaped (execute_cancellable_with_budget).
THEOREM CallsCleanUp ==
  ASSUME Reuse = FALSE, SlotsAreOwn
  PROVE  Spec => []NothingIsLeftBehind
<1>1. ProcessInv => NothingIsLeftBehind
  BY DEF ProcessInv, LiveInv, NothingIsLeftBehind
<1> QED
  BY <1>1, ProcessCorrect, PTL

\* Neither the end of a call nor the end of the host ever signals a process that is
\* not a compiler of a running call (stop_group, terminate_active_processes).
THEOREM StrangersAreSafe ==
  ASSUME Reuse = FALSE, SlotsAreOwn
  PROVE  Spec => []NoStrangerIsKilled
BY ProcessCorrect, PTL DEF ProcessInv
=============================================================================
