---------------------------- MODULE Publication ----------------------------
(***************************************************************************)
(* Publication of generations: under a lock, the files of a generation are *)
(* written to a staging directory, which is renamed to the digest of its   *)
(* files, and current.json is replaced by a rename.  Processes stop at any *)
(* point; consumers take no lock and verify what they read.  The lock does *)
(* not stop a person, who changes files of a generation at any moment.     *)
(*                                                                         *)
(* A generation is identified by the digest of its files, so the model     *)
(* identifies it by its files: a set of pairs of a name and bytes.         *)
(***************************************************************************)
EXTENDS Naturals

CONSTANTS
  Publishers, Readers,
  Nobody,       \* no process holds the lock
  Requests,     \* the outputs publishers ask to publish, as sequences of files
  FilesOf,      \* the files of each request
  Conflicting,  \* requests with two files of one name, or too many bytes
  Absent,       \* there is no directory of that name
  None,         \* current.json does not exist
  Wrong,        \* a file that somebody has changed
  MaxFaults, MaxTampering \* bounds on stops and on changed files

Generations == {FilesOf[r] : r \in Requests \ Conflicting}
Files == UNION Generations

ASSUME NobodyAssumption == Nobody \notin Publishers
ASSUME MarkAssumption ==
  /\ None \notin Generations
  /\ \A d \in SUBSET (Files \union {Wrong}) : d # Absent
ASSUME WrongAssumption == Wrong \notin Files
ASSUME RequestAssumption == Conflicting \subseteq Requests
ASSUME BoundAssumption == MaxFaults \in Nat /\ MaxTampering \in Nat

VARIABLES
  generations, \* the directories generations/<id>, by generation
  current,     \* current.json
  holder,      \* the publisher holding publication.lock
  pc,          \* where each publisher is
  request,     \* what it publishes
  staging,     \* the files in its staging directory
  litter,      \* staging directories of stopped processes
  rpc,         \* where each reader is
  reading,     \* the publication it has
  verified,    \* the files it has compared
  late,        \* generations changed since the publication at work checked or made its own
  faults, tampering

readerVars == <<rpc, reading, verified>>
counts == <<faults, tampering, late>>
publisherVars == <<pc, request, staging>>
vars == <<generations, current, holder, pc, request, staging, litter,
          rpc, reading, verified, faults, tampering, late>>

Init ==
  /\ generations = [g \in Generations |-> Absent]
  /\ current = None
  /\ holder = Nobody
  /\ pc = [p \in Publishers |-> "idle"]
  /\ request \in [Publishers -> Requests]
  /\ staging = [p \in Publishers |-> {}]
  /\ litter = 0
  /\ rpc = [r \in Readers |-> "idle"]
  /\ reading = [r \in Readers |-> {}]
  /\ verified = [r \in Readers |-> {}]
  /\ faults = 0 /\ tampering = 0 /\ late = {}

----------------------------------------------------------------------------
Goto(p, there) == pc' = [pc EXCEPT ![p] = there]

\* From here on, what is changed is changed late.
NothingLate == late' = {} /\ UNCHANGED <<faults, tampering>>

\* The generation p publishes.
Target(p) == FilesOf[request[p]]

ReturnDirty(p) == Goto(p, "idle") /\ holder' = Nobody /\ UNCHANGED staging \* Mutant: locals stay.

\* publish returns: its locals go, the lock and the staging directory among them.
Return(p) ==
  /\ Goto(p, "idle")
  /\ holder' = Nobody
  /\ staging' = [staging EXCEPT ![p] = {}]

LockAnyway(p) == holder' = p \* Mutant: the lock is not waited for.
Lock(p) == holder = Nobody /\ holder' = p

Start(p, r) ==
  /\ pc[p] = "idle"
  /\ Lock(p)
  /\ request' = [request EXCEPT ![p] = r]
  /\ Goto(p, "started")
  /\ NothingLate
  /\ UNCHANGED <<generations, current, staging, litter, readerVars>>

\* Two artifacts of one path, a bad name, or more bytes than allowed.
RefuseRequest(p) ==
  /\ pc[p] = "started"
  /\ request[p] \in Conflicting
  /\ Return(p)
  /\ UNCHANGED <<generations, current, request, litter, readerVars, counts>>

\* Mutant: a directory of the right name is enough.
Named(g) == generations[g] # Absent

\* verify: every file of g is there with its bytes.
Verified(g) == generations[g] # Absent /\ g \subseteq generations[g]

\* The files are compared one after another.  What is damaged stays damaged, so this is
\* as if all were compared together, with the first of them or when one differs.
Reuse(p) ==
  /\ pc[p] = "started"
  /\ request[p] \notin Conflicting
  /\ Verified(Target(p))
  /\ Goto(p, "stored")
  /\ NothingLate
  /\ UNCHANGED <<generations, current, holder, request, staging, litter, readerVars>>

RefuseDamaged(p) ==
  /\ pc[p] = "started"
  /\ request[p] \notin Conflicting
  /\ generations[Target(p)] # Absent
  /\ ~Verified(Target(p))
  /\ Return(p)
  /\ UNCHANGED <<generations, current, request, litter, readerVars, counts>>

StartStaging(p) ==
  /\ pc[p] = "started"
  /\ request[p] \notin Conflicting
  /\ generations[Target(p)] = Absent
  /\ Goto(p, "staging")
  /\ UNCHANGED <<generations, current, holder, request, staging, litter, readerVars, counts>>

\* Mutant: files are written where they belong.
WriteInPlace(p, f) ==
  /\ pc[p] = "staging"
  /\ f \in Target(p) \ staging[p]
  /\ staging' = [staging EXCEPT ![p] = @ \union {f}]
  /\ generations' = [generations EXCEPT ![Target(p)] = staging[p] \union {f}]
  /\ UNCHANGED <<current, holder, pc, request, litter, readerVars, counts>>

WriteFile(p, f) ==
  /\ pc[p] = "staging"
  /\ f \in Target(p) \ staging[p]
  /\ staging' = [staging EXCEPT ![p] = @ \union {f}]
  /\ UNCHANGED <<generations, current, holder, pc, request, litter, readerVars, counts>>

RenameGeneration(p) ==
  /\ pc[p] = "staging"
  /\ staging[p] = Target(p)
  /\ generations' = [generations EXCEPT ![Target(p)] = staging[p]]
  /\ staging' = [staging EXCEPT ![p] = {}]
  /\ Goto(p, "stored")
  /\ NothingLate
  /\ UNCHANGED <<current, holder, request, litter, readerVars>>

\* Mutant: what is selected is not what was stored.
PersistRequest(p) ==
  /\ pc[p] \in {"started", "stored"}
  /\ request[p] \notin Conflicting
  /\ current' = Target(p)
  /\ Goto(p, "selected")
  /\ UNCHANGED <<generations, holder, request, staging, litter, readerVars, counts>>

\* current.json is written beside itself and renamed.
Persist(p) ==
  /\ pc[p] = "stored"
  /\ current' = Target(p)
  /\ Goto(p, "selected")
  /\ UNCHANGED <<generations, holder, request, staging, litter, readerVars, counts>>

Succeed(p) ==
  /\ pc[p] = "selected"
  /\ Return(p)
  /\ UNCHANGED <<generations, current, request, litter, readerVars, counts>>

----------------------------------------------------------------------------
Busy(p) == pc[p] # "idle"

\* A file operation fails; an error removes the staging directory.
IoError(p) ==
  /\ Busy(p) /\ pc[p] # "selected"
  /\ faults < MaxFaults
  /\ faults' = faults + 1
  /\ Return(p)
  /\ UNCHANGED <<generations, current, request, litter, readerVars, tampering, late>>

\* The process stops; its staging directory stays.
Kill(p) ==
  /\ Busy(p)
  /\ faults < MaxFaults
  /\ faults' = faults + 1
  /\ Return(p)
  /\ litter' = litter + IF pc[p] = "staging" THEN 1 ELSE 0
  /\ UNCHANGED <<generations, current, request, readerVars, tampering, late>>

\* Somebody changes or removes a file of a generation.
Tamper(g, f) ==
  /\ tampering < MaxTampering
  /\ generations[g] # Absent
  /\ f \in generations[g]
  /\ \E left \in {{}, {Wrong}} :
       generations' = [generations EXCEPT ![g] = (@ \ {f}) \union left]
  /\ tampering' = tampering + 1
  /\ late' = late \union {g}
  /\ UNCHANGED <<current, holder, publisherVars, litter, readerVars, faults>>

----------------------------------------------------------------------------
\* Consumers, who take no lock.

ReadCurrent(r) ==
  /\ rpc[r] = "idle"
  /\ current # None
  /\ reading' = [reading EXCEPT ![r] = current]
  /\ verified' = [verified EXCEPT ![r] = {}]
  /\ rpc' = [rpc EXCEPT ![r] = "verifying"]
  /\ UNCHANGED <<generations, current, holder, publisherVars, litter, counts>>

\* A file of the publication is where it says it is.
Intact(r, f) == generations[reading[r]] # Absent /\ f \in generations[reading[r]]

CompareFile(r, f) ==
  /\ rpc[r] = "verifying"
  /\ f \in reading[r] \ verified[r]
  /\ Intact(r, f)
  /\ verified' = [verified EXCEPT ![r] = @ \union {f}]
  /\ UNCHANGED <<generations, current, holder, publisherVars, litter, rpc, reading, counts>>

RejectFile(r, f) ==
  /\ rpc[r] = "verifying"
  /\ f \in reading[r] \ verified[r]
  /\ ~Intact(r, f)
  /\ rpc' = [rpc EXCEPT ![r] = "rejected"]
  /\ UNCHANGED <<generations, current, holder, publisherVars, litter, reading,
                 verified, counts>>

EndReading(r) ==
  /\ rpc[r] = "rejected" \/ (rpc[r] = "verifying" /\ verified[r] = reading[r])
  /\ rpc' = [rpc EXCEPT ![r] = "idle"]
  /\ UNCHANGED <<generations, current, holder, publisherVars, litter, reading,
                 verified, counts>>

Step(p) ==
  \/ RefuseRequest(p) \/ Reuse(p) \/ RefuseDamaged(p) \/ StartStaging(p)
  \/ \E f \in Target(p) : WriteFile(p, f)
  \/ RenameGeneration(p) \/ Persist(p) \/ Succeed(p)

Next ==
  \/ \E p \in Publishers :
       \/ \E r \in Requests : Start(p, r)
       \/ Step(p) \/ IoError(p) \/ Kill(p)
  \/ \E g \in Generations : \E f \in g : Tamper(g, f)
  \/ \E r \in Readers :
       \/ ReadCurrent(r)
       \/ \E f \in reading[r] : CompareFile(r, f) \/ RejectFile(r, f)
       \/ EndReading(r)

Spec == Init /\ [][Next]_vars

----------------------------------------------------------------------------
\* Every variable has its type, and a staging directory only holds files of the
\* generation that is being staged.
TypeOK ==
  /\ generations \in [Generations -> {Absent} \union SUBSET (Files \union {Wrong})]
  /\ current \in Generations \union {None}
  /\ holder \in Publishers \union {Nobody}
  /\ pc \in [Publishers -> {"idle", "started", "staging", "stored", "selected"}]
  /\ request \in [Publishers -> Requests]
  /\ staging \in [Publishers -> SUBSET Files]
  /\ \A p \in Publishers : staging[p] \subseteq IF pc[p] = "staging" THEN Target(p) ELSE {}
  /\ litter \in Nat
  /\ rpc \in [Readers -> {"idle", "verifying", "rejected"}]
  /\ reading \in [Readers -> Generations \union {{}}]
  /\ verified \in [Readers -> SUBSET Files]
  /\ late \subseteq Generations
  /\ faults \in 0..MaxFaults /\ tampering \in 0..MaxTampering

\* A directory under generations/ has all the files its name is the digest of,
\* whatever was stopped while it was made: a publication that stopped can always
\* be repeated (publish).
NamedIsComplete ==
  tampering = 0 => \A g \in Generations : generations[g] \in {Absent, g}

\* A consumer that reads current.json at any moment and verifies it any time later,
\* through any number of publications and stops, finds every file (publish,
\* verify).
ConsumersFindEverything ==
  tampering = 0 => \A r \in Readers : rpc[r] # "rejected"

\* What a successful publish returns is what current.json names at that moment, two
\* publishers do not overtake one another; and it is complete, but for what was damaged
\* after it was checked or made (publish).
ReturnedIsSelected ==
  [][\A p \in Publishers :
       (pc[p] = "selected" /\ pc'[p] = "idle") =>
         current = Target(p) /\ (Verified(Target(p)) \/ Target(p) \in late)]_vars

\* A generation that was damaged before the publication came to it is never selected:
\* what is selected is whole, or was damaged between the check and the rename of
\* current.json, where publish does not look again (publish reusing a directory).
NeverSelectsDamaged ==
  [][current' # current => generations'[current'] = current' \/ current' \in late]_vars

\* The generations and current.json are a store in which generations appear whole,
\* stay unless somebody damages them, and are selected after they were found whole.
Store == INSTANCE GenerationStore WITH
  available <- {g \in Generations : generations[g] = g},
  selected <- current,
  checked <- IF holder # Nobody /\ pc[holder] = "stored" THEN Target(holder) ELSE None,
  Damages <- MaxTampering > 0

ImplementsStore == Store!StoreSpec
=============================================================================
