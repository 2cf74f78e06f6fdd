--------------------------- MODULE SignedCatalog ---------------------------
(***************************************************************************)
(* The signed Plugin catalog and the way of a Release from it to a Plugin  *)
(* Root: a consumer with a durable checkpoint verifies what a mirror       *)
(* serves, selects a Release, downloads its archive, extracts it to a      *)
(* private directory and prepares its installation.  A mirror serves any   *)
(* snapshot the publisher ever signed, also two of one revision, and       *)
(* snapshots of others; an archive server answers as it likes.  The        *)
(* consumer is a program of the library's user: it persists the checkpoint *)
(* with the accepted snapshot and may be killed at any moment.             *)
(***************************************************************************)
EXTENDS Naturals, FiniteSets

CONSTANTS
  Releases,     \* <plugin id>@<version>
  Archives,     \* archive bytes; their digest and size
  Holds,        \* the Bundle in each archive: the digest of its manifest
  Identities,   \* [archive, manifest] pairs a publisher names for a Release
  Envelopes,    \* [snapshot, signed]: what a mirror may serve
  MaxTime,
  MaxValidity,  \* MAX_VALIDITY_SECONDS
  MaxAccepted,
  MaxTampers,
  None,
  Damaged       \* a directory that is no valid Bundle

Availability == {"listed", "yanked", "revoked"}
Entries == [identity: Identities, availability: Availability]
Snapshots == [catalog: {"ours", "other"}, revision: Nat, issuedAt: Nat, expiresAt: Nat,
              releases: [Releases -> Entries \union {None}]]
Manifests == {Holds[a]: a \in Archives}

VARIABLES
  now,         \* the consumer's clock, which may be set back
  checkpoint,  \* durable: the last accepted snapshot and the identities so far
  held,        \* in memory: the VerifiedSnapshot to select from
  accepted,    \* every snapshot accepted so far
  selected,    \* the Release that is being installed and what it was selected from
  archive,     \* the private copy of the archive
  directory,   \* its extraction, whose path the consumer may give away
  installed,   \* the Bundle that was committed, by Release
  tampers

vars == <<now, checkpoint, held, accepted, selected, archive, directory, installed, tampers>>

TypeOK ==
  /\ now \in 0..MaxTime
  /\ checkpoint \in {None} \union
       [snapshot: accepted, identities: [Releases -> Identities \union {None}]]
  /\ held \in accepted \union {None}
  /\ accepted \subseteq Snapshots
  /\ selected \in {None} \union [release: Releases, identity: Identities, revision: Nat]
  /\ archive \in Archives \union {None}
  /\ directory \in Manifests \union {None, Damaged}
  /\ installed \in [Releases -> Manifests \union {None}]
  /\ tampers \in 0..MaxTampers

Init ==
  /\ now = 0 /\ checkpoint = None /\ held = None /\ accepted = {}
  /\ selected = None /\ archive = None /\ directory = None
  /\ installed = [r \in Releases |-> None]
  /\ tampers = 0

-----------------------------------------------------------------------------
(* Verification of an envelope against the checkpoint.                      *)

\* Snapshot::validate, which signing and verification both ask for.
Valid(s) ==
  /\ s.revision > 0
  /\ s.expiresAt > s.issuedAt /\ s.expiresAt - s.issuedAt <= MaxValidity

\* release_identities: what was published once keeps its bytes for good, also
\* when a snapshot in between did not list it.
Known(previous) ==
  IF previous = None THEN [r \in Releases |-> None] ELSE previous.identities
SameIdentities(s, previous) ==
  \A r \in Releases:
    s.releases[r] # None => Known(previous)[r] \in {None, s.releases[r].identity}
\* Mutant: only the Releases of the last snapshot are remembered.
IdentitiesOf(s, previous) ==
  [r \in Releases |-> IF s.releases[r] = None THEN None ELSE s.releases[r].identity]

IdentitiesWith(s, previous) ==
  [r \in Releases |-> IF s.releases[r] = None THEN Known(previous)[r]
                                               ELSE s.releases[r].identity]

\* Neither back to an earlier revision nor to another snapshot of the last one.
Follows(s, previous) ==
  previous # None =>
    /\ s.catalog = previous.snapshot.catalog
    /\ s.revision >= previous.snapshot.revision
    /\ s.revision = previous.snapshot.revision => s = previous.snapshot

\* verify_for_browse: an expired snapshot passes, one of the future does not.
Browsable(s, signed, previous, time) ==
  /\ signed /\ Valid(s) /\ s.catalog = "ours"
  /\ s.issuedAt <= time
  /\ SameIdentities(s, previous) /\ Follows(s, previous)

Stale(s, time) == time >= s.expiresAt
Verified(s, signed, previous, time) == Browsable(s, signed, previous, time) /\ ~Stale(s, time)

-----------------------------------------------------------------------------
(* The consumer fetches: a snapshot that verifies becomes the checkpoint    *)
(* and is held to select from; one that only browses becomes the            *)
(* checkpoint, and what was held before it is dropped.                      *)

Checkpointed(s) ==
  /\ s \in accepted \/ Cardinality(accepted) < MaxAccepted
  /\ accepted' = accepted \union {s}
  /\ checkpoint' = [snapshot |-> s, identities |-> IdentitiesWith(s, checkpoint)]
  /\ UNCHANGED <<now, selected, archive, directory, installed, tampers>>

Fetch ==
  \E e \in Envelopes:
    /\ Verified(e.snapshot, e.signed, checkpoint, now)
    /\ held' = e.snapshot
    /\ Checkpointed(e.snapshot)

Browse ==
  \E e \in Envelopes:
    /\ Browsable(e.snapshot, e.signed, checkpoint, now) /\ Stale(e.snapshot, now)
    /\ held' = None
    /\ Checkpointed(e.snapshot)

\* VerifiedSnapshot::select: fresh when it is used, not only when it came.
Selectable(s, r, time) ==
  /\ time >= s.issuedAt /\ ~Stale(s, time)
  /\ s.releases[r] # None /\ s.releases[r].availability = "listed"

Select ==
  \E r \in Releases:
    /\ held # None /\ selected = None
    /\ Selectable(held, r, now)
    /\ selected' = [release |-> r, identity |-> held.releases[r].identity,
                    revision |-> held.revision]
    /\ UNCHANGED <<now, checkpoint, held, accepted, archive, directory, installed, tampers>>

-----------------------------------------------------------------------------
(* download_release and read_release. Where the URL leads is checked before  *)
(* the request and when its host is looked up; the answer has a status, an   *)
(* encoding, a length and a body, whose size and digest count.               *)

Responses == [origin: {"admitted", "another"}, addresses: {"none", "public", "also private"},
              status: {200, 302}, encoded: BOOLEAN, length: {"none", "same", "other"},
              body: Archives \union {Damaged}]

Reachable(response) == response.origin = "admitted" /\ response.addresses = "public"

Admitted(response, identity) ==
  /\ Reachable(response)
  /\ response.status = 200 /\ ~response.encoded /\ response.length # "other"
  /\ response.body = identity.archive
  /\ Holds[response.body] = identity.manifest

Download ==
  \E response \in Responses:
    /\ selected # None /\ archive = None
    /\ Admitted(response, selected.identity)
    /\ archive' = response.body
    /\ directory' = Holds[response.body]
    /\ UNCHANGED <<now, checkpoint, held, accepted, selected, installed, tampers>>

GiveUp ==
  /\ selected # None
  /\ selected' = None /\ archive' = None /\ directory' = None
  /\ UNCHANGED <<now, checkpoint, held, accepted, installed, tampers>>

\* VerifiedPluginArchive::prepare_mutation copies the directory to staging,
\* verifies the copy as a Bundle and compares it with the archive's Bundle,
\* then the caller commits what was staged (PluginStore).
StagedIsArchive(staged) == staged = Holds[archive]

Install ==
  /\ archive # None
  /\ directory # Damaged /\ StagedIsArchive(directory)
  /\ installed' = [installed EXCEPT ![selected.release] = directory]
  /\ selected' = None /\ archive' = None /\ directory' = None
  /\ UNCHANGED <<now, checkpoint, held, accepted, tampers>>

-----------------------------------------------------------------------------
\* Someone writes another Bundle, or half of one, to the exposed directory.
Tamper ==
  /\ archive # None /\ tampers < MaxTampers
  /\ tampers' = tampers + 1
  /\ directory' \in (Manifests \union {Damaged}) \ {directory}
  /\ UNCHANGED <<now, checkpoint, held, accepted, selected, archive, installed>>

SetClock ==
  /\ now' \in 0..MaxTime
  /\ now' # now
  /\ UNCHANGED <<checkpoint, held, accepted, selected, archive, directory, installed, tampers>>

\* A killed consumer keeps its checkpoint and the snapshot persisted with it,
\* which it verifies again when it comes back.
Restart ==
  /\ held' = IF checkpoint # None /\ Verified(checkpoint.snapshot, TRUE, checkpoint, now)
             THEN checkpoint.snapshot ELSE None
  /\ selected' = None /\ archive' = None /\ directory' = None
  /\ UNCHANGED <<now, checkpoint, accepted, installed, tampers>>

Next ==
  \/ Fetch \/ Browse \/ Select \/ Download \/ GiveUp \/ Install
  \/ Tamper \/ SetClock \/ Restart

Spec == Init /\ [][Next]_vars

-----------------------------------------------------------------------------
\* What a consumer has accepted, over its whole life, is one history: one
\* snapshot per revision and one identity per Release, also of a Release that
\* was unlisted for a while.
AcceptedIsOneHistory ==
  \A s, t \in accepted:
    /\ s.revision = t.revision => s = t
    /\ \A r \in Releases:
         s.releases[r] # None /\ t.releases[r] # None
           => s.releases[r].identity = t.releases[r].identity

\* A Release is selected from the newest snapshot the consumer ever accepted,
\* and not once that snapshot has expired: a mirror that falls back, an outage
\* and a restart do not bring a withdrawn Release back.
SelectsFromTheNewest ==
  [][selected = None /\ selected' # None =>
       /\ \A s \in accepted: s.revision <= selected'.revision
       /\ \E s \in accepted: /\ s.revision = selected'.revision
                             /\ now < s.expiresAt
                             /\ s.releases[selected'.release] # None
                             /\ s.releases[selected'.release].availability = "listed"]_vars

\* What is installed for a Release is the Bundle that an accepted snapshot
\* names for it, whatever was served or written on the way.
InstalledAsSigned ==
  \A r \in Releases: installed[r] # None =>
    \E s \in accepted: s.releases[r] # None /\ s.releases[r].identity.manifest = installed[r]

\* The snapshot a consumer persisted passes verification against its own
\* checkpoint: it can always be read again, unless the clock went back.
CheckpointReadsBack ==
  checkpoint # None /\ checkpoint.snapshot.issuedAt <= now
    => Browsable(checkpoint.snapshot, TRUE, checkpoint, now)
=============================================================================
