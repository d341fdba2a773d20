----------------------------- MODULE ModelInstall -----------------------------
(***************************************************************************)
(* The installation of the recommended local model                         *)
(* (recommended_model_install/): a resumable download of its assets into a *)
(* staging directory, their verification, the promotion of the directory   *)
(* to the canonical one, the activation of the package in the settings and *)
(* the provider store (recommended_model_activation.rs), and the commands  *)
(* that start, cancel and discard an installation.                         *)
(*                                                                         *)
(* There is one destination.  The commands run one at a time on the main   *)
(* thread, next to one job; between any two awaits, renames and saves of   *)
(* the job a command may run or the process may die.  An asset is Size     *)
(* chunks, and a chunk is known by the version of the remote file it comes *)
(* from: only the chunks of the release have the digest of the manifest.   *)
(***************************************************************************)
EXTENDS Naturals, Sequences

CONSTANTS
    AssetCount,     \* the assets of the manifest
    Size,           \* the chunks of an asset
    Versions,       \* the versions of the remote files
    Release,        \* the one of the manifest
    MaxRetries,     \* MAX_RETRIES
    MaxStarts,      \* how often the user starts an installation
    MaxCrashes,     \* how often the process dies
    MaxTouches      \* how often the world changes files, settings or servers

ASSUME InstallAssumption ==
    /\ AssetCount \in Nat \ {0} /\ Size \in Nat \ {0} /\ MaxRetries \in Nat \ {0}
    /\ Release \in Versions /\ {"none", "damaged"} \cap Versions = {}
    /\ MaxStarts \in Nat /\ MaxCrashes \in Nat /\ MaxTouches \in Nat

Assets == 1..AssetCount

\* A validator; the server may send none, and "none" is no validator.
Tags == Versions \union {"none"}

VARIABLES
    disk,           \* install-state.json
    mem,            \* runtime.journal, and the journal of the job
    active,         \* runtime.active
    cancel,         \* the cancellation flag: "no", or when it was set
    job,            \* the job: its step and its local variables
    part,           \* the .part files in staging, <<>> when missing or empty
    done,           \* the completed files in staging, <<>> when missing
    pkg,            \* the canonical package directory
    settings,       \* the model directory and the default model
    provider,       \* the provider record lists the model as verified
    server,         \* the version that the server has
    stamp,          \* the last identity given to a package directory
    removed,        \* an unfinished installation's package was deleted by hand
    starts, crashes, touches

staging == <<part, done>>
activation == <<settings, provider>>
world == <<server, stamp, removed, touches>>
vars == <<disk, mem, active, cancel, job, staging, pkg, activation, world, starts, crashes>>

NoConfig == [root |-> "none", model |-> "none"]
NoReceipt == [bound |-> 0, hashed |-> 0]
NoFiles == [a \in Assets |-> <<>>]
NoPackage == [there |-> FALSE, files |-> NoFiles, shape |-> FALSE, stamp |-> 0]

\* InstallJournal::new
NewJournal == [there |-> TRUE, phase |-> "Absent", etag |-> [a \in Assets |-> "none"],
               prev |-> NoConfig, receipt |-> NoReceipt]

Idle == [pc |-> "idle", at |-> 1, tries |-> 0, tag |-> "none", src |-> Release,
         hashed |-> 0, bound |-> 0, was |-> "none"]

Init ==
    /\ disk = [NewJournal EXCEPT !.there = FALSE] /\ mem = disk
    /\ active = FALSE /\ cancel = "no" /\ job = Idle
    /\ part = NoFiles /\ done = NoFiles /\ pkg = NoPackage
    /\ settings = [root |-> "old", model |-> "old"] /\ provider = FALSE
    /\ server = Release /\ stamp = 0 /\ removed = FALSE
    /\ starts = 0 /\ crashes = 0 /\ touches = 0

-----------------------------------------------------------------------------
(* Journal, progress and the end of a job                                  *)

\* save_journal and store_shared_progress
Save(j) == disk' = j /\ mem' = j

\* transition_shared
Transition(phase) == Save([mem EXCEPT !.phase = phase])

\* run_install: both ends of a job; the last save of a failed one may fail.
End(j, saved) ==
    /\ mem' = j
    /\ disk' = IF saved THEN j ELSE disk
    /\ active' = FALSE /\ cancel' = "no" /\ job' = Idle

\* The phase after an error, which has no receipt.
Failure == IF pkg.there THEN "RepairRequired" ELSE "Failed"
EndWith(phase) == \E saved \in BOOLEAN : End([mem EXCEPT !.phase = phase], saved)

At(step) == active /\ job.pc = step
GoTo(step) == job' = [job EXCEPT !.pc = step]

Genuine(file) == file = [i \in 1..Size |-> Release]

\* canonical_package_entry_exists decides whether there is a package to adopt.
Choose ==
    /\ At("choose")
    /\ IF pkg.there THEN Transition("Verifying") /\ GoTo("hash_package")
                    ELSE UNCHANGED <<disk, mem>> /\ GoTo("asset")
    /\ UNCHANGED <<active, cancel, staging, pkg, activation, world, starts, crashes>>

-----------------------------------------------------------------------------
(* download_one_asset                                                      *)

\* The check for a cancellation ahead of every asset.
NextAsset ==
    /\ At("asset")
    /\ IF job.at > AssetCount
       THEN Transition("Verifying") /\ GoTo("verify") /\ UNCHANGED <<active, cancel>>
       ELSE IF cancel /= "no" THEN EndWith("Cancelled")
       ELSE GoTo("reuse") /\ UNCHANGED <<disk, mem, active, cancel>>
    /\ UNCHANGED <<staging, pkg, activation, world, starts, crashes>>

\* reuse_verified_asset: a complete file is hashed, not fetched again.  A
\* sealed one that is wrong is an error, a partial one is removed.
ReuseVerifiedAsset ==
    LET a == job.at
        found == done[a] /= <<>> \/ Len(part[a]) = Size
        file == IF done[a] /= <<>> THEN done[a] ELSE part[a]
    IN  /\ At("reuse")
        /\ found /\ done[a] /= <<>> => Genuine(file)
        /\ IF found /\ Genuine(file)
           THEN /\ job' = [job EXCEPT !.pc = "asset", !.at = a + 1]
                /\ UNCHANGED <<disk, mem, part>>
           ELSE /\ part' = IF found THEN [part EXCEPT ![a] = <<>>] ELSE part
                /\ Transition("Downloading")
                /\ job' = [job EXCEPT !.pc = "attempt", !.tries = 0, !.tag = mem.etag[a]]
        /\ UNCHANGED <<active, cancel, done, pkg, activation, world, starts, crashes>>

\* The head of the retry loop (and the end of cancellable_backoff), then
\* normalize_partial_for_attempt: without a validator the bytes are dropped.
Attempt ==
    /\ At("attempt")
    /\ IF cancel /= "no" THEN EndWith("Cancelled") /\ UNCHANGED part
       ELSE /\ part' = IF job.tag = "none" THEN [part EXCEPT ![job.at] = <<>>] ELSE part
            /\ GoTo("request")
            /\ UNCHANGED <<disk, mem, active, cancel>>
    /\ UNCHANGED <<done, pkg, activation, world, starts, crashes>>

\* prepare_response, 200: the body is the whole file.
RespondFull(t) ==
    /\ At("request")
    /\ part' = [part EXCEPT ![job.at] = <<>>]
    /\ job' = [job EXCEPT !.pc = "stream", !.tag = t, !.src = server]
    /\ UNCHANGED <<disk, mem, active, cancel, done, pkg, activation, world, starts, crashes>>

\* validate_partial_response, 206 under the validator that was asked for.  What
\* the server sends is its word: the bytes may be of another version.
RespondRange ==
    /\ At("request") /\ Len(part[job.at]) \in 1..Size - 1
    /\ job' = [job EXCEPT !.pc = "stream", !.src = server]
    /\ UNCHANGED <<disk, mem, active, cancel, staging, pkg, activation, world, starts, crashes>>

Retry == job.tries + 1 < MaxRetries /\ job' = [job EXCEPT !.pc = "attempt", !.tries = @ + 1]

\* A 206 for another range or under another validator.
RespondForeign ==
    /\ At("request") /\ part[job.at] /= <<>> /\ Retry
    /\ part' = [part EXCEPT ![job.at] = <<>>]
    /\ UNCHANGED <<disk, mem, active, cancel, done, pkg, activation, world, starts, crashes>>

\* A retryable error: no answer, a server error, a silence, a short body, a
\* file that cannot be read back to be hashed.
AttemptFails ==
    /\ job.pc \in {"request", "chunk", "hash"} /\ active /\ Retry
    /\ UNCHANGED <<disk, mem, active, cancel, staging, pkg, activation, world, starts, crashes>>

\* Mutant of Stream: the flag is not looked at while bytes arrive.
StreamOn ==
    /\ At("stream") /\ GoTo("chunk")
    /\ UNCHANGED <<disk, mem, active, cancel, staging, pkg, activation, world, starts, crashes>>

\* stream_response_to_partial: the check ahead of every read.
Stream ==
    /\ At("stream")
    /\ IF cancel /= "no" THEN EndWith("Cancelled")
                         ELSE GoTo("chunk") /\ UNCHANGED <<disk, mem, active, cancel>>
    /\ UNCHANGED <<staging, pkg, activation, world, starts, crashes>>

\* A chunk is written, and the progress callback notes the validator; it saves
\* the journal now and then (JOURNAL_PROGRESS_INTERVAL_BYTES).
Chunk(saved) ==
    LET a == job.at IN
    /\ At("chunk") /\ Len(part[a]) < Size
    /\ part' = [part EXCEPT ![a] = Append(@, job.src)]
    /\ mem' = [mem EXCEPT !.etag[a] = job.tag]
    /\ disk' = IF saved THEN mem' ELSE disk
    /\ GoTo("stream")
    /\ UNCHANGED <<active, cancel, done, pkg, activation, world, starts, crashes>>

\* The body ends with the last byte of the asset.
StreamEnds ==
    /\ At("chunk") /\ Len(part[job.at]) = Size
    /\ GoTo("hash")
    /\ UNCHANGED <<disk, mem, active, cancel, staging, pkg, activation, world, starts, crashes>>

\* download_attempt: verify_asset_file; what does not match is removed.
HashPartial ==
    LET a == job.at IN
    /\ At("hash")
    /\ IF Genuine(part[a])
       THEN /\ Save([mem EXCEPT !.etag[a] = job.tag])
            /\ job' = [job EXCEPT !.pc = "asset", !.at = a + 1]
            /\ UNCHANGED <<active, cancel, part>>
       ELSE part' = [part EXCEPT ![a] = <<>>] /\ EndWith(Failure)
    /\ UNCHANGED <<done, pkg, activation, world, starts, crashes>>

-----------------------------------------------------------------------------
(* The package                                                             *)

\* verify_staging_assets
VerifyStaging ==
    /\ At("verify")
    /\ \A a \in Assets : Genuine(IF done[a] /= <<>> THEN done[a] ELSE part[a])
    /\ job' = [job EXCEPT !.pc = "seal", !.at = 1]
    /\ UNCHANGED <<disk, mem, active, cancel, staging, pkg, activation, world, starts, crashes>>

\* seal_staging_assets: one rename after the other.
SealAsset ==
    LET a == job.at IN
    /\ At("seal")
    /\ done' = IF done[a] /= <<>> THEN done ELSE [done EXCEPT ![a] = part[a]]
    /\ part' = IF done[a] /= <<>> THEN part ELSE [part EXCEPT ![a] = <<>>]
    /\ IF a < AssetCount THEN job' = [job EXCEPT !.at = a + 1] /\ UNCHANGED <<disk, mem>>
                         ELSE Transition("Inspecting") /\ GoTo("inspect")
    /\ UNCHANGED <<active, cancel, pkg, activation, world, starts, crashes>>

\* inspect_package accepts the staged files.
InspectStaging ==
    /\ At("inspect")
    /\ Transition("Promoting") /\ GoTo("promote")
    /\ UNCHANGED <<active, cancel, staging, pkg, activation, world, starts, crashes>>

\* promote_staging: the directory is renamed as a whole, onto nothing.
PromoteStaging ==
    /\ At("promote") /\ ~pkg.there
    /\ stamp' = stamp + 1
    /\ pkg' = [there |-> TRUE, files |-> done, shape |-> TRUE, stamp |-> stamp']
    /\ done' = NoFiles
    /\ job' = [job EXCEPT !.pc = "bind", !.hashed = stamp']
    /\ UNCHANGED <<disk, mem, active, cancel, part, activation, server, removed, touches, starts,
                   crashes>>

\* verify_exact_package
VerifyExactPackage ==
    /\ At("hash_package")
    /\ pkg.there /\ pkg.shape /\ \A a \in Assets : Genuine(pkg.files[a])
    /\ Transition("Inspecting")
    /\ job' = [job EXCEPT !.pc = "inspect_package", !.hashed = pkg.stamp]
    /\ UNCHANGED <<active, cancel, staging, pkg, activation, world, starts, crashes>>

InspectPackage ==
    /\ At("inspect_package") /\ GoTo("bind")
    /\ UNCHANGED <<disk, mem, active, cancel, staging, pkg, activation, world, starts, crashes>>

-----------------------------------------------------------------------------
(* finalize_install and finalize_recommended_model                         *)

\* Mutant of Previous: every attempt takes a snapshot of its own.
PreviousNow == settings

\* The configuration to go back to is the one before the first attempt.
Previous == IF mem.prev = NoConfig THEN settings ELSE mem.prev

\* The identity of the package, and the snapshot of the settings.
Bind ==
    /\ At("bind") /\ pkg.there /\ pkg.shape
    /\ IF Previous = mem.prev THEN UNCHANGED <<disk, mem>>
                              ELSE Save([mem EXCEPT !.prev = Previous])
    /\ job' = [job EXCEPT !.pc = "configure", !.bound = pkg.stamp]
    /\ UNCHANGED <<active, cancel, staging, pkg, activation, world, starts, crashes>>

Configure ==
    /\ At("configure")
    /\ Transition("Configuring") /\ GoTo("root")
    /\ UNCHANGED <<active, cancel, staging, pkg, activation, world, starts, crashes>>

\* commit_verified_local_model_directory
CommitRoot ==
    /\ At("root")
    /\ settings' = [settings EXCEPT !.root = "new"] /\ GoTo("model")
    /\ UNCHANGED <<disk, mem, active, cancel, staging, pkg, provider, world, starts, crashes>>

\* set_default_prewarmed_model: the model resolves and is written.
CommitModel ==
    /\ At("model")
    /\ settings' = [settings EXCEPT !.model = "new"]
    /\ job' = [job EXCEPT !.pc = "prepare", !.was = settings.model]
    /\ UNCHANGED <<disk, mem, active, cancel, staging, pkg, provider, world, starts, crashes>>

\* It is prepared, or not: then rollback_default_prewarmed_model is tried.
PrepareModel(works) ==
    /\ At("prepare")
    /\ GoTo(IF works THEN "provider" ELSE "restore")
    /\ settings' \in IF works THEN {settings}
                     ELSE {settings, [settings EXCEPT !.model = job.was]}
    /\ UNCHANGED <<disk, mem, active, cancel, staging, pkg, provider, world, starts, crashes>>

\* save_provider
SaveProvider ==
    /\ At("provider")
    /\ provider' = TRUE /\ GoTo("ready")
    /\ UNCHANGED <<disk, mem, active, cancel, staging, pkg, settings, world, starts, crashes>>

ActivationFails ==
    /\ job.pc \in {"model", "provider"} /\ active /\ GoTo("restore")
    /\ UNCHANGED <<disk, mem, active, cancel, staging, pkg, activation, world, starts, crashes>>

\* restore_previous_settings, which may fail as well; then the error is returned.
RestorePrevious ==
    /\ At("restore")
    /\ settings' \in {settings, mem.prev}
    /\ EndWith(Failure)
    /\ UNCHANGED <<staging, pkg, provider, world, starts, crashes>>

\* The package is still the one that was bound: the receipt is saved.
Ready ==
    /\ At("ready")
    /\ pkg.there /\ pkg.shape /\ pkg.stamp = job.bound
    /\ End([mem EXCEPT !.phase = "Ready",
                       !.receipt = [bound |-> job.bound, hashed |-> job.hashed]], TRUE)
    /\ UNCHANGED <<staging, pkg, activation, world, starts, crashes>>

\* Any other error of a step, before its effect.
StepFails ==
    /\ active /\ job.pc \notin {"model", "prepare", "provider", "restore"}
    /\ EndWith(Failure)
    /\ UNCHANGED <<staging, pkg, activation, world, starts, crashes>>

-----------------------------------------------------------------------------
(* The commands                                                            *)

\* remaining_download_bytes is zero.
Complete == pkg.there \/ \A a \in Assets : Len(done[a]) = Size \/ Len(part[a]) = Size

Start ==
    LET base == IF mem.there THEN mem ELSE NewJournal IN
    /\ ~active /\ starts < MaxStarts
    /\ Save([base EXCEPT !.prev = IF base.phase = "Ready" THEN NoConfig ELSE base.prev,
                         !.receipt = NoReceipt,
                         !.phase = IF Complete THEN "Verifying" ELSE "Downloading"])
    /\ active' = TRUE /\ job' = [Idle EXCEPT !.pc = "choose"]
    /\ starts' = starts + 1
    /\ UNCHANGED <<cancel, staging, pkg, activation, world, crashes>>

\* A cancellation the job is going to look for: it is on its way to one of its
\* checks, with an asset left to fetch.
InTime ==
    \/ job.pc = "choose" /\ ~pkg.there
    \/ job.pc = "asset" /\ job.at <= AssetCount
    \/ job.pc \in {"attempt", "request", "stream"}
    \/ job.pc \in {"reuse", "hash"} /\ job.at < AssetCount
    \/ job.pc = "chunk" /\ (job.at < AssetCount \/ Len(part[job.at]) < Size)

Cancel ==
    /\ active /\ cancel = "no"
    /\ cancel' = IF InTime THEN "in_time" ELSE "late"
    /\ UNCHANGED <<disk, mem, active, job, staging, pkg, activation, world, starts, crashes>>

\* discard: neither a ready nor a promoted package.  If the journal cannot be
\* saved the files are gone all the same.
Discard(saved) ==
    /\ ~active /\ mem.there
    /\ mem.phase /= "Ready" /\ ~pkg.there
    /\ part' = NoFiles /\ done' = NoFiles
    /\ IF saved THEN Save(NewJournal) ELSE UNCHANGED <<disk, mem>>
    /\ UNCHANGED <<active, cancel, job, pkg, activation, world, starts, crashes>>

\* The process dies, and load_journal is all that the next one knows.
Restart ==
    /\ crashes < MaxCrashes
    /\ crashes' = crashes + 1
    /\ mem' = disk /\ active' = FALSE /\ cancel' = "no" /\ job' = Idle
    /\ UNCHANGED <<disk, staging, pkg, activation, world, starts>>

-----------------------------------------------------------------------------
(* The world                                                               *)

Touch == touches < MaxTouches /\ touches' = touches + 1

\* The user chooses another directory or another model.
UserChooses(field) ==
    /\ Touch
    /\ settings' = [settings EXCEPT ![field] = "user"]
    /\ UNCHANGED <<disk, mem, active, cancel, job, staging, pkg, provider, server, stamp, removed,
                   starts, crashes>>

\* Another program writes a file of the package, and perhaps changes its length:
\* the metadata that package_identity_sha256 is made of changes with it.
PackageChanges(a, shape) ==
    /\ pkg.there /\ Touch
    /\ stamp' = stamp + 1
    /\ pkg' = [pkg EXCEPT !.files[a] = [i \in 1..Size |-> "damaged"],
                          !.shape = shape /\ pkg.shape, !.stamp = stamp']
    /\ UNCHANGED <<disk, mem, active, cancel, job, staging, activation, server, removed, starts,
                   crashes>>

PackageRemoved ==
    /\ pkg.there /\ ~active /\ Touch
    /\ pkg' = NoPackage
    /\ removed' = (removed \/ mem.phase /= "Ready")
    /\ UNCHANGED <<disk, mem, active, cancel, job, staging, activation, server, stamp, starts,
                   crashes>>

ServerChanges(v) ==
    /\ Touch /\ server /= v /\ server' = v
    /\ UNCHANGED <<disk, mem, active, cancel, job, staging, pkg, activation, stamp, removed,
                   starts, crashes>>

-----------------------------------------------------------------------------
JobStep ==
    \/ Choose \/ NextAsset \/ ReuseVerifiedAsset \/ Attempt
    \/ \E t \in Tags : RespondFull(t)
    \/ RespondRange \/ RespondForeign \/ AttemptFails \/ Stream
    \/ \E saved \in BOOLEAN : Chunk(saved)
    \/ StreamEnds \/ HashPartial
    \/ VerifyStaging \/ SealAsset \/ InspectStaging \/ PromoteStaging
    \/ VerifyExactPackage \/ InspectPackage
    \/ Bind \/ Configure \/ CommitRoot \/ CommitModel
    \/ \E works \in BOOLEAN : PrepareModel(works)
    \/ SaveProvider \/ ActivationFails \/ RestorePrevious \/ Ready \/ StepFails

Next ==
    \/ JobStep
    \/ Start \/ Cancel \/ Restart
    \/ \E saved \in BOOLEAN : Discard(saved)
    \/ \E field \in {"root", "model"} : UserChooses(field)
    \/ \E a \in Assets, shape \in BOOLEAN : PackageChanges(a, shape)
    \/ PackageRemoved
    \/ \E v \in Versions : ServerChanges(v)

Spec == Init /\ [][Next]_vars

-----------------------------------------------------------------------------
(* What state() shows                                                      *)

\* Mutant of PackageIdentityMatches: a package of the right shape is the one
\* that was installed.
PackageShapeMatches == pkg.there /\ pkg.shape

PackageIdentityMatches == pkg.there /\ pkg.shape /\ mem.receipt.bound = pkg.stamp

\* project_idle_state
PackageState ==
    CASE pkg.there /\ pkg.shape /\ mem.phase = "Ready" /\ PackageIdentityMatches -> "Ready"
      [] pkg.there /\ pkg.shape /\ ~(mem.phase = "Ready" /\ PackageIdentityMatches) -> "Adoptable"
      [] pkg.there /\ ~pkg.shape -> "RepairRequired"
      [] ~pkg.there /\ mem.phase = "Ready" -> "RepairRequired"
      [] OTHER -> mem.phase

-----------------------------------------------------------------------------
(* Properties.                                                             *)

\* A package that is shown as ready has the digests of the manifest, wherever
\* the download was cut, whatever the server sent under which validator, and
\* whatever became of the package since: unless it changed after it was hashed
\* and before its identity was bound.
ReadyIsGenuine ==
    ~active /\ PackageState = "Ready" /\ mem.receipt.hashed = mem.receipt.bound =>
        \A a \in Assets : Genuine(pkg.files[a])

\* While the settings name the new model and no provider lists it, the journal
\* on disk knows a configuration to go back to, and it is one from before the
\* installation: over any number of attempts that fail, or die, half way.
PreviousIsKept ==
    /\ "new" \in {settings.root, settings.model} /\ ~provider /\ ~removed
    => disk.prev /= NoConfig /\ "new" \notin {disk.prev.root, disk.prev.model}

\* A cancellation while there is something to fetch ends the job: it never
\* goes on to verify, promote or activate the package.
CancelIsHonoured ==
    cancel = "in_time" =>
        job.pc \in {"choose", "asset", "reuse", "attempt", "request", "stream", "chunk", "hash"}
=============================================================================
