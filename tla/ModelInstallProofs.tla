-------------------------- MODULE ModelInstallProofs --------------------------
(***************************************************************************)
(* The installation of the recommended model, for any number of assets,    *)
(* chunks, versions, retries, starts, crashes and changes of the world.    *)
(*                                                                         *)
(* A cancellation is honoured because every step on the way to a check     *)
(* stays on the way to one (CancelSeen).  The previous configuration       *)
(* survives because the journal on disk and the one in memory never differ *)
(* in it, a promoted package keeps an unfinished installation from being   *)
(* discarded, and only a finished one forgets it (KeepsPrevious).  A ready *)
(* package is genuine because an identity stands for one content: every    *)
(* change gives the package a new one, above all that were ever hashed     *)
(* (HashedIsGenuine, StagedIsGenuine).                                     *)
(***************************************************************************)
EXTENDS ModelInstall, TLAPS

-----------------------------------------------------------------------------
(* Types                                                                   *)

Phases == {"Absent", "Downloading", "Verifying", "Inspecting", "Promoting", "Configuring", "Ready",
           "Failed", "RepairRequired", "Cancelled"}
Choices == {"old", "new", "user"}
Chosen == [root : Choices, model : Choices]
Configs == {NoConfig} \cup Chosen
ReceiptsOf == [bound : Nat, hashed : Nat]
Journals == [there : BOOLEAN, phase : Phases, etag : [Assets -> Tags], prev : Configs,
             receipt : ReceiptsOf]

\* The steps at which the job works on one asset, and those of the activation.
AssetSteps == {"reuse", "attempt", "request", "stream", "chunk", "hash", "seal"}
ActivationSteps == {"configure", "root", "model", "prepare", "provider", "restore", "ready"}
Steps == {"idle", "choose", "asset", "verify", "inspect", "promote", "hash_package",
          "inspect_package", "bind"} \cup AssetSteps \cup ActivationSteps

Jobs == [pc : Steps, at : Nat \ {0}, tries : Nat, tag : Tags, src : Versions, hashed : Nat, bound : Nat,
         was : Choices \cup {"none"}]
Packages == [there : BOOLEAN, files : [Assets -> Seq(Versions \cup {"damaged"})], shape : BOOLEAN,
             stamp : Nat]

TypeJournals == disk \in Journals /\ mem \in Journals
TypeJob ==
    /\ job \in Jobs /\ active \in BOOLEAN /\ cancel \in {"no", "in_time", "late"}
    /\ (job.pc = "idle") = ~active
    /\ job.pc \in AssetSteps => job.at \in Assets
    /\ job.pc = "choose" => job.at = 1
    /\ job.pc = "prepare" => job.was # "none"
TypeFiles ==
    /\ part \in [Assets -> Seq(Versions)] /\ done \in [Assets -> Seq(Versions)]
    /\ pkg \in Packages /\ stamp \in Nat /\ server \in Versions
TypeActivation ==
    /\ settings \in Chosen
    /\ provider \in BOOLEAN /\ removed \in BOOLEAN
TypeBounds == starts \in Nat /\ crashes \in Nat /\ touches \in Nat

Types == TypeJournals /\ TypeJob /\ TypeFiles /\ TypeActivation /\ TypeBounds

-----------------------------------------------------------------------------
(* The inductive invariants                                                *)

\* A cancellation that came in time is still ahead of a check.
CancelSeen == (cancel # "no" => active) /\ (cancel = "in_time" => InTime)

\* What the two journals agree on.
SameJournals ==
    /\ mem.there = disk.there /\ mem.prev = disk.prev /\ mem.receipt = disk.receipt
    /\ ~mem.there => mem.prev = NoConfig

\* A configuration of before the installation.
Old(c) == c.root # "new" /\ c.model # "new"

KeepsPrevious ==
    /\ active => mem.there
    /\ mem.phase = "Ready" \/ disk.phase = "Ready" \/ job.pc = "ready" => provider
    /\ job.pc \in ActivationSteps => pkg.there /\ mem.prev # NoConfig
    /\ ~provider /\ ~removed =>
           /\ Old(mem.prev)
           /\ ~Old(settings) => pkg.there /\ mem.prev # NoConfig

PackageGenuine == \A a \in Assets : Genuine(pkg.files[a])

\* What was hashed under an identity is genuine as long as it has it.
HashedIsGenuine ==
    /\ pkg.there => pkg.stamp \in 1 .. stamp
    /\ job.hashed <= stamp /\ mem.receipt.hashed <= stamp
    /\ pkg.there /\ pkg.stamp \in {job.hashed, mem.receipt.hashed} => PackageGenuine

\* The file of an asset in staging.
Staged(a) == IF done[a] /= <<>> THEN done[a] ELSE part[a]

\* What is sealed has been verified.
StagedIsGenuine ==
    /\ job.pc = "seal" => \A a \in Assets : IF a < job.at THEN Genuine(done[a]) ELSE Genuine(Staged(a))
    /\ job.pc \in {"inspect", "promote"} => \A a \in Assets : Genuine(done[a])

-----------------------------------------------------------------------------
(* What a step does to the journals, the job and the files                 *)

\* A step that keeps of the journals what an installation must not forget.
Keeps ==
    /\ mem'.there = mem.there /\ mem'.prev = mem.prev /\ mem'.receipt = mem.receipt
    /\ disk'.there = disk.there /\ disk'.prev = disk.prev /\ disk'.receipt = disk.receipt
    /\ mem'.phase = "Ready" \/ disk'.phase = "Ready" => mem.phase = "Ready" \/ disk.phase = "Ready"

\* Only the phase of the journal changes.
LEMMA PhaseJournal ==
    ASSUME TypeJournals, NEW p \in Phases
    PROVE  LET j == [mem EXCEPT !.phase = p]
           IN  /\ j \in Journals /\ j.phase = p
               /\ j.there = mem.there /\ j.prev = mem.prev /\ j.receipt = mem.receipt
BY DEF TypeJournals, Journals

\* Only the validator of one asset changes.
LEMMA TagJournal ==
    ASSUME TypeJournals, NEW a \in Assets, NEW t \in Tags
    PROVE  LET j == [mem EXCEPT !.etag[a] = t]
           IN  /\ j \in Journals /\ j.phase = mem.phase
               /\ j.there = mem.there /\ j.prev = mem.prev /\ j.receipt = mem.receipt
<1> DEFINE e == [mem.etag EXCEPT ![a] = t]
<1>1. e \in [Assets -> Tags]
  BY DEF TypeJournals, Journals
<1>2. [mem EXCEPT !.etag[a] = t] = [mem EXCEPT !.etag = e]
  BY DEF TypeJournals, Journals
<1> HIDE DEF e
<1> QED
  BY <1>1, <1>2 DEF TypeJournals, Journals

\* transition_shared
LEMMA TransitionKeeps ==
    ASSUME TypeJournals, SameJournals, NEW p \in Phases \ {"Ready"}, Transition(p)
    PROVE  TypeJournals' /\ Keeps
<1> DEFINE j == [mem EXCEPT !.phase = p]
<1>1. mem' = j /\ disk' = j
  BY DEF Transition, Save
<1>2. /\ j \in Journals /\ j.phase = p
      /\ j.there = mem.there /\ j.prev = mem.prev /\ j.receipt = mem.receipt
  BY PhaseJournal
<1> QED
  BY <1>1, <1>2 DEF TypeJournals, Keeps, SameJournals

\* The job ends with an error or a cancellation.
LEMMA EndKeeps ==
    ASSUME TypeJournals, SameJournals, NEW p \in Phases \ {"Ready"}, EndWith(p)
    PROVE  /\ TypeJournals' /\ Keeps
           /\ active' = FALSE /\ cancel' = "no" /\ job' = Idle
<1> DEFINE j == [mem EXCEPT !.phase = p]
<1>1. mem' = j /\ disk' \in {j, disk} /\ active' = FALSE /\ cancel' = "no" /\ job' = Idle
  BY DEF EndWith, End
<1>2. /\ j \in Journals /\ j.phase = p
      /\ j.there = mem.there /\ j.prev = mem.prev /\ j.receipt = mem.receipt
  BY PhaseJournal
<1> QED
  BY <1>1, <1>2 DEF TypeJournals, Keeps, SameJournals

\* Idle is a job.
LEMMA IdleJob ==
    /\ Idle \in Jobs /\ Idle.pc = "idle" /\ Idle.at = 1 /\ Idle.hashed = 0
<1>1. "idle" \in Steps /\ "none" \in Tags /\ Release \in Versions
  BY InstallAssumption DEF Steps, Tags
<1> QED
  BY <1>1 DEF Idle, Jobs

\* The job goes on and keeps its local variables.
LEMMA GoToJob ==
    ASSUME job \in Jobs, NEW s \in Steps, GoTo(s)
    PROVE  /\ job' \in Jobs /\ job'.pc = s /\ job'.at = job.at /\ job'.hashed = job.hashed
           /\ job'.bound = job.bound
BY DEF GoTo, Jobs

\* A step that leaves the journals alone.
LEMMA SameKeeps ==
    ASSUME TypeJournals, UNCHANGED <<disk, mem>>
    PROVE  TypeJournals' /\ Keeps
BY DEF TypeJournals, Keeps

\* The job is over.
LEMMA EndJob ==
    ASSUME active' = FALSE, cancel' = "no", job' = Idle
    PROVE  TypeJob' /\ CancelSeen' /\ job'.hashed = 0 /\ job'.pc = "idle"
<1>1. job' \in Jobs /\ job'.pc = "idle" /\ job'.hashed = 0
  BY IdleJob
<1>2. "idle" \notin AssetSteps
  BY DEF AssetSteps
<1> QED
  BY <1>1, <1>2 DEF TypeJob, CancelSeen

\* The job goes on, on its way to a check if it is cancelled.
LEMMA GoesOn ==
    ASSUME TypeJob, CancelSeen, active, UNCHANGED <<active, cancel>>, job' \in Jobs,
           job'.pc \notin {"idle", "choose"}, job'.pc \in AssetSteps => job'.at \in Assets,
           job'.pc = "prepare" => job'.was # "none", cancel = "in_time" => InTime'
    PROVE  TypeJob' /\ CancelSeen'
BY DEF TypeJob, CancelSeen

\* The numbers of the assets.
LEMMA AssetNumbers ==
    /\ AssetCount \in Nat /\ AssetCount > 0 /\ 1 \in Assets
    /\ \A n \in Nat \ {0} : n \in Assets <=> n <= AssetCount
BY InstallAssumption DEF Assets

\* The steps of the job, by the sets that matter.
LEMMA StepNames ==
    /\ {"asset", "reuse", "attempt", "request", "stream", "chunk", "hash", "verify", "seal", "inspect",
        "promote", "hash_package", "inspect_package", "bind"} \subseteq Steps \ ActivationSteps
    /\ AssetSteps \subseteq Steps /\ ActivationSteps \subseteq Steps
    /\ AssetSteps \cap ActivationSteps = {}
    /\ {"idle", "choose", "asset", "verify", "inspect", "promote", "hash_package", "inspect_package",
        "bind"} \cap (AssetSteps \cup ActivationSteps) = {}
BY DEF Steps, ActivationSteps, AssetSteps

-----------------------------------------------------------------------------
(* The download                                                            *)

\* What a step of the download keeps.
Downloads ==
    /\ TypeJournals' /\ Keeps /\ TypeJob' /\ CancelSeen'
    /\ job'.hashed \in {0, job.hashed}
    /\ job'.pc \notin ActivationSteps \cup {"seal", "inspect", "promote"}

\* The job ends during the download.
LEMMA DownloadEnds ==
    ASSUME TypeJournals, SameJournals, NEW p \in Phases \ {"Ready"}, EndWith(p)
    PROVE  Downloads
<1>1. TypeJournals' /\ Keeps /\ active' = FALSE /\ cancel' = "no" /\ job' = Idle
  BY EndKeeps
<1>2. TypeJob' /\ CancelSeen' /\ job'.hashed = 0 /\ job'.pc = "idle"
  BY <1>1, EndJob
<1> QED
  BY <1>1, <1>2, StepNames DEF Downloads

\* It goes on with the journals as they are, or in another phase.
LEMMA DownloadGoesOn ==
    ASSUME Types, SameJournals, CancelSeen, active, UNCHANGED <<active, cancel>>,
           UNCHANGED <<disk, mem>> \/ \E p \in Phases \ {"Ready"} : Transition(p),
           job' \in Jobs, job'.hashed = job.hashed,
           job'.pc \notin ActivationSteps \cup {"idle", "choose", "seal", "inspect", "promote"},
           job'.pc \in AssetSteps => job'.at \in Assets, cancel = "in_time" => InTime'
    PROVE  Downloads
<1>1. TypeJournals' /\ Keeps
  BY TransitionKeeps, SameKeeps DEF Types
<1>2. TypeJob' /\ CancelSeen'
  BY GoesOn DEF Types, ActivationSteps
<1> QED
  BY <1>1, <1>2 DEF Downloads

\* The job and its step.
LEMMA JobFacts ==
    ASSUME Types, NEW s, At(s)
    PROVE  /\ job \in Jobs /\ active /\ job.pc = s /\ job.at \in Nat \ {0} /\ job.tag \in Tags
           /\ job.src \in Versions /\ job.hashed \in Nat /\ job.tries \in Nat /\ job.bound \in Nat
           /\ s \in AssetSteps => job.at \in Assets
           /\ s = "choose" => job.at = 1
<1>1. job \in Jobs
  BY DEF Types, TypeJob
<1>2. /\ job.at \in Nat \ {0} /\ job.tag \in Tags /\ job.src \in Versions /\ job.hashed \in Nat
      /\ job.tries \in Nat /\ job.bound \in Nat
  BY <1>1 DEF Jobs
<1> QED
  BY <1>1, <1>2 DEF Types, TypeJob, At

\* The files in staging keep their type when one of them changes.
LEMMA PartType ==
    ASSUME Types, NEW a \in Assets, NEW f \in Seq(Versions), part' = [part EXCEPT ![a] = f]
    PROVE  /\ part' \in [Assets -> Seq(Versions)] /\ part'[a] = f
           /\ \A b \in Assets \ {a} : part'[b] = part[b]
BY DEF Types, TypeFiles

\* An empty file.
LEMMA PartDropped ==
    ASSUME Types, NEW a \in Assets, part' = part \/ part' = [part EXCEPT ![a] = <<>>]
    PROVE  part' \in [Assets -> Seq(Versions)]
<1>1. <<>> \in Seq(Versions)
  OBVIOUS
<1> QED
  BY <1>1, PartType DEF Types, TypeFiles

\* Choose, and the check ahead of an asset.
LEMMA ChooseDownloads ==
    ASSUME Types, SameJournals, CancelSeen, Choose \/ NextAsset
    PROVE  Downloads
<1>1. {"Verifying", "Cancelled"} \subseteq Phases \ {"Ready"}
  BY DEF Phases
<1>2. CASE Choose
  <2>1. job \in Jobs /\ active /\ job.pc = "choose" /\ job.at = 1
    BY <1>2, JobFacts DEF Choose
  <2>2. CASE pkg.there
    <3>1. Transition("Verifying") /\ GoTo("hash_package") /\ UNCHANGED <<active, cancel>>
      BY <1>2, <2>2 DEF Choose
    <3>2. job' \in Jobs /\ job'.pc = "hash_package" /\ job'.hashed = job.hashed
      BY <2>1, <3>1, GoToJob, StepNames
    <3>3. cancel # "in_time"
      BY <2>1, <2>2 DEF CancelSeen, InTime
    <3> QED
      BY <1>1, <2>1, <3>1, <3>2, <3>3, DownloadGoesOn, StepNames
  <2>3. CASE ~pkg.there
    <3>1. UNCHANGED <<disk, mem, active, cancel>> /\ GoTo("asset")
      BY <1>2, <2>3 DEF Choose
    <3>2. job' \in Jobs /\ job'.pc = "asset" /\ job'.hashed = job.hashed /\ job'.at = 1
      BY <2>1, <3>1, GoToJob, StepNames
    <3>3. InTime'
      BY <3>2, AssetNumbers DEF InTime
    <3> QED
      BY <2>1, <3>1, <3>2, <3>3, DownloadGoesOn, StepNames
  <2> QED
    BY <2>2, <2>3
<1>3. CASE NextAsset
  <2>1. job \in Jobs /\ active /\ job.pc = "asset" /\ job.at \in Nat \ {0}
    BY <1>3, JobFacts DEF NextAsset
  <2>2. CASE job.at > AssetCount
    <3>1. Transition("Verifying") /\ GoTo("verify") /\ UNCHANGED <<active, cancel>>
      BY <1>3, <2>2 DEF NextAsset
    <3>2. job' \in Jobs /\ job'.pc = "verify" /\ job'.hashed = job.hashed
      BY <2>1, <3>1, GoToJob, StepNames
    <3>3. cancel # "in_time"
      BY <2>1, <2>2, AssetNumbers DEF CancelSeen, InTime
    <3> QED
      BY <1>1, <2>1, <3>1, <3>2, <3>3, DownloadGoesOn, StepNames
  <2>3. CASE ~(job.at > AssetCount) /\ cancel /= "no"
    <3>1. EndWith("Cancelled")
      BY <1>3, <2>3 DEF NextAsset
    <3> QED
      BY <1>1, <3>1, DownloadEnds DEF Types
  <2>4. CASE ~(job.at > AssetCount) /\ cancel = "no"
    <3>1. GoTo("reuse") /\ UNCHANGED <<disk, mem, active, cancel>>
      BY <1>3, <2>4 DEF NextAsset
    <3>2. job' \in Jobs /\ job'.pc = "reuse" /\ job'.hashed = job.hashed /\ job'.at = job.at
      BY <2>1, <3>1, GoToJob, StepNames
    <3>3. job'.at \in Assets
      BY <2>1, <2>4, <3>2, AssetNumbers
    <3> QED
      BY <2>1, <2>4, <3>1, <3>2, <3>3, DownloadGoesOn, StepNames
  <2> QED
    BY <2>2, <2>3, <2>4
<1> QED
  BY <1>2, <1>3

\* reuse_verified_asset
LEMMA ReuseDownloads ==
    ASSUME Types, SameJournals, CancelSeen, ReuseVerifiedAsset
    PROVE  Downloads /\ part' \in [Assets -> Seq(Versions)]
<1> DEFINE a == job.at
           found == done[a] /= <<>> \/ Len(part[a]) = Size
           file == IF done[a] /= <<>> THEN done[a] ELSE part[a]
<1>1. /\ job \in Jobs /\ active /\ job.pc = "reuse" /\ a \in Assets /\ a \in Nat \ {0}
      /\ "Downloading" \in Phases \ {"Ready"} /\ UNCHANGED <<active, cancel>>
  BY JobFacts DEF ReuseVerifiedAsset, AssetSteps, Phases
<1>2. cancel = "in_time" => a < AssetCount
  BY <1>1 DEF CancelSeen, InTime
<1>3. part' \in [Assets -> Seq(Versions)]
  BY <1>1, PartDropped DEF ReuseVerifiedAsset
<1>4. CASE found /\ Genuine(file)
  <2>1. job' = [job EXCEPT !.pc = "asset", !.at = a + 1] /\ UNCHANGED <<disk, mem>>
    BY <1>4 DEF ReuseVerifiedAsset
  <2>2. a + 1 \in Nat \ {0} /\ "asset" \in Steps
    BY <1>1, StepNames
  <2>3. job' \in Jobs /\ job'.pc = "asset" /\ job'.at = a + 1 /\ job'.hashed = job.hashed
    BY <1>1, <2>1, <2>2 DEF Jobs
  <2>4. cancel = "in_time" => InTime'
    BY <1>1, <1>2, <2>3, AssetNumbers DEF InTime
  <2>5. Downloads
    BY <1>1, <2>1, <2>3, <2>4, DownloadGoesOn, StepNames
  <2> QED
    BY <1>3, <2>5
<1>5. CASE ~(found /\ Genuine(file))
  <2>1. Transition("Downloading")
        /\ job' = [job EXCEPT !.pc = "attempt", !.tries = 0, !.tag = mem.etag[a]]
    BY <1>5 DEF ReuseVerifiedAsset
  <2>2. mem.etag[a] \in Tags /\ 0 \in Nat /\ "attempt" \in Steps
    BY <1>1, StepNames DEF Types, TypeJournals, Journals
  <2>3. job' \in Jobs /\ job'.pc = "attempt" /\ job'.at = a /\ job'.hashed = job.hashed
    BY <1>1, <2>1, <2>2 DEF Jobs
  <2>4. InTime'
    BY <2>3 DEF InTime
  <2>5. Downloads
    BY <1>1, <2>1, <2>3, <2>4, DownloadGoesOn, StepNames
  <2> QED
    BY <1>3, <2>5
<1> QED
  BY <1>4, <1>5

\* The head of the retry loop, and the head of the reading loop.
LEMMA CheckDownloads ==
    ASSUME Types, SameJournals, CancelSeen, Attempt \/ Stream
    PROVE  Downloads /\ part' \in [Assets -> Seq(Versions)]
<1>1. /\ job \in Jobs /\ active /\ job.pc \in {"attempt", "stream"} /\ job.at \in Assets
      /\ "Cancelled" \in Phases \ {"Ready"}
  BY JobFacts DEF Attempt, Stream, AssetSteps, Phases
<1>2. part' \in [Assets -> Seq(Versions)]
  BY <1>1, PartDropped DEF Attempt, Stream, staging
<1>3. CASE cancel /= "no"
  <2>1. EndWith("Cancelled")
    BY <1>3 DEF Attempt, Stream
  <2> QED
    BY <1>1, <1>2, <2>1, DownloadEnds DEF Types
<1>4. CASE cancel = "no"
  <2>1. /\ \E s \in {"request", "chunk"} : GoTo(s)
        /\ UNCHANGED <<disk, mem, active, cancel>>
    BY <1>4 DEF Attempt, Stream
  <2>2. job' \in Jobs /\ job'.pc \in {"request", "chunk"} /\ job'.hashed = job.hashed /\ job'.at = job.at
    BY <1>1, <2>1, GoToJob, StepNames
  <2>3. Downloads
    BY <1>1, <1>4, <2>1, <2>2, DownloadGoesOn, StepNames
  <2> QED
    BY <1>2, <2>3
<1> QED
  BY <1>3, <1>4

\* The answers of the server, and an attempt that is made again.
LEMMA AnswerDownloads ==
    ASSUME Types, SameJournals, CancelSeen,
           \/ \E t \in Tags : RespondFull(t)
           \/ RespondRange \/ RespondForeign \/ AttemptFails
    PROVE  Downloads /\ part' \in [Assets -> Seq(Versions)]
<1>1. /\ job \in Jobs /\ active /\ job.pc \in {"request", "chunk", "hash"} /\ job.at \in Assets
      /\ job.tries \in Nat
  <2>1. active /\ job.pc \in {"request", "chunk", "hash"} /\ At(job.pc)
    BY DEF RespondFull, RespondRange, RespondForeign, AttemptFails, At
  <2> QED
    BY <2>1, JobFacts DEF AssetSteps
<1>2. UNCHANGED <<disk, mem, active, cancel>>
  BY DEF RespondFull, RespondRange, RespondForeign, AttemptFails
<1>3. part' \in [Assets -> Seq(Versions)]
  BY <1>1, PartDropped DEF RespondFull, RespondRange, RespondForeign, AttemptFails, staging
<1>4. job' \in Jobs /\ job'.pc \in {"stream", "attempt"} /\ job'.at = job.at /\ job'.hashed = job.hashed
  <2>1. CASE \E t \in Tags : RespondFull(t)
    <3>1. PICK t \in Tags : job' = [job EXCEPT !.pc = "stream", !.tag = t, !.src = server]
      BY <2>1 DEF RespondFull
    <3>2. server \in Versions /\ "stream" \in Steps
      BY StepNames DEF Types, TypeFiles
    <3> QED
      BY <1>1, <3>1, <3>2 DEF Jobs
  <2>2. CASE RespondRange
    <3>1. job' = [job EXCEPT !.pc = "stream", !.src = server]
      BY <2>2 DEF RespondRange
    <3>2. server \in Versions /\ "stream" \in Steps
      BY StepNames DEF Types, TypeFiles
    <3> QED
      BY <1>1, <3>1, <3>2 DEF Jobs
  <2>3. CASE RespondForeign \/ AttemptFails
    <3>1. job' = [job EXCEPT !.pc = "attempt", !.tries = @ + 1]
      BY <2>3 DEF RespondForeign, AttemptFails, Retry
    <3>2. job.tries + 1 \in Nat /\ "attempt" \in Steps
      BY <1>1, StepNames
    <3> QED
      BY <1>1, <3>1, <3>2 DEF Jobs
  <2> QED
    BY <2>1, <2>2, <2>3
<1>5. InTime'
  BY <1>4 DEF InTime
<1>6. Downloads
  BY <1>1, <1>2, <1>4, <1>5, DownloadGoesOn, StepNames
<1> QED
  BY <1>3, <1>6

\* A chunk arrives.
LEMMA ChunkDownloads ==
    ASSUME Types, SameJournals, CancelSeen, NEW saved \in BOOLEAN, Chunk(saved)
    PROVE  Downloads /\ part' \in [Assets -> Seq(Versions)]
<1> DEFINE a == job.at
           j == [mem EXCEPT !.etag[a] = job.tag]
<1>1. /\ job \in Jobs /\ active /\ job.pc = "chunk" /\ a \in Assets /\ job.tag \in Tags
      /\ job.src \in Versions
  BY JobFacts DEF Chunk, AssetSteps
<1>2. /\ part' = [part EXCEPT ![a] = Append(part[a], job.src)] /\ part[a] \in Seq(Versions)
      /\ mem' = j /\ disk' \in {j, disk} /\ GoTo("stream") /\ UNCHANGED <<active, cancel>>
  BY <1>1 DEF Chunk, Types, TypeFiles
<1>3. part' \in [Assets -> Seq(Versions)]
  <2>1. Append(part[a], job.src) \in Seq(Versions)
    BY <1>1, <1>2
  <2> QED
    BY <1>1, <1>2, <2>1, PartType
<1>4. /\ j \in Journals /\ j.phase = mem.phase
      /\ j.there = mem.there /\ j.prev = mem.prev /\ j.receipt = mem.receipt
  BY <1>1, TagJournal DEF Types
<1> HIDE DEF j
<1>5. TypeJournals' /\ Keeps
  BY <1>2, <1>4 DEF Types, TypeJournals, Keeps, SameJournals
<1>6. job' \in Jobs /\ job'.pc = "stream" /\ job'.at = a /\ job'.hashed = job.hashed
  BY <1>1, <1>2, GoToJob, StepNames
<1>7. InTime'
  BY <1>6 DEF InTime
<1>8. TypeJob' /\ CancelSeen'
  BY <1>1, <1>2, <1>6, <1>7, GoesOn DEF Types
<1> QED
  BY <1>3, <1>5, <1>6, <1>8, StepNames DEF Downloads

\* The last byte, and the hash of what was fetched.
LEMMA HashDownloads ==
    ASSUME Types, SameJournals, CancelSeen, StreamEnds \/ HashPartial
    PROVE  Downloads /\ part' \in [Assets -> Seq(Versions)]
<1> DEFINE a == job.at
<1>1. /\ job \in Jobs /\ active /\ job.pc \in {"chunk", "hash"} /\ a \in Assets /\ a \in Nat \ {0}
      /\ job.tag \in Tags
  BY JobFacts DEF StreamEnds, HashPartial, AssetSteps
<1>2. part' \in [Assets -> Seq(Versions)]
  BY <1>1, PartDropped DEF StreamEnds, HashPartial, staging
<1>3. CASE StreamEnds
  <2>1. GoTo("hash") /\ UNCHANGED <<disk, mem, active, cancel>> /\ job.pc = "chunk" /\ Len(part[a]) = Size
    BY <1>3 DEF StreamEnds, At
  <2>2. job' \in Jobs /\ job'.pc = "hash" /\ job'.at = a /\ job'.hashed = job.hashed
    BY <1>1, <2>1, GoToJob, StepNames
  <2>3. cancel = "in_time" => InTime'
    <3>1. ASSUME cancel = "in_time" PROVE a < AssetCount
      <4>1. a < AssetCount \/ Len(part[a]) < Size
        BY <2>1, <3>1 DEF CancelSeen, InTime
      <4>2. ~(Size < Size)
        BY InstallAssumption
      <4> QED
        BY <2>1, <4>1, <4>2
    <3> QED
      BY <2>2, <3>1 DEF InTime
  <2>4. Downloads
    BY <1>1, <2>1, <2>2, <2>3, DownloadGoesOn, StepNames
  <2> QED
    BY <1>2, <2>4
<1>4. CASE HashPartial /\ Genuine(part[a])
  <2> DEFINE j == [mem EXCEPT !.etag[a] = job.tag]
  <2>1. /\ mem' = j /\ disk' = j /\ job' = [job EXCEPT !.pc = "asset", !.at = a + 1]
        /\ UNCHANGED <<active, cancel>> /\ job.pc = "hash"
    BY <1>4 DEF HashPartial, Save, At
  <2>2. /\ j \in Journals /\ j.phase = mem.phase
        /\ j.there = mem.there /\ j.prev = mem.prev /\ j.receipt = mem.receipt
    BY <1>1, TagJournal DEF Types
  <2> HIDE DEF j
  <2>3. TypeJournals' /\ Keeps
    BY <2>1, <2>2 DEF Types, TypeJournals, Keeps, SameJournals
  <2>4. a + 1 \in Nat \ {0} /\ "asset" \in Steps
    BY <1>1, StepNames
  <2>5. job' \in Jobs /\ job'.pc = "asset" /\ job'.at = a + 1 /\ job'.hashed = job.hashed
    BY <1>1, <2>1, <2>4 DEF Jobs
  <2>6. cancel = "in_time" => InTime'
    <3>1. cancel = "in_time" => a < AssetCount
      BY <2>1 DEF CancelSeen, InTime
    <3> QED
      BY <1>1, <2>5, <3>1, AssetNumbers DEF InTime
  <2>7. TypeJob' /\ CancelSeen'
    BY <1>1, <2>1, <2>5, <2>6, GoesOn, StepNames DEF Types
  <2> QED
    BY <1>2, <2>3, <2>5, <2>7, StepNames DEF Downloads
<1>5. CASE HashPartial /\ ~Genuine(part[a])
  <2>1. EndWith(Failure) /\ Failure \in Phases \ {"Ready"}
    BY <1>5 DEF HashPartial, Failure, Phases
  <2> QED
    BY <1>2, <2>1, DownloadEnds DEF Types
<1> QED
  BY <1>3, <1>4, <1>5

-----------------------------------------------------------------------------
(* Frames                                                                  *)

\* What always holds.
Inv ==
    /\ SameJournals /\ CancelSeen /\ KeepsPrevious /\ HashedIsGenuine /\ StagedIsGenuine

\* The journals stay the same where they must.
LEMMA SameFrame ==
    ASSUME SameJournals, Keeps
    PROVE  SameJournals'
BY DEF SameJournals, Keeps

\* A step that does not touch the activation.
LEMMA PreviousFrame ==
    ASSUME KeepsPrevious, Keeps, UNCHANGED <<settings, provider, removed>>, pkg.there => pkg'.there,
           job'.pc \in ActivationSteps => job.pc \in ActivationSteps,
           job'.pc = "ready" => job.pc = "ready", active' => active
    PROVE  KeepsPrevious'
BY DEF KeepsPrevious, Keeps, Old

\* A step that does not touch the package.
LEMMA HashedFrame ==
    ASSUME Types, HashedIsGenuine, mem'.receipt = mem.receipt, UNCHANGED <<pkg, stamp>>,
           job'.hashed \in {0, job.hashed}
    PROVE  HashedIsGenuine'
<1>1. stamp \in Nat /\ job.hashed \in Nat
  BY DEF Types, TypeFiles, TypeJob, Jobs
<1>2. pkg.there => pkg.stamp \in Nat /\ pkg.stamp # 0
  BY <1>1 DEF HashedIsGenuine
<1>3. job'.hashed <= stamp
  BY <1>1 DEF HashedIsGenuine
<1>4. pkg.there /\ pkg.stamp = job'.hashed => pkg.stamp = job.hashed
  BY <1>2
<1> QED
  BY <1>3, <1>4 DEF HashedIsGenuine, PackageGenuine

\* The download.
LEMMA DownloadStep ==
    ASSUME Types, Inv,
           \/ Choose \/ NextAsset \/ ReuseVerifiedAsset \/ Attempt
           \/ \E t \in Tags : RespondFull(t)
           \/ RespondRange \/ RespondForeign \/ AttemptFails \/ Stream
           \/ \E saved \in BOOLEAN : Chunk(saved)
           \/ StreamEnds \/ HashPartial
    PROVE  Types' /\ Inv'
<1>0. SameJournals /\ CancelSeen
  BY DEF Inv
<1>1. Downloads
  BY <1>0, ChooseDownloads, ReuseDownloads, CheckDownloads, AnswerDownloads, ChunkDownloads, HashDownloads
<1>2. UNCHANGED <<pkg, done, settings, provider, server, stamp, removed, touches, starts, crashes>>
  BY DEF Choose, NextAsset, ReuseVerifiedAsset, Attempt, RespondFull, RespondRange, RespondForeign,
         AttemptFails, Stream, Chunk, StreamEnds, HashPartial, staging, activation, world
<1>3. part' \in [Assets -> Seq(Versions)]
  <2>1. CASE Choose \/ NextAsset
    BY <2>1 DEF Choose, NextAsset, staging, Types, TypeFiles
  <2> QED
    BY <1>0, <2>1, ReuseDownloads, CheckDownloads, AnswerDownloads, ChunkDownloads, HashDownloads
<1>4. Types'
  <2>1. TypeFiles' /\ TypeActivation' /\ TypeBounds'
    BY <1>2, <1>3 DEF Types, TypeFiles, TypeActivation, TypeBounds
  <2> QED
    BY <1>1, <2>1 DEF Downloads, Types
<1>5. SameJournals' /\ CancelSeen'
  BY <1>0, <1>1, SameFrame DEF Downloads
<1>6. KeepsPrevious'
  <2>1. active
    BY DEF Choose, NextAsset, ReuseVerifiedAsset, Attempt, RespondFull, RespondRange, RespondForeign,
           AttemptFails, Stream, Chunk, StreamEnds, HashPartial, At
  <2> QED
    BY <1>1, <1>2, <2>1, PreviousFrame DEF Downloads, Inv, ActivationSteps
<1>7. HashedIsGenuine'
  BY <1>1, <1>2, HashedFrame DEF Downloads, Inv, Keeps
<1>8. StagedIsGenuine'
  BY <1>1 DEF Downloads, StagedIsGenuine
<1> QED
  BY <1>4, <1>5, <1>6, <1>7, <1>8 DEF Inv

\* A step of the package or of the activation: no cancellation is looked for.
LEMMA LateGoesOn ==
    ASSUME TypeJob, CancelSeen, active, UNCHANGED <<active, cancel>>, job' \in Jobs,
           job.pc \notin {"choose", "asset", "attempt", "request", "stream", "reuse", "hash", "chunk"},
           job'.pc \notin {"idle", "choose"}, job'.pc \in AssetSteps => job'.at \in Assets,
           job'.pc = "prepare" => job'.was # "none"
    PROVE  TypeJob' /\ CancelSeen'
<1>1. cancel # "in_time"
  BY DEF CancelSeen, InTime
<1> QED
  BY <1>1, GoesOn

\* verify_staging_assets: what is going to be sealed is genuine.
LEMMA VerifyStagingStep ==
    ASSUME Types, Inv, VerifyStaging
    PROVE  Types' /\ Inv'
<1>0. SameJournals /\ CancelSeen /\ KeepsPrevious /\ HashedIsGenuine
  BY DEF Inv
<1>1. job \in Jobs /\ active /\ job.pc = "verify" /\ job' = [job EXCEPT !.pc = "seal", !.at = 1]
  BY JobFacts DEF VerifyStaging
<1>2. UNCHANGED <<disk, mem, active, cancel, part, done, pkg, settings, provider, server, stamp, removed,
                  touches, starts, crashes>>
  BY DEF VerifyStaging, staging, activation, world
<1>3. job' \in Jobs /\ job'.pc = "seal" /\ job'.at = 1 /\ job'.hashed = job.hashed
  <2>1. 1 \in Nat \ {0} /\ "seal" \in Steps
    BY StepNames
  <2> QED
    BY <1>1, <2>1 DEF Jobs
<1>4. TypeJob' /\ CancelSeen'
  BY <1>0, <1>1, <1>2, <1>3, AssetNumbers, LateGoesOn DEF Types
<1>5. TypeJournals' /\ Keeps
  BY <1>2, SameKeeps DEF Types
<1>6. Types'
  BY <1>2, <1>4, <1>5 DEF Types, TypeFiles, TypeActivation, TypeBounds
<1>7. StagedIsGenuine'
  <2>1. \A a \in Assets : Genuine(Staged(a))'
    BY <1>2 DEF VerifyStaging, Staged, Genuine
  <2>2. \A a \in Assets : ~(a < 1)
    BY AssetNumbers DEF Assets
  <2>3. \A a \in Assets : ~(a < job'.at)
    BY <1>3, <2>2
  <2> QED
    BY <1>3, <2>1, <2>3 DEF StagedIsGenuine
<1>8. KeepsPrevious' /\ HashedIsGenuine' /\ SameJournals'
  BY <1>0, <1>2, <1>3, <1>5, SameFrame, PreviousFrame, HashedFrame, StepNames DEF AssetSteps, ActivationSteps
<1> QED
  BY <1>4, <1>6, <1>7, <1>8 DEF Inv

\* The types after a step of the package or of the activation.
LEMMA LateTypes ==
    ASSUME Types, SameJournals, CancelSeen, active, UNCHANGED <<active, cancel, starts, crashes, touches>>,
           UNCHANGED <<disk, mem>> \/ \E p \in Phases \ {"Ready"} : Transition(p),
           job' \in Jobs,
           job.pc \notin {"choose", "asset", "attempt", "request", "stream", "reuse", "hash", "chunk"},
           job'.pc \notin {"idle", "choose"}, job'.pc \in AssetSteps => job'.at \in Assets,
           job'.pc = "prepare" => job'.was # "none", TypeFiles', TypeActivation'
    PROVE  Types' /\ SameJournals' /\ CancelSeen' /\ Keeps
<1>1. TypeJournals' /\ Keeps
  BY TransitionKeeps, SameKeeps DEF Types
<1>2. TypeJob' /\ CancelSeen'
  BY LateGoesOn DEF Types
<1>3. TypeBounds'
  BY DEF Types, TypeBounds
<1> QED
  BY <1>1, <1>2, <1>3, SameFrame DEF Types

\* seal_staging_assets: what is sealed is what was verified.
LEMMA SealAssetStep ==
    ASSUME Types, Inv, SealAsset
    PROVE  Types' /\ Inv'
<1> DEFINE a == job.at
<1>0. SameJournals /\ CancelSeen /\ KeepsPrevious /\ HashedIsGenuine /\ StagedIsGenuine
  BY DEF Inv
<1>1. /\ job \in Jobs /\ active /\ job.pc = "seal" /\ a \in Assets /\ a \in Nat \ {0}
      /\ "Inspecting" \in Phases \ {"Ready"}
  BY JobFacts DEF SealAsset, AssetSteps, Phases
<1>2. UNCHANGED <<active, cancel, pkg, settings, provider, server, stamp, removed, touches, starts, crashes>>
  BY DEF SealAsset, activation, world
<1>3. /\ done' \in [Assets -> Seq(Versions)] /\ done'[a] = Staged(a)
      /\ \A b \in Assets \ {a} : done'[b] = done[b]
  <2>1. part[a] \in Seq(Versions) /\ done \in [Assets -> Seq(Versions)]
    BY <1>1 DEF Types, TypeFiles
  <2> QED
    BY <1>1, <2>1 DEF SealAsset, Staged
<1>4. /\ part' \in [Assets -> Seq(Versions)] /\ \A b \in Assets \ {a} : part'[b] = part[b]
  <2>1. <<>> \in Seq(Versions) /\ part \in [Assets -> Seq(Versions)]
    BY DEF Types, TypeFiles
  <2> QED
    BY <1>1, <2>1 DEF SealAsset
<1>5. TypeFiles' /\ TypeActivation'
  BY <1>2, <1>3, <1>4 DEF Types, TypeFiles, TypeActivation
<1>6. \A b \in Assets : IF b < a THEN Genuine(done[b]) ELSE Genuine(Staged(b))
  BY <1>0, <1>1 DEF StagedIsGenuine
<1>7. \A b \in Assets : b \in Nat /\ (b <= a => Genuine(done'[b]))
  <2>1. ASSUME NEW b \in Assets
        PROVE  b \in Nat /\ (b = a => Genuine(done'[b])) /\ (b < a => Genuine(done'[b]))
    <3>1. b \in Nat
      BY DEF Assets
    <3>2. CASE b = a
      BY <1>1, <1>3, <1>6, <3>1, <3>2
    <3>3. CASE b # a
      BY <1>3, <1>6, <3>1, <3>3
    <3> QED
      BY <3>1, <3>2, <3>3
  <2> QED
    BY <1>1, <2>1
<1>8. CASE a < AssetCount
  <2>1. job' = [job EXCEPT !.at = a + 1] /\ UNCHANGED <<disk, mem>>
    BY <1>8 DEF SealAsset
  <2>2. a + 1 \in Nat \ {0} /\ a + 1 \in Assets
    BY <1>1, <1>8, AssetNumbers
  <2>3. job' \in Jobs /\ job'.pc = "seal" /\ job'.at = a + 1 /\ job'.hashed = job.hashed
    BY <1>1, <2>1, <2>2 DEF Jobs
  <2>4. Types' /\ SameJournals' /\ CancelSeen' /\ Keeps
    BY <1>0, <1>1, <1>2, <1>5, <2>1, <2>2, <2>3, LateTypes
  <2>5. StagedIsGenuine'
    <3>1. ASSUME NEW b \in Assets, ~(b < a + 1)
          PROVE  Genuine(Staged(b))'
      <4>1. b # a /\ ~(b < a)
        BY <1>1, <1>7, <3>1
      <4>2. Staged(b)' = Staged(b)
        BY <1>3, <1>4, <4>1 DEF Staged
      <4> QED
        BY <1>6, <4>1, <4>2 DEF Genuine
    <3>2. \A b \in Assets : b < a + 1 => Genuine(done'[b])
      BY <1>1, <1>7
    <3>3. \A b \in Assets : IF b < a + 1 THEN Genuine(done[b])' ELSE Genuine(Staged(b))'
      BY <3>1, <3>2 DEF Genuine
    <3> QED
      BY <2>3, <3>3 DEF StagedIsGenuine
  <2>6. KeepsPrevious' /\ HashedIsGenuine'
    BY <1>0, <1>2, <2>3, <2>4, PreviousFrame, HashedFrame DEF ActivationSteps, Keeps
  <2> QED
    BY <2>4, <2>5, <2>6 DEF Inv
<1>9. CASE ~(a < AssetCount)
  <2>1. Transition("Inspecting") /\ GoTo("inspect")
    BY <1>9 DEF SealAsset
  <2>2. job' \in Jobs /\ job'.pc = "inspect" /\ job'.hashed = job.hashed
    BY <1>1, <2>1, GoToJob, StepNames
  <2>3. Types' /\ SameJournals' /\ CancelSeen' /\ Keeps
    BY <1>0, <1>1, <1>2, <1>5, <2>1, <2>2, StepNames, LateTypes
  <2>4. StagedIsGenuine'
    <3>1. \A b \in Assets : b <= a
      BY <1>1, <1>9, AssetNumbers DEF Assets
    <3>2. \A b \in Assets : Genuine(done[b])'
      BY <1>7, <3>1 DEF Genuine
    <3> QED
      BY <2>2, <3>2 DEF StagedIsGenuine
  <2>5. KeepsPrevious' /\ HashedIsGenuine'
    BY <1>0, <1>2, <2>2, <2>3, PreviousFrame, HashedFrame DEF ActivationSteps, Keeps
  <2> QED
    BY <2>3, <2>4, <2>5 DEF Inv
<1> QED
  BY <1>8, <1>9

\* inspect_package
LEMMA InspectSteps ==
    ASSUME Types, Inv, InspectStaging \/ InspectPackage
    PROVE  Types' /\ Inv'
<1>0. SameJournals /\ CancelSeen /\ KeepsPrevious /\ HashedIsGenuine /\ StagedIsGenuine
  BY DEF Inv
<1>1. /\ job \in Jobs /\ active /\ job.pc \in {"inspect", "inspect_package"}
      /\ "Promoting" \in Phases \ {"Ready"}
  BY JobFacts DEF InspectStaging, InspectPackage, Phases
<1>2. UNCHANGED <<active, cancel, part, done, pkg, settings, provider, server, stamp, removed, touches,
                  starts, crashes>>
  BY DEF InspectStaging, InspectPackage, staging, activation, world
<1>3. /\ UNCHANGED <<disk, mem>> \/ Transition("Promoting")
      /\ \/ job.pc = "inspect" /\ GoTo("promote")
         \/ GoTo("bind")
  BY DEF InspectStaging, InspectPackage, At
<1>4. /\ job' \in Jobs /\ job'.pc \in {"promote", "bind"} /\ job'.hashed = job.hashed
      /\ job'.pc = "promote" => job.pc = "inspect"
  BY <1>1, <1>3, GoToJob, StepNames
<1>5. TypeFiles' /\ TypeActivation'
  BY <1>2 DEF Types, TypeFiles, TypeActivation
<1>6. Types' /\ SameJournals' /\ CancelSeen' /\ Keeps
  BY <1>0, <1>1, <1>2, <1>3, <1>4, <1>5, StepNames, LateTypes
<1>7. StagedIsGenuine'
  BY <1>0, <1>2, <1>4 DEF StagedIsGenuine, Genuine
<1>8. KeepsPrevious' /\ HashedIsGenuine'
  BY <1>0, <1>2, <1>4, <1>6, PreviousFrame, HashedFrame DEF ActivationSteps, Keeps
<1> QED
  BY <1>6, <1>7, <1>8 DEF Inv

\* verify_exact_package: the identity that is noted is the one of genuine files.
LEMMA VerifyExactStep ==
    ASSUME Types, Inv, VerifyExactPackage
    PROVE  Types' /\ Inv'
<1>0. SameJournals /\ CancelSeen /\ KeepsPrevious /\ HashedIsGenuine
  BY DEF Inv
<1>1. /\ job \in Jobs /\ active /\ job.pc = "hash_package" /\ Transition("Inspecting")
      /\ job' = [job EXCEPT !.pc = "inspect_package", !.hashed = pkg.stamp]
      /\ pkg.there /\ PackageGenuine /\ "Inspecting" \in Phases \ {"Ready"}
  BY JobFacts DEF VerifyExactPackage, PackageGenuine, Phases
<1>2. UNCHANGED <<active, cancel, part, done, pkg, settings, provider, server, stamp, removed, touches,
                  starts, crashes>>
  BY DEF VerifyExactPackage, staging, activation, world
<1>3. pkg.stamp \in Nat /\ stamp \in Nat /\ "inspect_package" \in Steps
  BY StepNames DEF Types, TypeFiles, Packages
<1>4. job' \in Jobs /\ job'.pc = "inspect_package" /\ job'.hashed = pkg.stamp
  BY <1>1, <1>3 DEF Jobs
<1>5. TypeFiles' /\ TypeActivation'
  BY <1>2 DEF Types, TypeFiles, TypeActivation
<1>6. Types' /\ SameJournals' /\ CancelSeen' /\ Keeps
  BY <1>0, <1>1, <1>2, <1>4, <1>5, StepNames, LateTypes
<1>7. HashedIsGenuine'
  <2>1. PackageGenuine'
    BY <1>1, <1>2 DEF PackageGenuine
  <2>2. pkg.stamp <= stamp
    BY <1>0, <1>1, <1>3 DEF HashedIsGenuine
  <2> QED
    BY <1>0, <1>2, <1>4, <1>6, <2>1, <2>2 DEF HashedIsGenuine, Keeps
<1>8. KeepsPrevious'
  BY <1>0, <1>2, <1>4, <1>6, PreviousFrame DEF ActivationSteps
<1>9. StagedIsGenuine'
  BY <1>4 DEF StagedIsGenuine
<1> QED
  BY <1>6, <1>7, <1>8, <1>9 DEF Inv

\* promote_staging: the package gets an identity that nothing had before.
LEMMA PromoteStep ==
    ASSUME Types, Inv, PromoteStaging
    PROVE  Types' /\ Inv'
<1>0. SameJournals /\ CancelSeen /\ KeepsPrevious /\ HashedIsGenuine /\ StagedIsGenuine
  BY DEF Inv
<1>1. /\ job \in Jobs /\ active /\ job.pc = "promote"
      /\ job' = [job EXCEPT !.pc = "bind", !.hashed = stamp'] /\ stamp' = stamp + 1 /\ done' = NoFiles
      /\ pkg' = [there |-> TRUE, files |-> done, shape |-> TRUE, stamp |-> stamp']
  BY JobFacts DEF PromoteStaging
<1>2. UNCHANGED <<disk, mem, active, cancel, part, settings, provider, server, removed, touches,
                  starts, crashes>>
  BY DEF PromoteStaging, activation
<1>3. stamp \in Nat /\ stamp' \in Nat /\ stamp' > 0 /\ stamp < stamp' /\ "bind" \in Steps
  BY <1>1, StepNames DEF Types, TypeFiles
<1>4. job' \in Jobs /\ job'.pc = "bind" /\ job'.hashed = stamp'
  BY <1>1, <1>3 DEF Jobs
<1>5. TypeFiles' /\ TypeActivation'
  <2>1. done \in [Assets -> Seq(Versions \cup {"damaged"})]
    <3>1. \A a \in Assets : done[a] \in Seq(Versions \cup {"damaged"})
      BY DEF Types, TypeFiles
    <3> QED
      BY <3>1 DEF Types, TypeFiles
  <2>2. pkg' \in Packages
    BY <1>1, <1>3, <2>1 DEF Packages
  <2>3. done' \in [Assets -> Seq(Versions)]
    BY <1>1 DEF NoFiles
  <2> QED
    BY <1>2, <1>3, <2>2, <2>3 DEF Types, TypeFiles, TypeActivation
<1>6. Types' /\ SameJournals' /\ CancelSeen' /\ Keeps
  BY <1>0, <1>1, <1>2, <1>4, <1>5, StepNames, LateTypes
<1>7. HashedIsGenuine'
  <2>1. PackageGenuine'
    BY <1>0, <1>1 DEF StagedIsGenuine, PackageGenuine, Genuine
  <2>2. mem.receipt.hashed \in Nat
    BY DEF Types, TypeJournals, Journals, ReceiptsOf
  <2>3. mem'.receipt.hashed <= stamp' /\ job'.hashed <= stamp'
    BY <1>0, <1>2, <1>3, <1>4, <2>2 DEF HashedIsGenuine
  <2>4. pkg'.stamp \in 1 .. stamp'
    BY <1>1, <1>3
  <2> QED
    BY <2>1, <2>3, <2>4 DEF HashedIsGenuine
<1>8. KeepsPrevious'
  BY <1>0, <1>1, <1>2, <1>4, <1>6, PreviousFrame DEF ActivationSteps
<1>9. StagedIsGenuine'
  BY <1>4 DEF StagedIsGenuine
<1> QED
  BY <1>6, <1>7, <1>8, <1>9 DEF Inv

-----------------------------------------------------------------------------
(* The activation                                                          *)

\* The journal gets the configuration to go back to.
LEMMA PrevJournal ==
    ASSUME TypeJournals, NEW c \in Configs
    PROVE  LET j == [mem EXCEPT !.prev = c]
           IN  /\ j \in Journals /\ j.phase = mem.phase
               /\ j.there = mem.there /\ j.prev = c /\ j.receipt = mem.receipt
BY DEF TypeJournals, Journals

\* The snapshot is taken from settings of before the installation.
LEMMA BindStep ==
    ASSUME Types, Inv, Bind
    PROVE  Types' /\ Inv'
<1>0. SameJournals /\ CancelSeen /\ KeepsPrevious /\ HashedIsGenuine /\ StagedIsGenuine
  BY DEF Inv
<1>1. /\ job \in Jobs /\ active /\ job.pc = "bind" /\ pkg.there
      /\ job' = [job EXCEPT !.pc = "configure", !.bound = pkg.stamp]
  BY JobFacts DEF Bind
<1>2. UNCHANGED <<active, cancel, part, done, pkg, settings, provider, server, stamp, removed, touches,
                  starts, crashes>>
  BY DEF Bind, staging, activation, world
<1>3. pkg.stamp \in Nat /\ "configure" \in Steps /\ "configure" \in ActivationSteps
  BY StepNames DEF Types, TypeFiles, Packages, ActivationSteps
<1>4. job' \in Jobs /\ job'.pc = "configure" /\ job'.hashed = job.hashed
  BY <1>1, <1>3 DEF Jobs
<1>5. settings \in Configs /\ settings # NoConfig /\ mem.prev \in Configs
  BY DEF Types, TypeActivation, TypeJournals, Journals, Configs, Chosen, NoConfig, Choices
<1>6. /\ TypeJournals' /\ SameJournals'
      /\ mem'.there = mem.there /\ mem'.receipt = mem.receipt /\ mem'.prev # NoConfig
      /\ mem'.phase = "Ready" \/ disk'.phase = "Ready" => mem.phase = "Ready" \/ disk.phase = "Ready"
      /\ mem'.prev = mem.prev \/ (mem.prev = NoConfig /\ mem'.prev = settings)
  <2>1. CASE mem.prev # NoConfig
    <3>1. UNCHANGED <<disk, mem>>
      BY <2>1 DEF Bind, Previous
    <3> QED
      BY <1>0, <2>1, <3>1 DEF Types, TypeJournals, SameJournals
  <2>2. CASE mem.prev = NoConfig
    <3> DEFINE j == [mem EXCEPT !.prev = settings]
    <3>1. disk' = j /\ mem' = j
      BY <1>5, <2>2 DEF Bind, Previous, Save
    <3>2. /\ j \in Journals /\ j.phase = mem.phase
          /\ j.there = mem.there /\ j.prev = settings /\ j.receipt = mem.receipt
      BY <1>5, PrevJournal DEF Types
    <3>3. mem.there
      BY <1>0, <1>1 DEF KeepsPrevious
    <3> HIDE DEF j
    <3> QED
      BY <1>0, <1>5, <2>2, <3>1, <3>2, <3>3 DEF TypeJournals, SameJournals
  <2> QED
    BY <2>1, <2>2
<1>7. TypeJob' /\ CancelSeen'
  BY <1>0, <1>1, <1>2, <1>4, StepNames, LateGoesOn DEF Types, AssetSteps
<1>8. Types'
  BY <1>2, <1>6, <1>7 DEF Types, TypeFiles, TypeActivation, TypeBounds
<1>9. KeepsPrevious'
  <2>1. ~provider /\ ~removed => Old(mem'.prev)
    BY <1>0, <1>6 DEF KeepsPrevious
  <2>2. mem'.phase = "Ready" \/ disk'.phase = "Ready" \/ job'.pc = "ready" => provider
    BY <1>0, <1>4, <1>6 DEF KeepsPrevious
  <2>3. active => mem'.there
    BY <1>0, <1>6 DEF KeepsPrevious
  <2> QED
    BY <1>1, <1>2, <1>6, <2>1, <2>2, <2>3 DEF KeepsPrevious, Old
<1>10. HashedIsGenuine'
  BY <1>0, <1>2, <1>4, <1>6, HashedFrame
<1>11. StagedIsGenuine'
  BY <1>4 DEF StagedIsGenuine
<1> QED
  BY <1>6, <1>7, <1>8, <1>9, <1>10, <1>11 DEF Inv

\* From the snapshot to the end of the job there is a configuration to go back to.
LEMMA ActivationFrame ==
    ASSUME KeepsPrevious, Keeps, job.pc \in ActivationSteps, UNCHANGED <<pkg, removed>>,
           provider => provider', job'.pc = "ready" => provider', active' => active
    PROVE  KeepsPrevious'
BY DEF KeepsPrevious, Keeps, Old

\* Configure, commit_verified_local_model_directory, set_default_prewarmed_model,
\* save_provider, and their errors.
LEMMA CommitSteps ==
    ASSUME Types, Inv,
           \/ Configure \/ CommitRoot \/ CommitModel
           \/ \E works \in BOOLEAN : PrepareModel(works)
           \/ SaveProvider \/ ActivationFails
    PROVE  Types' /\ Inv'
<1>0. SameJournals /\ CancelSeen /\ KeepsPrevious /\ HashedIsGenuine /\ StagedIsGenuine
  BY DEF Inv
<1>1. /\ job \in Jobs /\ active /\ job.pc \in {"configure", "root", "model", "prepare", "provider"}
      /\ "Configuring" \in Phases \ {"Ready"}
  <2>1. active /\ job.pc \in {"configure", "root", "model", "prepare", "provider"}
    BY DEF Configure, CommitRoot, CommitModel, PrepareModel, SaveProvider, ActivationFails, At
  <2> QED
    BY <2>1 DEF Types, TypeJob, Phases
<1>2. UNCHANGED <<active, cancel, part, done, pkg, server, stamp, removed, touches, starts, crashes>>
  BY DEF Configure, CommitRoot, CommitModel, PrepareModel, SaveProvider, ActivationFails, staging,
         activation, world
<1>3. UNCHANGED <<disk, mem>> \/ Transition("Configuring")
  BY DEF Configure, CommitRoot, CommitModel, PrepareModel, SaveProvider, ActivationFails
<1>4. settings \in Chosen /\ settings.model \in Choices
      /\ (job.pc = "prepare" => job.was \in Choices)
  BY <1>1 DEF Types, TypeActivation, TypeJob, Chosen, Jobs
<1>5. /\ job' \in Jobs /\ job'.hashed = job.hashed
      /\ job'.pc \in {"root", "model", "prepare", "provider", "restore", "ready"}
      /\ job'.pc = "prepare" => job'.was # "none"
      /\ job'.pc = "ready" => provider'
  <2>1. CASE CommitModel
    <3>1. job' = [job EXCEPT !.pc = "prepare", !.was = settings.model]
      BY <2>1 DEF CommitModel
    <3>2. "prepare" \in Steps /\ settings.model \in Choices \cup {"none"} /\ settings.model # "none"
      BY <1>4 DEF Steps, ActivationSteps, Choices
    <3> QED
      BY <1>1, <3>1, <3>2 DEF Jobs
  <2>2. CASE ~CommitModel
    <3>1. \E s \in {"root", "model", "provider", "restore", "ready"} : GoTo(s) /\ (s = "ready" => provider')
      BY <2>2 DEF Configure, CommitRoot, PrepareModel, SaveProvider, ActivationFails
    <3>2. {"root", "model", "provider", "restore", "ready"} \subseteq Steps
      BY DEF Steps, ActivationSteps
    <3> QED
      BY <1>1, <3>1, <3>2, GoToJob
  <2> QED
    BY <2>1, <2>2
<1>6. TypeActivation' /\ (provider => provider')
  <2>1. settings' \in Chosen
    <3>1. CASE CommitRoot
      BY <1>4, <3>1 DEF CommitRoot, Chosen, Choices
    <3>2. CASE CommitModel
      BY <1>4, <3>2 DEF CommitModel, Chosen, Choices
    <3>3. CASE \E works \in BOOLEAN : PrepareModel(works)
      <4>1. job.pc = "prepare" /\ settings' \in {settings, [settings EXCEPT !.model = job.was]}
        BY <3>3 DEF PrepareModel, At
      <4> QED
        BY <1>4, <4>1 DEF Chosen
    <3>4. CASE Configure \/ SaveProvider \/ ActivationFails
      BY <1>4, <3>4 DEF Configure, SaveProvider, ActivationFails, activation
    <3> QED
      BY <3>1, <3>2, <3>3, <3>4
  <2>2. provider' = TRUE \/ provider' = provider
    BY DEF Configure, CommitRoot, CommitModel, PrepareModel, SaveProvider, ActivationFails, activation
  <2> QED
    BY <1>2, <2>1, <2>2 DEF Types, TypeActivation
<1>7. TypeFiles'
  BY <1>2 DEF Types, TypeFiles
<1>8. Types' /\ SameJournals' /\ CancelSeen' /\ Keeps
  BY <1>0, <1>1, <1>2, <1>3, <1>5, <1>6, <1>7, LateTypes DEF AssetSteps
<1>9. KeepsPrevious'
  BY <1>0, <1>1, <1>2, <1>5, <1>6, <1>8, ActivationFrame DEF ActivationSteps
<1>10. HashedIsGenuine'
  BY <1>0, <1>2, <1>5, <1>8, HashedFrame DEF Keeps
<1>11. StagedIsGenuine'
  BY <1>5 DEF StagedIsGenuine
<1> QED
  BY <1>8, <1>9, <1>10, <1>11 DEF Inv

\* An error ends the job, with or without the settings restored.
LEMMA FailSteps ==
    ASSUME Types, Inv, RestorePrevious \/ StepFails
    PROVE  Types' /\ Inv'
<1>0. SameJournals /\ CancelSeen /\ KeepsPrevious /\ HashedIsGenuine /\ StagedIsGenuine
  BY DEF Inv
<1>1. /\ active /\ EndWith(Failure) /\ Failure \in Phases \ {"Ready"}
      /\ UNCHANGED <<part, done, pkg, provider, server, stamp, removed, touches, starts, crashes>>
  BY DEF RestorePrevious, StepFails, At, Failure, Phases, staging, activation, world
<1>2. TypeJournals' /\ Keeps /\ active' = FALSE /\ cancel' = "no" /\ job' = Idle
  BY <1>0, <1>1, EndKeeps DEF Types
<1>3. TypeJob' /\ CancelSeen' /\ job'.hashed = 0 /\ job'.pc = "idle"
  BY <1>2, EndJob
<1>4. \/ UNCHANGED settings
      \/ job.pc = "restore" /\ settings' = mem.prev
  BY DEF RestorePrevious, StepFails, At, activation
<1>5. settings' \in Chosen
  <2>1. settings \in Chosen /\ mem.prev \in Configs
    BY DEF Types, TypeActivation, TypeJournals, Journals
  <2>2. job.pc = "restore" => mem.prev # NoConfig
    BY <1>0 DEF KeepsPrevious, ActivationSteps
  <2> QED
    BY <1>4, <2>1, <2>2 DEF Configs
<1>6. Types'
  BY <1>1, <1>2, <1>3, <1>5 DEF Types, TypeFiles, TypeActivation, TypeBounds
<1>7. KeepsPrevious'
  <2>1. CASE UNCHANGED settings
    BY <1>0, <1>1, <1>2, <1>3, <2>1, PreviousFrame DEF ActivationSteps
  <2>2. CASE job.pc = "restore"
    BY <1>0, <1>1, <1>2, <1>3, <2>2, ActivationFrame DEF ActivationSteps
  <2> QED
    BY <1>4, <2>1, <2>2
<1>8. HashedIsGenuine'
  BY <1>0, <1>1, <1>2, <1>3, HashedFrame DEF Keeps
<1>9. StagedIsGenuine' /\ SameJournals'
  BY <1>0, <1>2, <1>3, SameFrame DEF StagedIsGenuine
<1> QED
  BY <1>3, <1>6, <1>7, <1>8, <1>9 DEF Inv

\* The receipt says what was hashed and what was bound.
LEMMA ReadyStep ==
    ASSUME Types, Inv, Ready
    PROVE  Types' /\ Inv'
<1> DEFINE r == [bound |-> job.bound, hashed |-> job.hashed]
           j == [mem EXCEPT !.phase = "Ready", !.receipt = r]
<1>0. SameJournals /\ CancelSeen /\ KeepsPrevious /\ HashedIsGenuine /\ StagedIsGenuine
  BY DEF Inv
<1>1. /\ active /\ job.pc = "ready" /\ job.bound \in Nat /\ job.hashed \in Nat
      /\ UNCHANGED <<part, done, pkg, settings, provider, server, stamp, removed, touches, starts, crashes>>
      /\ mem' = j /\ disk' = j /\ active' = FALSE /\ cancel' = "no" /\ job' = Idle
  BY JobFacts DEF Ready, End, staging, activation, world
<1>2. r \in ReceiptsOf /\ r.hashed = job.hashed /\ "Ready" \in Phases
  BY <1>1 DEF ReceiptsOf, Phases
<1>3. /\ j \in Journals /\ j.phase = "Ready" /\ j.receipt = r /\ j.prev = mem.prev
      /\ j.there = mem.there
  <2> HIDE DEF r
  <2> QED
    BY <1>2 DEF Types, TypeJournals, Journals
<1> HIDE DEF r, j
<1>4. TypeJob' /\ CancelSeen' /\ job'.hashed = 0 /\ job'.pc = "idle"
  BY <1>1, EndJob
<1>5. Types'
  BY <1>1, <1>3, <1>4 DEF Types, TypeJournals, TypeFiles, TypeActivation, TypeBounds
<1>6. SameJournals'
  BY <1>0, <1>1, <1>3 DEF SameJournals
<1>7. provider
  BY <1>0, <1>1 DEF KeepsPrevious
<1>8. KeepsPrevious'
  BY <1>1, <1>4, <1>7 DEF KeepsPrevious, ActivationSteps
<1>9. HashedIsGenuine'
  <2>1. stamp \in Nat /\ (pkg.there => pkg.stamp \in Nat /\ pkg.stamp # 0)
    BY <1>0 DEF Types, TypeFiles, HashedIsGenuine
  <2>2. mem'.receipt.hashed = job.hashed
    BY <1>1, <1>2, <1>3
  <2> QED
    BY <1>0, <1>1, <1>4, <2>1, <2>2 DEF HashedIsGenuine, PackageGenuine
<1>10. StagedIsGenuine'
  BY <1>4 DEF StagedIsGenuine
<1> QED
  BY <1>4, <1>5, <1>6, <1>8, <1>9, <1>10 DEF Inv

-----------------------------------------------------------------------------
(* The commands and the world                                              *)

\* InstallJournal::new
LEMMA NewJournalType ==
    /\ NewJournal \in Journals /\ NewJournal.there /\ NewJournal.phase = "Absent"
    /\ NewJournal.prev = NoConfig /\ NewJournal.receipt = NoReceipt
    /\ NoReceipt \in ReceiptsOf /\ NoReceipt.hashed = 0
<1>1. "none" \in Tags /\ "Absent" \in Phases /\ NoConfig \in Configs
  BY DEF Tags, Phases, Configs
<1>2. NoReceipt \in ReceiptsOf /\ NoReceipt.hashed = 0
  BY DEF NoReceipt, ReceiptsOf
<1>3. [a \in Assets |-> "none"] \in [Assets -> Tags]
  BY <1>1
<1> QED
  BY <1>1, <1>2, <1>3 DEF NewJournal, Journals

\* A new start forgets the snapshot of a finished installation only.
LEMMA StartStep ==
    ASSUME Types, Inv, Start
    PROVE  Types' /\ Inv'
<1> DEFINE base == IF mem.there THEN mem ELSE NewJournal
           p == IF Complete THEN "Verifying" ELSE "Downloading"
           c == IF base.phase = "Ready" THEN NoConfig ELSE base.prev
           j == [base EXCEPT !.prev = c, !.receipt = NoReceipt, !.phase = p]
<1>0. SameJournals /\ CancelSeen /\ KeepsPrevious /\ HashedIsGenuine /\ StagedIsGenuine
  BY DEF Inv
<1>1. /\ ~active /\ disk' = j /\ mem' = j /\ active' = TRUE /\ job' = [Idle EXCEPT !.pc = "choose"]
      /\ starts' = starts + 1
      /\ UNCHANGED <<cancel, part, done, pkg, settings, provider, server, stamp, removed, touches, crashes>>
  BY DEF Start, Save, staging, activation, world
<1>2. base \in Journals /\ base.there /\ base.prev \in Configs
      /\ (~provider => base.phase # "Ready" /\ base.prev = mem.prev)
  <2>1. CASE mem.there
    BY <1>0, <2>1 DEF Types, TypeJournals, Journals, KeepsPrevious
  <2>2. CASE ~mem.there
    BY <1>0, <2>2, NewJournalType DEF SameJournals, Configs
  <2> QED
    BY <2>1, <2>2
<1>3. p \in Phases /\ p # "Ready" /\ c \in Configs /\ (~provider => c = mem.prev)
  BY <1>2 DEF Phases, Configs
<1> HIDE DEF base, p, c
<1>4. /\ j \in Journals /\ j.there /\ j.prev = c /\ j.receipt = NoReceipt /\ j.phase = p
  BY <1>2, <1>3, NewJournalType DEF Journals
<1> HIDE DEF j
<1>5. job' \in Jobs /\ job'.pc = "choose" /\ job'.at = 1 /\ job'.hashed = 0
  <2>1. "choose" \in Steps
    BY DEF Steps
  <2> QED
    BY <1>1, <2>1, IdleJob DEF Jobs
<1>6. cancel = "no"
  BY <1>0, <1>1 DEF CancelSeen, Types, TypeJob
<1>7. TypeJob' /\ CancelSeen'
  BY <1>1, <1>5, <1>6 DEF TypeJob, CancelSeen, AssetSteps
<1>8. Types'
  BY <1>1, <1>4, <1>7 DEF Types, TypeJournals, TypeFiles, TypeActivation, TypeBounds
<1>9. SameJournals'
  BY <1>1, <1>4 DEF SameJournals
<1>10. KeepsPrevious'
  <2>1. mem'.there /\ mem'.phase # "Ready" /\ disk'.phase # "Ready" /\ job'.pc \notin ActivationSteps
        /\ job'.pc # "ready"
    BY <1>1, <1>3, <1>4, <1>5 DEF ActivationSteps
  <2>2. ~provider => mem'.prev = mem.prev
    BY <1>1, <1>3, <1>4
  <2> QED
    BY <1>0, <1>1, <2>1, <2>2 DEF KeepsPrevious, Old
<1>11. HashedIsGenuine'
  <2>1. stamp \in Nat /\ (pkg.there => pkg.stamp \in Nat /\ pkg.stamp # 0)
    BY <1>0 DEF Types, TypeFiles, HashedIsGenuine
  <2>2. mem'.receipt.hashed = 0
    BY <1>1, <1>4, NewJournalType
  <2> QED
    BY <1>0, <1>1, <1>5, <2>1, <2>2 DEF HashedIsGenuine
<1>12. StagedIsGenuine'
  BY <1>5 DEF StagedIsGenuine
<1> QED
  BY <1>7, <1>8, <1>9, <1>10, <1>11, <1>12 DEF Inv

\* A cancellation that is in time is noted as such.
LEMMA CancelStep ==
    ASSUME Types, Inv, Cancel
    PROVE  Types' /\ Inv'
<1>1. /\ active /\ cancel' = IF InTime THEN "in_time" ELSE "late"
      /\ UNCHANGED <<disk, mem, active, job, part, done, pkg, settings, provider, server, stamp, removed,
                     touches, starts, crashes>>
  BY DEF Cancel, staging, activation, world
<1>2. CancelSeen' /\ cancel' \in {"no", "in_time", "late"}
  BY <1>1 DEF CancelSeen, InTime
<1>3. Types'
  BY <1>1, <1>2 DEF Types, TypeJournals, TypeJob, TypeFiles, TypeActivation, TypeBounds
<1>4. SameJournals' /\ KeepsPrevious'
  BY <1>1 DEF Inv, SameJournals, KeepsPrevious, Old
<1>5. HashedIsGenuine' /\ StagedIsGenuine'
  BY <1>1 DEF Inv, HashedIsGenuine, PackageGenuine, StagedIsGenuine, Staged, Genuine
<1> QED
  BY <1>2, <1>3, <1>4, <1>5 DEF Inv

\* An idle job.
LEMMA IdleFacts ==
    ASSUME Types, CancelSeen, ~active
    PROVE  job.pc = "idle" /\ cancel = "no"
BY DEF Types, TypeJob, CancelSeen

\* What is discarded has no package, so the settings are not the new ones.
LEMMA DiscardStep ==
    ASSUME Types, Inv, NEW saved \in BOOLEAN, Discard(saved)
    PROVE  Types' /\ Inv'
<1>0. SameJournals /\ CancelSeen /\ KeepsPrevious /\ HashedIsGenuine /\ StagedIsGenuine
  BY DEF Inv
<1>1. /\ ~active /\ ~pkg.there /\ part' = NoFiles /\ done' = NoFiles
      /\ UNCHANGED <<active, cancel, job, pkg, settings, provider, server, stamp, removed, touches, starts,
                     crashes>>
      /\ UNCHANGED <<disk, mem>> \/ (disk' = NewJournal /\ mem' = NewJournal)
  BY DEF Discard, Save, activation, world
<1>2. job.pc = "idle" /\ cancel = "no"
  BY <1>0, <1>1, IdleFacts
<1>3. TypeJournals' /\ SameJournals'
  BY <1>0, <1>1, NewJournalType DEF Types, TypeJournals, SameJournals
<1>4. Types'
  <2>1. NoFiles \in [Assets -> Seq(Versions)]
    BY DEF NoFiles
  <2>2. TypeFiles'
    BY <1>1, <2>1 DEF Types, TypeFiles
  <2> QED
    BY <1>1, <1>3, <2>2 DEF Types, TypeJob, TypeActivation, TypeBounds
<1>5. CancelSeen'
  BY <1>1, <1>2 DEF CancelSeen
<1>6. KeepsPrevious'
  <2>1. CASE UNCHANGED <<disk, mem>>
    BY <1>0, <1>1, <2>1 DEF KeepsPrevious, Old
  <2>2. CASE disk' = NewJournal /\ mem' = NewJournal
    <3>1. ~provider /\ ~removed => Old(settings)
      BY <1>0, <1>1 DEF KeepsPrevious
    <3>2. mem'.prev = NoConfig /\ Old(NoConfig) /\ mem'.phase = "Absent" /\ disk'.phase = "Absent"
      BY <2>2, NewJournalType DEF NoConfig, Old
    <3> QED
      BY <1>1, <1>2, <3>1, <3>2 DEF KeepsPrevious, Old, ActivationSteps
  <2> QED
    BY <1>1, <2>1, <2>2
<1>7. HashedIsGenuine'
  <2>1. stamp \in Nat /\ (mem'.receipt.hashed = mem.receipt.hashed \/ mem'.receipt.hashed = 0)
    BY <1>1, NewJournalType DEF Types, TypeFiles
  <2>2. mem'.receipt.hashed <= stamp
    BY <1>0, <2>1 DEF HashedIsGenuine
  <2> QED
    BY <1>0, <1>1, <2>2 DEF HashedIsGenuine
<1>8. StagedIsGenuine'
  BY <1>1, <1>2 DEF StagedIsGenuine
<1> QED
  BY <1>3, <1>4, <1>5, <1>6, <1>7, <1>8 DEF Inv

\* The next process finds in the journal what this one knew.
LEMMA RestartStep ==
    ASSUME Types, Inv, Restart
    PROVE  Types' /\ Inv'
<1>0. SameJournals /\ CancelSeen /\ KeepsPrevious /\ HashedIsGenuine /\ StagedIsGenuine
  BY DEF Inv
<1>1. /\ mem' = disk /\ disk' = disk /\ active' = FALSE /\ cancel' = "no" /\ job' = Idle
      /\ crashes' = crashes + 1
      /\ UNCHANGED <<part, done, pkg, settings, provider, server, stamp, removed, touches, starts>>
  BY DEF Restart, staging, activation, world
<1>2. TypeJob' /\ CancelSeen' /\ job'.hashed = 0 /\ job'.pc = "idle"
  BY <1>1, EndJob
<1>3. Keeps
  BY <1>0, <1>1 DEF Keeps, SameJournals
<1>4. Types'
  BY <1>1, <1>2 DEF Types, TypeJournals, TypeFiles, TypeActivation, TypeBounds
<1>5. KeepsPrevious' /\ SameJournals' /\ HashedIsGenuine'
  BY <1>0, <1>1, <1>2, <1>3, SameFrame, PreviousFrame, HashedFrame DEF ActivationSteps, Keeps
<1>6. StagedIsGenuine'
  BY <1>2 DEF StagedIsGenuine
<1> QED
  BY <1>2, <1>4, <1>5, <1>6 DEF Inv

\* The user chooses, the server changes, nothing happens.
LEMMA OutsideSteps ==
    ASSUME Types, Inv,
           \/ \E field \in {"root", "model"} : UserChooses(field)
           \/ \E v \in Versions : ServerChanges(v)
           \/ UNCHANGED vars
    PROVE  Types' /\ Inv'
<1>1. UNCHANGED <<disk, mem, active, cancel, job, part, done, pkg, provider, stamp, removed, starts, crashes>>
  BY DEF UserChooses, ServerChanges, staging, activation, vars, world
<1>2. settings' \in Chosen /\ (Old(settings) => Old(settings'))
  <2>1. settings \in Chosen
    BY DEF Types, TypeActivation
  <2>2. CASE \E field \in {"root", "model"} : UserChooses(field)
    <3>1. settings' = [settings EXCEPT !["root"] = "user"] \/ settings' = [settings EXCEPT !["model"] = "user"]
      BY <2>2 DEF UserChooses
    <3>2. "user" \in Choices /\ "user" # "new"
      BY DEF Choices
    <3>3. CASE settings' = [settings EXCEPT !["root"] = "user"]
      BY <2>1, <3>2, <3>3 DEF Chosen, Old
    <3>4. CASE settings' = [settings EXCEPT !["model"] = "user"]
      BY <2>1, <3>2, <3>4 DEF Chosen, Old
    <3> QED
      BY <3>1, <3>3, <3>4
  <2>3. CASE UNCHANGED settings
    BY <2>1, <2>3
  <2> QED
    BY <2>2, <2>3 DEF ServerChanges, activation, vars
<1>3. touches' \in Nat /\ server' \in Versions
  BY DEF UserChooses, ServerChanges, Touch, vars, world, Types, TypeBounds, TypeFiles
<1>4. Types'
  BY <1>1, <1>2, <1>3 DEF Types, TypeJournals, TypeJob, TypeFiles, TypeActivation, TypeBounds
<1>5. SameJournals' /\ CancelSeen'
  BY <1>1 DEF Inv, SameJournals, CancelSeen, InTime
<1>6. KeepsPrevious'
  BY <1>1, <1>2 DEF Inv, KeepsPrevious, Old
<1>7. HashedIsGenuine' /\ StagedIsGenuine'
  BY <1>1 DEF Inv, HashedIsGenuine, PackageGenuine, StagedIsGenuine, Staged, Genuine
<1> QED
  BY <1>4, <1>5, <1>6, <1>7 DEF Inv

\* A package that changes gets an identity that was never hashed.
LEMMA PackageChangesStep ==
    ASSUME Types, Inv, NEW a \in Assets, NEW shape \in BOOLEAN, PackageChanges(a, shape)
    PROVE  Types' /\ Inv'
<1>0. SameJournals /\ CancelSeen /\ KeepsPrevious /\ HashedIsGenuine /\ StagedIsGenuine
  BY DEF Inv
<1> DEFINE f == [pkg.files EXCEPT ![a] = [i \in 1..Size |-> "damaged"]]
<1>1. /\ pkg.there /\ stamp' = stamp + 1 /\ touches' = touches + 1
      /\ UNCHANGED <<disk, mem, active, cancel, job, part, done, settings, provider, server, removed, starts,
                     crashes>>
  BY DEF PackageChanges, Touch, staging, activation
<1>2. stamp \in Nat /\ stamp' \in Nat /\ stamp < stamp'
  BY <1>1 DEF Types, TypeFiles
<1>3. pkg' \in Packages /\ pkg'.there /\ pkg'.stamp = stamp'
  <2>1. f \in [Assets -> Seq(Versions \cup {"damaged"})]
    <3>1. Size \in Nat /\ [i \in 1..Size |-> "damaged"] \in [1..Size -> Versions \cup {"damaged"}]
      BY InstallAssumption
    <3>2. [i \in 1..Size |-> "damaged"] \in Seq(Versions \cup {"damaged"})
      BY <3>1
    <3> QED
      BY <3>2 DEF Types, TypeFiles, Packages
  <2>2. pkg' = [pkg EXCEPT !.files = f, !.shape = shape /\ pkg.shape, !.stamp = stamp']
    BY DEF PackageChanges, Types, TypeFiles, Packages
  <2>3. (shape /\ pkg.shape) \in BOOLEAN
    OBVIOUS
  <2> HIDE DEF f
  <2> QED
    BY <1>1, <1>2, <2>1, <2>2, <2>3 DEF Types, TypeFiles, Packages
<1>4. Types'
  BY <1>1, <1>2, <1>3 DEF Types, TypeJournals, TypeJob, TypeFiles, TypeActivation, TypeBounds
<1>5. SameJournals' /\ CancelSeen'
  BY <1>0, <1>1, <1>3 DEF SameJournals, CancelSeen, InTime
<1>6. KeepsPrevious'
  BY <1>0, <1>1, <1>3 DEF KeepsPrevious, Old
<1>7. HashedIsGenuine'
  <2>1. job.hashed \in Nat /\ mem.receipt.hashed \in Nat
    BY DEF Types, TypeJob, Jobs, TypeJournals, Journals, ReceiptsOf
  <2>2. job.hashed < stamp' /\ mem.receipt.hashed < stamp'
    BY <1>0, <1>1, <1>2, <2>1 DEF HashedIsGenuine
  <2> QED
    BY <1>1, <1>2, <1>3, <2>1, <2>2 DEF HashedIsGenuine
<1>8. StagedIsGenuine'
  BY <1>0, <1>1 DEF StagedIsGenuine, Staged, Genuine
<1> QED
  BY <1>4, <1>5, <1>6, <1>7, <1>8 DEF Inv

\* A package that is removed by hand was finished, or that is noted.
LEMMA PackageRemovedStep ==
    ASSUME Types, Inv, PackageRemoved
    PROVE  Types' /\ Inv'
<1>0. SameJournals /\ CancelSeen /\ KeepsPrevious /\ HashedIsGenuine /\ StagedIsGenuine
  BY DEF Inv
<1>1. /\ ~active /\ pkg' = NoPackage /\ touches' = touches + 1 /\ removed' = (removed \/ mem.phase /= "Ready")
      /\ UNCHANGED <<disk, mem, active, cancel, job, part, done, settings, provider, server, stamp, starts,
                     crashes>>
  BY DEF PackageRemoved, Touch, staging, activation
<1>2. job.pc = "idle" /\ cancel = "no"
  BY <1>0, <1>1, IdleFacts
<1>3. pkg' \in Packages /\ ~pkg'.there
  <2>1. NoFiles \in [Assets -> Seq(Versions \cup {"damaged"})]
    BY DEF NoFiles
  <2> QED
    BY <1>1, <2>1 DEF NoPackage, Packages
<1>4. Types'
  BY <1>1, <1>3 DEF Types, TypeJournals, TypeJob, TypeFiles, TypeActivation, TypeBounds
<1>5. SameJournals' /\ CancelSeen'
  BY <1>0, <1>1, <1>2 DEF SameJournals, CancelSeen
<1>6. KeepsPrevious'
  BY <1>0, <1>1, <1>2 DEF KeepsPrevious, ActivationSteps
<1>7. HashedIsGenuine' /\ StagedIsGenuine'
  BY <1>0, <1>1, <1>2, <1>3 DEF HashedIsGenuine, StagedIsGenuine
<1> QED
  BY <1>4, <1>5, <1>6, <1>7 DEF Inv

-----------------------------------------------------------------------------
(* The theorems                                                            *)

\* The invariant holds before the first installation.
LEMMA InitInv == Init => Types /\ Inv
<1> SUFFICES ASSUME Init PROVE Types /\ Inv
  OBVIOUS
<1> DEFINE j == [NewJournal EXCEPT !.there = FALSE]
<1>1. j \in Journals /\ ~j.there /\ j.prev = NoConfig /\ j.receipt = NoReceipt /\ j.phase = "Absent"
  BY NewJournalType DEF Journals
<1>2. disk = j /\ mem = j
  BY DEF Init
<1> HIDE DEF j
<1>3. job \in Jobs /\ job.pc = "idle" /\ job.hashed = 0 /\ ~active /\ active \in BOOLEAN /\ cancel = "no"
  BY IdleJob DEF Init
<1>4. ~pkg.there /\ pkg \in Packages
  <2>1. NoFiles \in [Assets -> Seq(Versions \cup {"damaged"})]
    BY DEF NoFiles
  <2> QED
    BY <2>1 DEF Init, NoPackage, Packages
<1>5. settings \in Chosen /\ Old(settings)
  BY DEF Init, Chosen, Choices, Old
<1>6. Types
  <2>1. TypeJournals /\ TypeJob
    BY <1>1, <1>2, <1>3 DEF TypeJournals, TypeJob, AssetSteps
  <2>2. NoFiles \in [Assets -> Seq(Versions)]
    BY DEF NoFiles
  <2>3. TypeFiles /\ TypeActivation /\ TypeBounds
    BY <1>4, <1>5, <2>2, InstallAssumption DEF Init, TypeFiles, TypeActivation, TypeBounds
  <2> QED
    BY <2>1, <2>3 DEF Types
<1>7. SameJournals /\ CancelSeen
  BY <1>1, <1>2, <1>3 DEF SameJournals, CancelSeen
<1>8. KeepsPrevious
  <2>1. Old(NoConfig)
    BY DEF Old, NoConfig
  <2> QED
    BY <1>1, <1>2, <1>3, <1>5, <2>1 DEF KeepsPrevious, ActivationSteps
<1>9. HashedIsGenuine
  <2>1. stamp = 0 /\ mem.receipt.hashed = 0
    BY <1>1, <1>2, NewJournalType DEF Init
  <2> QED
    BY <1>3, <1>4, <2>1 DEF HashedIsGenuine
<1>10. StagedIsGenuine
  BY <1>3 DEF StagedIsGenuine
<1> QED
  BY <1>6, <1>7, <1>8, <1>9, <1>10 DEF Inv

\* Every step keeps it.
LEMMA StepInv ==
    ASSUME Types, Inv, [Next]_vars
    PROVE  Types' /\ Inv'
<1>1. CASE JobStep
  BY <1>1, DownloadStep, VerifyStagingStep, SealAssetStep, InspectSteps, PromoteStep, VerifyExactStep,
     BindStep, CommitSteps, FailSteps, ReadyStep DEF JobStep
<1> QED
  BY <1>1, StartStep, CancelStep, RestartStep, DiscardStep, OutsideSteps, PackageChangesStep,
     PackageRemovedStep DEF Next

\* It always holds.
LEMMA InvHolds == Spec => [](Types /\ Inv)
<1>1. Types /\ Inv /\ [Next]_vars => (Types /\ Inv)'
  BY StepInv
<1> QED
  BY <1>1, InitInv, PTL DEF Spec

\* Every journal, file, job and setting keeps its type, and a job at work on an
\* asset is at one of the manifest: for every number of assets and chunks.
THEOREM InstallTypes == Spec => []Types
BY InvHolds, PTL

\* A cancellation that finds the job on its way to a check of the flag
\* (download_one_asset, cancellable_backoff, stream_response_to_partial) ends
\* it: whatever the retries and the server do, it is never verified, promoted
\* or activated.
THEOREM InstallCancelIsHonoured == Spec => []CancelIsHonoured
<1>1. Types /\ Inv => CancelIsHonoured
  BY DEF Inv, CancelSeen, InTime, CancelIsHonoured
<1> QED
  BY <1>1, InvHolds, PTL

\* However many attempts fail or die half way, while the settings name the new
\* model and no provider lists it, the journal on disk knows the configuration
\* of before the installation (finalize_install, restore_previous_settings).
THEOREM InstallPreviousIsKept == Spec => []PreviousIsKept
<1>1. Types /\ Inv => PreviousIsKept
  <2> SUFFICES ASSUME Types, Inv, "new" \in {settings.root, settings.model}, ~provider, ~removed
               PROVE  disk.prev # NoConfig /\ "new" \notin {disk.prev.root, disk.prev.model}
    BY DEF PreviousIsKept
  <2>1. ~Old(settings)
    BY DEF Old
  <2>2. Old(mem.prev) /\ mem.prev # NoConfig /\ mem.prev = disk.prev
    BY <2>1 DEF Inv, KeepsPrevious, SameJournals
  <2> QED
    BY <2>2 DEF Old
<1> QED
  BY <1>1, InvHolds, PTL

\* A package that project_idle_state shows as ready has the digests of the
\* manifest, wherever downloads were cut, whatever the servers sent and whatever
\* became of the package since, unless it changed between its hash and the
\* binding of its identity.
THEOREM InstallReadyIsGenuine == Spec => []ReadyIsGenuine
<1>1. Types /\ Inv => ReadyIsGenuine
  <2> SUFFICES ASSUME Types, Inv, PackageState = "Ready", mem.receipt.hashed = mem.receipt.bound
               PROVE  \A a \in Assets : Genuine(pkg.files[a])
    BY DEF ReadyIsGenuine
  <2>1. pkg.there /\ PackageIdentityMatches
    <3>1. CASE pkg.there /\ pkg.shape /\ mem.phase = "Ready" /\ PackageIdentityMatches
      BY <3>1
    <3>2. CASE ~(pkg.there /\ pkg.shape /\ mem.phase = "Ready" /\ PackageIdentityMatches)
      BY <3>2 DEF PackageState
    <3> QED
      BY <3>1, <3>2
  <2>2. pkg.stamp = mem.receipt.hashed
    BY <2>1 DEF PackageIdentityMatches
  <2> QED
    BY <2>1, <2>2 DEF Inv, HashedIsGenuine, PackageGenuine
<1> QED
  BY <1>1, InvHolds, PTL
=============================================================================
