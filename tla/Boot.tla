-------------------------------- MODULE Boot --------------------------------
(***************************************************************************)
(* How a daemon of the network (pepd, brokerd, anod) starts: its cell key, *)
(* the measurement of its provisioning files against the signed witness    *)
(* (registry/provisioning.go), pepd's measured boot against the signed     *)
(* manifest (registry/manifest.go, measured_boot.go) and the posture pepd  *)
(* starts in (pep/cmd/pepd/main.go).                                       *)
(*                                                                         *)
(* A version stands for the digest of every provisioning file together;    *)
(* Keyring[v] is the controllers' keyring (and quorum size) among them.  A *)
(* component version stands for the four measured artefacts.  Files change *)
(* at any time; the registry directory, the witness and the manifest are   *)
(* erased only while the daemon is down, and it crashes at any step.  The  *)
(* first keys of a deployment and the ones made after an erasure differ:   *)
(* the witness and the manifest bear the key that signed them.             *)
(***************************************************************************)
EXTENDS Naturals, FiniteSets

CONSTANTS Versions, ComponentVersions, Keyrings, Keyring, NoVersion, NoFile,
          MaxEdits, MaxBootProofs, MaxErasures, MaxBootCrashes

ASSUME BootAssumption ==
    /\ Keyring \in [Versions -> Keyrings]
    /\ NoVersion \notin Versions
    /\ \A b \in {MaxEdits, MaxBootProofs, MaxErasures, MaxBootCrashes} : b \in Nat

VARIABLES daemon,      \* which daemon starts
          provFiles,   \* the version of its provisioning files on disk
          components,  \* the version of the measured artefacts on disk
          rootSound,   \* the measured root is the provisioned one
          cellKey,     \* [id |-> cell_log.key (0: none), vkey |-> written too]
          logged,      \* the leaves of the registry directory's log
          witness,     \* TBP_PROVISIONING_WITNESS_FILE
          manifest,    \* TBP_MEASURED_BOOT_MANIFEST_FILE
          provProof,   \* TBP_PROVISIONING_TRANSITION_PROOF_FILE
          bootProof,   \* TBP_MEASURED_BOOT_TRANSITION_PROOF_FILE
          boot,        \* the process: its step and its local variables
          keysMade, edits, erasures, bootCrashes,   \* bounds
          signedProofs,  \* history: every proof the controllers signed
          evidence     \* history: what remains of an earlier service

disk == <<provFiles, components, rootSound>>
proofs == <<provProof, bootProof, signedProofs>>
budget == <<edits, erasures, bootCrashes>>
bootVars == <<daemon, disk, cellKey, logged, witness, manifest, proofs, boot,
              keysMade, budget, evidence>>

LoadsFirst == daemon # "brokerd"

Down == [pc |-> "down", loaded |-> NoVersion, restart |-> FALSE,
         target |-> NoVersion]

Proofs == [what : {"provisioning"}, by : Keyrings,
           from : Versions \cup {NoVersion}, to : Versions]
          \cup [what : {"measured-boot"}, by : Keyrings,
                from : ComponentVersions, to : ComponentVersions]

\* The absence of a file is none of the files that may be there.
ASSUME NoFileAssumption ==
    /\ NoFile \notin Proofs
    /\ NoFile \notin [of : ComponentVersions, key : Nat]
    /\ NoFile \notin [version : Versions, key : Nat, legacy : BOOLEAN]

StartLeaf(kind, v) == [kind |-> kind, of |-> v]
Refusal == StartLeaf("refuse", NoVersion)

(***************************************************************************)
(* The environment: operators, controllers, the clock of a proof.          *)
(***************************************************************************)
EditFiles ==
    /\ edits < MaxEdits
    /\ edits' = edits + 1
    /\ \/ \E v \in Versions \ {provFiles} :
             provFiles' = v /\ UNCHANGED <<components, rootSound>>
       \/ /\ daemon = "pepd"
          /\ \E c \in ComponentVersions \ {components} : components' = c
          /\ UNCHANGED <<provFiles, rootSound>>
       \/ /\ daemon = "pepd"
          /\ rootSound' = ~rootSound
          /\ UNCHANGED <<provFiles, components>>
    /\ UNCHANGED <<daemon, cellKey, logged, witness, manifest, proofs, boot,
                   keysMade, erasures, bootCrashes, evidence>>

SignProof ==
    /\ Cardinality(signedProofs) < MaxBootProofs
    /\ \E p \in Proofs \ signedProofs :
         /\ p.from # p.to
         /\ p.what = "measured-boot" => daemon = "pepd"
         /\ signedProofs' = signedProofs \cup {p}
         /\ IF p.what = "provisioning"
              THEN provProof' = p /\ UNCHANGED bootProof
              ELSE bootProof' = p /\ UNCHANGED provProof
    /\ UNCHANGED <<daemon, disk, cellKey, logged, witness, manifest, boot,
                   keysMade, budget, evidence>>

ProofExpires ==
    /\ \/ provProof # NoFile /\ provProof' = NoFile /\ UNCHANGED bootProof
       \/ bootProof # NoFile /\ bootProof' = NoFile /\ UNCHANGED provProof
    /\ UNCHANGED <<daemon, disk, cellKey, logged, witness, manifest,
                   signedProofs, boot, keysMade, budget, evidence>>

Erase ==
    /\ boot = Down /\ erasures < MaxErasures
    /\ erasures' = erasures + 1
    /\ \/ /\ cellKey.id # 0
          /\ cellKey' = [id |-> 0, vkey |-> FALSE]
          /\ logged' = {}
          /\ evidence' = evidence \ {"registry"}
          /\ UNCHANGED <<witness, manifest>>
       \/ /\ witness # NoFile /\ witness' = NoFile
          /\ UNCHANGED <<cellKey, logged, manifest, evidence>>
       \/ /\ manifest # NoFile /\ manifest' = NoFile
          /\ evidence' = evidence \ {"manifest"}
          /\ UNCHANGED <<cellKey, logged, witness>>
    /\ UNCHANGED <<daemon, disk, proofs, boot, keysMade, edits, bootCrashes>>

BootCrash ==
    /\ boot # Down /\ bootCrashes < MaxBootCrashes
    /\ bootCrashes' = bootCrashes + 1
    /\ boot' = Down
    /\ UNCHANGED <<daemon, disk, cellKey, logged, witness, manifest, proofs,
                   keysMade, edits, erasures, evidence>>

(***************************************************************************)
(* The steps of run().  FailsWith ends the process; the leaf of a refusal  *)
(* is best effort.                                                         *)
(***************************************************************************)
Stops == boot' = Down

FailsWith(leaves) ==
    /\ Stops
    /\ logged' \in {logged, logged \cup leaves}

\* pepd and anod read their keyrings and rules before anything is measured,
\* brokerd its environment alone.
Begins(d, version) ==
    /\ boot = Down /\ daemon = d
    /\ boot' = [Down EXCEPT !.pc = "key", !.loaded = version]
    /\ UNCHANGED <<daemon, disk, cellKey, logged, witness, manifest, proofs,
                   keysMade, budget, evidence>>

PepdLoads == Begins("pepd", provFiles)
AnodLoads == Begins("anod", provFiles)
BrokerdLoads == Begins("brokerd", NoVersion)

detectRestartByManifest == daemon = "pepd" /\ manifest # NoFile

detectRestart == daemon = "pepd" /\ (cellKey.id # 0 \/ manifest # NoFile)

LoadOrGenerateCellKey ==
    /\ boot.pc = "key"
    /\ \/ /\ cellKey.id # 0 /\ cellKey.vkey
          /\ boot' = [boot EXCEPT !.pc = "provisioning", !.restart = detectRestart]
          /\ UNCHANGED <<cellKey, keysMade>>
       \/ cellKey.id # 0 /\ ~cellKey.vkey /\ Stops /\ UNCHANGED <<cellKey, keysMade>>
       \/ /\ cellKey.id = 0
          /\ keysMade' = keysMade + 1
          /\ cellKey' = [id |-> keysMade', vkey |-> FALSE]
          /\ boot' = [boot EXCEPT !.pc = "vkey", !.restart = detectRestart]
    /\ UNCHANGED <<daemon, disk, logged, witness, manifest, proofs, budget, evidence>>

WriteVKey ==
    /\ boot.pc = "vkey"
    /\ cellKey' = [cellKey EXCEPT !.vkey = TRUE]
    /\ boot' = [boot EXCEPT !.pc = "provisioning"]
    /\ UNCHANGED <<daemon, disk, logged, witness, manifest, proofs, keysMade,
                   budget, evidence>>

(***************************************************************************)
(* ProvisioningGuard.Check.  The files are measured once: `measured` below *)
(* is what commit attests.                                                 *)
(***************************************************************************)
WitnessBad == witness # NoFile /\ witness.key # cellKey.id

\* A quorum of that keyring signed exactly this pair of states.
VerifyQuorumProofFile(file, what, keyring, from, to) ==
    file = [what |-> what, by |-> keyring, from |-> from, to |-> to]

\* The keyring that judges a transition: the attested one; without a witness
\* there is none to oppose, and the current files' keyring is used.
CurrentKeyring == Keyring[IF LoadsFirst THEN boot.loaded ELSE provFiles]
JudgingKeyring ==
    IF witness = NoFile THEN CurrentKeyring ELSE Keyring[witness.version]

AuthorizeByCurrent(from, to) ==
    VerifyQuorumProofFile(provProof, "provisioning", CurrentKeyring, from, to)

AuthorizeTransition(from, to) ==
    VerifyQuorumProofFile(provProof, "provisioning", JudgingKeyring, from, to)

MayCommit ==
    \/ witness = NoFile /\ logged = {}
    \/ witness = NoFile /\ AuthorizeTransition(NoVersion, provFiles)
    \/ /\ witness # NoFile /\ ~WitnessBad
       /\ IF witness.version = provFiles
            THEN witness.legacy
            ELSE ~witness.legacy /\ AuthorizeTransition(witness.version, provFiles)

BootsUnchanged ==
    witness # NoFile /\ ~WitnessBad /\ witness.version = provFiles /\ ~witness.legacy

Unchecked == <<daemon, disk, cellKey, manifest, proofs, keysMade, budget, evidence>>

CheckCommitsEarly ==
    /\ boot.pc = "provisioning" /\ MayCommit
    /\ witness' = [version |-> provFiles, key |-> cellKey.id, legacy |-> FALSE]
    /\ boot' = [boot EXCEPT !.pc = "persist", !.target = provFiles]
    /\ UNCHANGED <<Unchecked, logged>>

\* commit: the leaf, and only then (WitnessPersist) the file.
CheckCommits ==
    /\ boot.pc = "provisioning" /\ MayCommit
    /\ logged' = logged \cup {StartLeaf("provisioning", provFiles)}
    /\ boot' = [boot EXCEPT !.pc = "persist", !.target = provFiles]
    /\ UNCHANGED <<Unchecked, witness>>

\* The leaf of a commit cannot be written, the witness cannot be signed or a
\* file cannot be measured: no start.  Only the last leaves a refusal.
CheckFaults ==
    /\ boot.pc = "provisioning"
    /\ FailsWith({Refusal})
    /\ UNCHANGED <<Unchecked, witness>>

CheckBoots ==
    /\ boot.pc = "provisioning" /\ BootsUnchanged
    /\ logged' = logged \cup {StartLeaf("boot", provFiles)}
    /\ boot' = [boot EXCEPT !.pc = "attested", !.target = provFiles]
    /\ UNCHANGED <<Unchecked, witness>>

CheckRefuses ==
    /\ boot.pc = "provisioning" /\ ~MayCommit /\ ~BootsUnchanged
    /\ FailsWith({Refusal})
    /\ UNCHANGED <<Unchecked, witness>>

\* The rename of the signed witness; a write fault is fatal.
WitnessPersist ==
    /\ boot.pc = "persist"
    /\ \/ /\ witness' = [version |-> boot.target, key |-> cellKey.id, legacy |-> FALSE]
          /\ boot' = [boot EXCEPT !.pc = "attested"]
       \/ Stops /\ UNCHANGED witness
    /\ UNCHANGED <<Unchecked, logged>>

(***************************************************************************)
(* setupMeasuredBoot, for pepd.                                            *)
(***************************************************************************)
ManifestBad == manifest # NoFile /\ manifest.key # cellKey.id
Measuring == daemon = "pepd" /\ boot.pc = "attested"
Diverges == manifest # NoFile /\ components # manifest.of
Unmeasured == <<daemon, disk, cellKey, witness, proofs, keysMade, budget, evidence>>

\* Genesis or Transition: components are measured (again, for a transition),
\* the leaf is written, and only then the artefact is persisted.
EngageManifest(kind) ==
    /\ logged' = logged \cup {StartLeaf(kind, components)}
    /\ boot' = [boot EXCEPT !.pc = "publish", !.target = components]
    /\ UNCHANGED <<Unmeasured, manifest>>

GenesisMeasuredBoot == Measuring /\ manifest = NoFile /\ EngageManifest("genesis")

BootTransitionSigned ==
    VerifyQuorumProofFile(bootProof, "measured-boot", Keyring[boot.loaded],
                          manifest.of, components)

VerifyTransitionProof ==
    /\ Measuring /\ Diverges /\ ~ManifestBad /\ BootTransitionSigned
    /\ boot' = [boot EXCEPT !.pc = "transition"]
    /\ UNCHANGED <<Unmeasured, logged, manifest>>

TransitionMeasuredBoot == boot.pc = "transition" /\ EngageManifest("transition")

PersistManifest ==
    /\ boot.pc = "publish"
    /\ \/ /\ manifest' = [of |-> boot.target, key |-> cellKey.id]
          /\ boot' = [boot EXCEPT !.pc = "measured"]
       \/ Stops /\ UNCHANGED manifest
    /\ UNCHANGED <<Unmeasured, logged>>

CheckBoot ==
    /\ Measuring /\ manifest # NoFile /\ ~ManifestBad /\ rootSound /\ ~Diverges
    /\ logged' = logged \cup {StartLeaf("measured", components)}
    /\ boot' = [boot EXCEPT !.pc = "measured"]
    /\ UNCHANGED <<Unmeasured, manifest>>

\* An artefact of another key is fatal without a leaf; a divergence of the
\* root or of a component that no proof covers, or any fault, refuses.
CheckBootRefuses ==
    /\ Measuring \/ boot.pc = "transition"
    /\ IF ManifestBad THEN Stops /\ UNCHANGED logged ELSE FailsWith({Refusal})
    /\ UNCHANGED <<Unmeasured, manifest>>

(***************************************************************************)
(* The daemon serves; brokerd reads its files only now.  pepd refuses all  *)
(* traffic (StartRefused) after a restart, until a quorum confirms.        *)
(***************************************************************************)
Serves(posture, version) ==
    /\ boot' = [boot EXCEPT !.pc = posture, !.loaded = version]
    /\ evidence' = IF daemon = "pepd" THEN {"registry", "manifest"} ELSE {}
    /\ UNCHANGED <<daemon, disk, cellKey, logged, witness, manifest, proofs,
                   keysMade, budget>>

PepdServes ==
    boot.pc = "measured" /\ Serves(IF boot.restart THEN "refusing" ELSE "serving", boot.loaded)
AnodServes ==
    daemon = "anod" /\ boot.pc = "attested" /\ Serves("serving", boot.loaded)
BrokerdServes ==
    daemon = "brokerd" /\ boot.pc = "attested" /\ Serves("serving", provFiles)

Environment == EditFiles \/ SignProof \/ ProofExpires \/ Erase \/ BootCrash

Provision == CheckCommits \/ CheckFaults \/ CheckBoots \/ CheckRefuses \/ WitnessPersist

MeasuredBoot == \/ GenesisMeasuredBoot \/ VerifyTransitionProof
                \/ TransitionMeasuredBoot \/ PersistManifest
                \/ CheckBoot \/ CheckBootRefuses

BootNext == \/ Environment
            \/ PepdLoads \/ AnodLoads \/ BrokerdLoads
            \/ LoadOrGenerateCellKey \/ WriteVKey
            \/ Provision \/ MeasuredBoot
            \/ PepdServes \/ AnodServes \/ BrokerdServes

\* A first deployment, or one that an earlier release attested with a witness
\* that holds no copy of the authority files.
BootInit ==
    /\ daemon \in {"pepd", "brokerd", "anod"}
    /\ provFiles \in Versions /\ components \in ComponentVersions /\ rootSound = TRUE
    /\ \/ /\ cellKey = [id |-> 0, vkey |-> FALSE] /\ logged = {}
          /\ witness = NoFile /\ keysMade = 0
       \/ /\ cellKey = [id |-> 1, vkey |-> TRUE] /\ keysMade = 1
          /\ witness \in [version : Versions, key : {1}, legacy : {TRUE}]
          /\ logged = {StartLeaf("provisioning", witness.version)}
    /\ manifest = NoFile
    /\ provProof = NoFile /\ bootProof = NoFile /\ signedProofs = {}
    /\ boot = Down
    /\ edits = 0 /\ erasures = 0 /\ bootCrashes = 0
    /\ evidence = {}

BootSpec == BootInit /\ [][BootNext]_bootVars

(***************************************************************************)
(* Properties.                                                             *)
(***************************************************************************)

\* Whatever crashes, edits and erasures happened before, the attested state
\* changes only in three ways: a first start on an empty log, the upgrade of a
\* legacy witness to the very same files, or a proof for exactly this pair of
\* states, signed by the keyring that was attested (the current files' one only
\* if the witness is lost): the transitions ProvisioningGuard.Check authorises.
AttestedByProof ==
    [][(witness' # witness /\ witness' # NoFile) =>
          \/ witness = NoFile /\ logged = {StartLeaf("provisioning", witness'.version)}
          \/ witness # NoFile /\ witness.version = witness'.version
          \/ \E p \in signedProofs :
               /\ p.what = "provisioning" /\ p.to = witness'.version
               /\ IF witness = NoFile
                    THEN p.from = NoVersion
                    ELSE p.from = witness.version /\ p.by = Keyring[witness.version]]_bootVars

\* No proof, no attested state: as long as the registry directory is the one
\* whose key signed them, the witness and the manifest on disk are backed by a
\* leaf of its log, whatever the step at which the daemon crashed (commit and
\* commitLocked write the leaf before the file).
AttestationIsLogged ==
    /\ (witness # NoFile /\ witness.key = cellKey.id) =>
          StartLeaf("provisioning", witness.version) \in logged
    /\ (manifest # NoFile /\ manifest.key = cellKey.id) =>
          \E kind \in {"genesis", "transition"} : StartLeaf(kind, manifest.of) \in logged

\* Once pepd has served, no later start of it takes traffic unconfirmed while
\* the registry directory or the measured boot manifest of that service is
\* still there: detectRestart sees either (StartRefused).
RestartsRefuse ==
    [][(boot.pc = "measured" /\ boot'.pc = "serving") => evidence = {}]_bootVars
=============================================================================
