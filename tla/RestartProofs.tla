--------------------------- MODULE RestartProofs ---------------------------
(***************************************************************************)
(* What a start of a daemon attests, for any files, keyrings, edits,       *)
(* erasures and crashes; what a mirror fails over to, for any files,       *)
(* promotions and restarts; and what the anchorer of a cell has anchored,  *)
(* for any records, delays and refusals.                                   *)
(*                                                                         *)
(* No result is inductive: the leaf, the proof, the trace of an earlier    *)
(* service and the signed file are looked at in one step and relied on     *)
(* steps later.  BootInv and MirrorInv say what such a step may rely on.   *)
(***************************************************************************)
EXTENDS Boot, Mirror, Anchoring, TLAPS

\* A leaf goes to Zenon first and, if that does not find it soon, to the SMT solver.
USE ZenonT(2), SMTT(30)

Keyed == {"vkey", "provisioning", "persist", "attested", "transition", "publish",
          "measured", "serving", "refusing"}
Restarting == {"vkey", "provisioning", "persist", "attested", "transition", "publish",
               "measured"}

\* The fields of the process and of the files it signs.
BootTypes ==
  /\ keysMade \in Nat
  /\ DOMAIN cellKey = {"id", "vkey"} /\ cellKey.id \in 0..keysMade
  /\ provFiles \in Versions /\ components \in ComponentVersions
  /\ DOMAIN boot = {"pc", "loaded", "restart", "target"}
  /\ boot.pc = "persist" => boot.target \in Versions
  /\ boot.pc = "publish" => boot.target \in ComponentVersions
  /\ boot.pc \in Keyed => cellKey.id # 0
  /\ boot.pc # "down" /\ LoadsFirst => boot.loaded \in Versions
  /\ witness # NoFile => witness.version \in Versions /\ witness.key \in 1..keysMade
  /\ manifest # NoFile => manifest.of \in ComponentVersions /\ manifest.key \in 1..keysMade

\* The leaf precedes the file it attests.
LeafFirst ==
  /\ boot.pc = "persist" => StartLeaf("provisioning", boot.target) \in logged
  /\ boot.pc = "publish" =>
       \E kind \in {"genesis", "transition"} : StartLeaf(kind, boot.target) \in logged

\* What allows the witness to change, from the commit to the rename.
ProofsKept == provProof # NoFile => provProof \in signedProofs

Authorised(version) ==
  \/ witness = NoFile /\ logged = {StartLeaf("provisioning", version)}
  \/ witness # NoFile /\ witness.version = version
  \/ \E p \in signedProofs :
       /\ p.what = "provisioning" /\ p.to = version
       /\ IF witness = NoFile
            THEN p.from = NoVersion
            ELSE p.from = witness.version /\ p.by = Keyring[witness.version]

CommitsAuthorised == boot.pc = "persist" => Authorised(boot.target)

\* What is left of an earlier service of pepd is on disk, and was seen.
EvidenceSeen ==
  /\ daemon # "pepd" => evidence = {}
  /\ evidence \subseteq {"registry", "manifest"}
  /\ "registry" \in evidence => cellKey.id # 0
  /\ "manifest" \in evidence => manifest # NoFile
  /\ boot.pc = "measured" => manifest # NoFile
  /\ boot.pc \in Restarting /\ evidence # {} => boot.restart

BootInv ==
  /\ BootTypes /\ LeafFirst /\ ProofsKept /\ CommitsAuthorised /\ EvidenceSeen
  /\ AttestationIsLogged

\* A first start finds no file, no key and no leaf.
LEMMA BootInitInv == BootInit => BootInv
<1> SUFFICES ASSUME BootInit PROVE BootInv
  OBVIOUS
<1> USE DEF BootInit, Down
<1>1. BootTypes
  <2>1. CASE witness = NoFile /\ keysMade = 0 /\ cellKey = [id |-> 0, vkey |-> FALSE]
    BY <2>1 DEF BootTypes, Keyed
  <2>2. CASE /\ witness \in [version : Versions, key : {1}, legacy : {TRUE}]
             /\ keysMade = 1 /\ cellKey = [id |-> 1, vkey |-> TRUE]
    BY <2>2, SMTT(30) DEF BootTypes, Keyed
  <2> QED
    BY <2>1, <2>2, Zenon
<1>2. LeafFirst /\ ProofsKept /\ CommitsAuthorised /\ EvidenceSeen
  BY DEF LeafFirst, ProofsKept, CommitsAuthorised, EvidenceSeen, Restarting
<1>3. AttestationIsLogged
  BY Zenon DEF AttestationIsLogged
<1> QED
  BY <1>1, <1>2, <1>3 DEF BootInv

\* Every step keeps the fields.
LEMMA TypesNext == BootTypes /\ [BootNext]_bootVars => BootTypes'
<1> SUFFICES ASSUME BootTypes, [BootNext]_bootVars PROVE BootTypes'
  OBVIOUS
<1> USE DEF BootTypes, Keyed, LoadsFirst, disk
<1>1. CASE EditFiles
  BY <1>1 DEF EditFiles
<1>2. CASE SignProof
  BY <1>2 DEF SignProof
<1>3. CASE ProofExpires
  BY <1>3 DEF ProofExpires
<1>4. CASE Erase
  BY <1>4, SMTT(30) DEF Erase, Down
<1>5. CASE BootCrash
  BY <1>5 DEF BootCrash, Down
<1>6. CASE PepdLoads
  BY <1>6 DEF PepdLoads, Begins, Down
<1>7. CASE AnodLoads
  BY <1>7 DEF AnodLoads, Begins, Down
<1>8. CASE BrokerdLoads
  BY <1>8 DEF BrokerdLoads, Begins, Down
<1>9. CASE LoadOrGenerateCellKey
  <2>1. CASE cellKey.id # 0 /\ boot' = [boot EXCEPT !.pc = "provisioning", !.restart = detectRestart]
    BY <1>9, <2>1, SMTT(30) DEF LoadOrGenerateCellKey
  <2>2. CASE cellKey.id # 0 /\ boot' = Down
    BY <1>9, <2>2 DEF LoadOrGenerateCellKey, Down
  <2>3. CASE cellKey.id = 0
    <3>1. /\ keysMade' = keysMade + 1 /\ cellKey' = [id |-> keysMade', vkey |-> FALSE]
          /\ boot' = [boot EXCEPT !.pc = "vkey", !.restart = detectRestart]
          /\ UNCHANGED <<daemon, disk, witness, manifest>>
      BY <1>9, <2>3 DEF LoadOrGenerateCellKey
    <3> QED
      BY <1>9, <3>1, SMTT(30) DEF LoadOrGenerateCellKey
  <2> QED
    BY <1>9, <2>1, <2>2, <2>3 DEF LoadOrGenerateCellKey, Stops
<1>10. CASE WriteVKey
  BY <1>10 DEF WriteVKey
<1>11. CASE CheckCommits
  BY <1>11 DEF CheckCommits, Unchecked
<1>12. CASE CheckFaults
  BY <1>12 DEF CheckFaults, Unchecked, FailsWith, Stops, Down
<1>13. CASE CheckBoots
  BY <1>13 DEF CheckBoots, Unchecked
<1>14. CASE CheckRefuses
  BY <1>14 DEF CheckRefuses, Unchecked, FailsWith, Stops, Down
<1>15. CASE WitnessPersist
  BY <1>15, SMTT(30) DEF WitnessPersist, Unchecked, Stops, Down
<1>16. CASE GenesisMeasuredBoot
  BY <1>16 DEF GenesisMeasuredBoot, EngageManifest, Measuring, Unmeasured
<1>17. CASE VerifyTransitionProof
  BY <1>17 DEF VerifyTransitionProof, Measuring, Unmeasured
<1>18. CASE TransitionMeasuredBoot
  BY <1>18 DEF TransitionMeasuredBoot, EngageManifest, Unmeasured
<1>19. CASE PersistManifest
  BY <1>19, SMTT(30) DEF PersistManifest, Unmeasured, Stops, Down
<1>20. CASE CheckBoot
  BY <1>20 DEF CheckBoot, Measuring, Unmeasured
<1>21. CASE CheckBootRefuses
  <2>1. boot' = Down /\ UNCHANGED <<Unmeasured, manifest>>
    BY <1>21 DEF CheckBootRefuses, FailsWith, Stops
  <2> QED
    BY <2>1 DEF Unmeasured, Down
<1>22. CASE PepdServes
  BY <1>22 DEF PepdServes, Serves
<1>23. CASE AnodServes
  BY <1>23 DEF AnodServes, Serves
<1>24. CASE BrokerdServes
  BY <1>24 DEF BrokerdServes, Serves
<1>25. CASE UNCHANGED bootVars
  BY <1>25 DEF bootVars
<1> QED
  BY <1>1, <1>2, <1>3, <1>4, <1>5, <1>6, <1>7, <1>8, <1>9, <1>10, <1>11, <1>12, <1>13,
     <1>14, <1>15, <1>16, <1>17, <1>18, <1>19, <1>20, <1>21, <1>22, <1>23, <1>24, <1>25, Zenon
     DEF BootNext, Environment, Provision, MeasuredBoot

\* A step that writes no file, begins no commit and makes no key disturbs nothing
\* a later step relies on.
Calm ==
  /\ logged \subseteq logged' /\ signedProofs \subseteq signedProofs'
  /\ UNCHANGED <<witness, manifest, evidence, daemon>> /\ cellKey'.id = cellKey.id
  /\ boot'.pc \in {"persist", "publish"} => boot' = boot /\ logged' = logged
  /\ boot'.pc = "measured" => boot.pc = "measured"
  /\ boot'.pc \in Restarting => boot.pc \in Restarting /\ boot'.restart = boot.restart

LEMMA CalmKeeps ==
  ASSUME LeafFirst, CommitsAuthorised, EvidenceSeen, AttestationIsLogged, Calm
  PROVE  LeafFirst' /\ CommitsAuthorised' /\ EvidenceSeen' /\ AttestationIsLogged'
<1>1. LeafFirst'
  BY DEF LeafFirst, Calm
<1>2. CommitsAuthorised'
  BY DEF CommitsAuthorised, Authorised, Calm
<1>3. EvidenceSeen'
  BY DEF EvidenceSeen, Calm
<1>4. AttestationIsLogged'
  BY DEF AttestationIsLogged, Calm
<1> QED
  BY <1>1, <1>2, <1>3, <1>4

\* The file of the proof is one the controllers signed: SignProof alone writes it.
LEMMA ProofsNext == ProofsKept /\ [BootNext]_bootVars => ProofsKept'
<1> SUFFICES ASSUME ProofsKept, [BootNext]_bootVars PROVE ProofsKept'
  OBVIOUS
<1> USE DEF ProofsKept
<1>1. CASE UNCHANGED proofs
  BY <1>1 DEF proofs
<1>2. CASE SignProof
  BY <1>2 DEF SignProof
<1>3. CASE ProofExpires
  BY <1>3 DEF ProofExpires
<1>4. CASE EditFiles \/ Erase \/ BootCrash
  <2>1. UNCHANGED proofs
    BY <1>4 DEF EditFiles, Erase, BootCrash
  <2> QED
    BY <1>1, <2>1
<1>5. CASE PepdLoads \/ AnodLoads \/ BrokerdLoads \/ LoadOrGenerateCellKey \/ WriteVKey
  <2>1. UNCHANGED proofs
    BY <1>5 DEF PepdLoads, AnodLoads, BrokerdLoads, Begins, LoadOrGenerateCellKey, WriteVKey
  <2> QED
    BY <1>1, <2>1
<1>6. CASE Provision
  <2>1. UNCHANGED Unchecked
    BY <1>6 DEF Provision, CheckCommits, CheckFaults, CheckBoots, CheckRefuses, WitnessPersist
  <2> QED
    BY <1>1, <2>1 DEF Unchecked
<1>7. CASE MeasuredBoot
  <2>1. UNCHANGED Unmeasured
    BY <1>7 DEF MeasuredBoot, GenesisMeasuredBoot, TransitionMeasuredBoot, EngageManifest,
                VerifyTransitionProof, PersistManifest, CheckBoot, CheckBootRefuses
  <2> QED
    BY <1>1, <2>1 DEF Unmeasured
<1>8. CASE PepdServes \/ AnodServes \/ BrokerdServes \/ UNCHANGED bootVars
  <2>1. UNCHANGED proofs
    BY <1>8 DEF PepdServes, AnodServes, BrokerdServes, Serves, bootVars
  <2> QED
    BY <1>1, <2>1
<1> QED
  BY <1>2, <1>3, <1>4, <1>5, <1>6, <1>7, <1>8, Zenon DEF BootNext, Environment

\* Every other clause, one action at a time.
LEMMA OthersNext ==
  ASSUME BootTypes, LeafFirst, ProofsKept, CommitsAuthorised, EvidenceSeen,
         AttestationIsLogged, [BootNext]_bootVars
  PROVE  LeafFirst' /\ CommitsAuthorised' /\ EvidenceSeen' /\ AttestationIsLogged'
<1>1. CASE EditFiles
  <2>1. Calm
    BY <1>1 DEF Calm, BootTypes, Restarting, EditFiles, proofs
  <2> QED
    BY <2>1, CalmKeeps
<1>2. CASE SignProof
  <2>1. Calm
    BY <1>2 DEF Calm, BootTypes, Restarting, SignProof
  <2> QED
    BY <2>1, CalmKeeps
<1>3. CASE ProofExpires
  <2>1. Calm
    BY <1>3 DEF Calm, BootTypes, Restarting, ProofExpires
  <2> QED
    BY <2>1, CalmKeeps
<1>4. CASE Erase
  <2>1. boot'.pc = "down" /\ UNCHANGED daemon
    BY <1>4 DEF Erase, Down
  <2>2. \/ cellKey'.id = 0 /\ evidence' = evidence \ {"registry"} /\ UNCHANGED <<witness, manifest>>
        \/ witness' = NoFile /\ UNCHANGED <<cellKey, logged, manifest, evidence>>
        \/ /\ manifest' = NoFile /\ evidence' = evidence \ {"manifest"}
           /\ UNCHANGED <<cellKey, logged, witness>>
    BY <1>4 DEF Erase
  <2>3. LeafFirst'
    BY <2>1, <2>2 DEF LeafFirst
  <2>4. CommitsAuthorised'
    BY <2>1, <2>2 DEF CommitsAuthorised
  <2>5. EvidenceSeen'
    BY <2>1, <2>2, Zenon DEF EvidenceSeen, Restarting
  <2>6. AttestationIsLogged'
    BY <2>1, <2>2, SMTT(30) DEF AttestationIsLogged, BootTypes
  <2> QED
    BY <2>3, <2>4, <2>5, <2>6
<1>5. CASE BootCrash
  <2>1. Calm
    BY <1>5 DEF Calm, BootTypes, Restarting, BootCrash, Down, proofs
  <2> QED
    BY <2>1, CalmKeeps
<1>6. CASE PepdLoads
  <2>1. Calm
    BY <1>6 DEF Calm, BootTypes, Restarting, PepdLoads, Begins, Down, proofs
  <2> QED
    BY <2>1, CalmKeeps
<1>7. CASE AnodLoads
  <2>1. Calm
    BY <1>7 DEF Calm, BootTypes, Restarting, AnodLoads, Begins, Down, proofs
  <2> QED
    BY <2>1, CalmKeeps
<1>8. CASE BrokerdLoads
  <2>1. Calm
    BY <1>8 DEF Calm, BootTypes, Restarting, BrokerdLoads, Begins, Down, proofs
  <2> QED
    BY <2>1, CalmKeeps
<1>9. CASE LoadOrGenerateCellKey
  <2>1. /\ UNCHANGED <<logged, witness, manifest, evidence, daemon>>
        /\ UNCHANGED cellKey \/ (cellKey.id = 0 /\ cellKey'.id = keysMade + 1)
    BY <1>9, SMTT(30) DEF LoadOrGenerateCellKey
  <2>2. evidence # {} => detectRestart
    BY Zenon DEF EvidenceSeen, detectRestart
  <2>3. ASSUME NEW step, boot' = [boot EXCEPT !.pc = step, !.restart = detectRestart]
        PROVE  boot'.pc = step /\ boot'.restart = detectRestart
    <3>1. DOMAIN boot = {"pc", "loaded", "restart", "target"}
      BY DEF BootTypes
    <3> QED
      BY <2>3, <3>1
  <2>4. boot'.pc = "down" \/ (boot'.pc \in {"provisioning", "vkey"} /\ boot'.restart = detectRestart)
    <3>1. CASE boot' = [boot EXCEPT !.pc = "provisioning", !.restart = detectRestart]
      BY <2>3, <3>1, Zenon
    <3>2. CASE boot' = [boot EXCEPT !.pc = "vkey", !.restart = detectRestart]
      BY <2>3, <3>2, Zenon
    <3>3. CASE Stops
      BY <3>3 DEF Stops, Down
    <3> QED
      BY <1>9, <3>1, <3>2, <3>3 DEF LoadOrGenerateCellKey
  <2>5. LeafFirst'
    BY <2>4 DEF LeafFirst
  <2>6. CommitsAuthorised'
    BY <2>4 DEF CommitsAuthorised
  <2>7. EvidenceSeen'
    BY <2>1, <2>2, <2>4 DEF EvidenceSeen, Restarting, BootTypes
  <2>8. AttestationIsLogged'
    BY <2>1, SMTT(30) DEF AttestationIsLogged, BootTypes
  <2> QED
    BY <2>5, <2>6, <2>7, <2>8
<1>10. CASE WriteVKey
  <2>1. Calm
    BY <1>10 DEF Calm, BootTypes, Restarting, WriteVKey, proofs
  <2> QED
    BY <2>1, CalmKeeps
<1>11. CASE CheckCommits
  <2>1. /\ MayCommit /\ UNCHANGED <<witness, manifest, cellKey, daemon, evidence, provProof,
                                    signedProofs>>
        /\ logged' = logged \cup {StartLeaf("provisioning", provFiles)}
        /\ boot.pc = "provisioning" /\ boot'.pc = "persist" /\ boot'.target = provFiles
        /\ boot'.restart = boot.restart
    BY <1>11 DEF CheckCommits, Unchecked, proofs, BootTypes
  <2>2. ASSUME NEW from \in Versions \cup {NoVersion}, AuthorizeTransition(from, provFiles)
        PROVE  /\ provProof \in signedProofs
               /\ provProof.what = "provisioning"
               /\ provProof.from = from /\ provProof.to = provFiles
               /\ provProof.by = JudgingKeyring
    <3>1. JudgingKeyring \in Keyrings
      BY <2>1, BootAssumption DEF JudgingKeyring, CurrentKeyring, BootTypes
    <3>2. provFiles \in Versions
      BY DEF BootTypes
    <3>3. provProof \in Proofs
      BY <2>2, <3>1, <3>2 DEF AuthorizeTransition, VerifyQuorumProofFile, Proofs
    <3> QED
      BY <2>2, <3>3, NoFileAssumption DEF ProofsKept, AuthorizeTransition, VerifyQuorumProofFile
  <2>3. (witness = NoFile /\ logged = {}) \/ Authorised(provFiles)
    <3>1. CASE witness = NoFile /\ AuthorizeTransition(NoVersion, provFiles)
      <4>1. /\ provProof \in signedProofs
            /\ provProof.what = "provisioning"
            /\ provProof.from = NoVersion /\ provProof.to = provFiles
        BY <2>2, <3>1
      <4> QED
        BY <3>1, <4>1 DEF Authorised
    <3>2. CASE witness # NoFile /\ AuthorizeTransition(witness.version, provFiles)
      <4>1. witness.version \in Versions \cup {NoVersion}
        BY <3>2 DEF BootTypes
      <4>2. /\ provProof \in signedProofs
            /\ provProof.what = "provisioning"
            /\ provProof.from = witness.version /\ provProof.to = provFiles
            /\ provProof.by = Keyring[witness.version]
        BY <2>2, <3>2, <4>1 DEF JudgingKeyring
      <4> QED
        BY <3>2, <4>2 DEF Authorised
    <3>3. CASE witness # NoFile /\ witness.version = provFiles
      BY <3>3 DEF Authorised
    <3> QED
      BY <2>1, <3>1, <3>2, <3>3 DEF MayCommit
  <2>4. CommitsAuthorised'
    BY <2>1, <2>3 DEF CommitsAuthorised, Authorised
  <2>5. LeafFirst'
    BY <2>1 DEF LeafFirst
  <2>6. EvidenceSeen'
    BY <2>1 DEF EvidenceSeen, Restarting
  <2>7. AttestationIsLogged'
    BY <2>1 DEF AttestationIsLogged
  <2> QED
    BY <2>4, <2>5, <2>6, <2>7
<1>12. CASE CheckFaults
  <2>1. Calm
    BY <1>12 DEF Calm, BootTypes, Restarting, CheckFaults, Unchecked, FailsWith, Stops, Down, proofs
  <2> QED
    BY <2>1, CalmKeeps
<1>13. CASE CheckBoots
  <2>1. Calm
    BY <1>13 DEF Calm, BootTypes, Restarting, CheckBoots, Unchecked, proofs
  <2> QED
    BY <2>1, CalmKeeps
<1>14. CASE CheckRefuses
  <2>1. Calm
    BY <1>14 DEF Calm, BootTypes, Restarting, CheckRefuses, Unchecked, FailsWith, Stops, Down, proofs
  <2> QED
    BY <2>1, CalmKeeps
<1>15. CASE WitnessPersist
  <2>1. /\ boot.pc = "persist" /\ UNCHANGED <<daemon, cellKey, manifest, evidence, logged>>
        /\ boot'.pc # "persist" /\ boot'.pc # "publish" /\ boot'.pc # "measured"
        /\ boot'.pc \in Restarting => boot'.restart = boot.restart
    BY <1>15, SMTT(30) DEF WitnessPersist, Unchecked, BootTypes, Stops, Down, Restarting
  <2>2. UNCHANGED witness \/ witness'.version = boot.target
    BY <1>15, SMTT(30) DEF WitnessPersist
  <2>3. LeafFirst'
    BY <2>1, <2>2 DEF LeafFirst
  <2>4. CommitsAuthorised'
    BY <2>1, <2>2 DEF CommitsAuthorised
  <2>5. EvidenceSeen'
    BY <2>1, <2>2 DEF EvidenceSeen, Restarting
  <2>6. AttestationIsLogged'
    BY <2>1, <2>2 DEF AttestationIsLogged, LeafFirst
  <2> QED
    BY <2>3, <2>4, <2>5, <2>6
<1>16. CASE GenesisMeasuredBoot \/ TransitionMeasuredBoot
  <2>1. /\ boot.pc \in {"attested", "transition"}
        /\ \E kind \in {"genesis", "transition"} : EngageManifest(kind)
    BY <1>16 DEF GenesisMeasuredBoot, TransitionMeasuredBoot, Measuring
  <2>2. /\ \E kind \in {"genesis", "transition"} :
             logged' = logged \cup {StartLeaf(kind, components)}
        /\ boot'.pc = "publish" /\ boot'.target = components /\ boot'.restart = boot.restart
        /\ UNCHANGED <<daemon, cellKey, witness, manifest, evidence>>
    BY <2>1 DEF EngageManifest, Unmeasured, BootTypes
  <2>3. LeafFirst'
    BY <2>1, <2>2 DEF LeafFirst
  <2>4. CommitsAuthorised'
    BY <2>1, <2>2 DEF CommitsAuthorised
  <2>5. EvidenceSeen'
    BY <2>1, <2>2 DEF EvidenceSeen, Restarting
  <2>6. AttestationIsLogged'
    BY <2>1, <2>2 DEF AttestationIsLogged
  <2> QED
    BY <2>3, <2>4, <2>5, <2>6
<1>17. CASE VerifyTransitionProof
  <2>1. Calm
    BY <1>17 DEF Calm, BootTypes, Restarting, VerifyTransitionProof, Measuring, Unmeasured, proofs
  <2> QED
    BY <2>1, CalmKeeps
<1>18. CASE PersistManifest
  <2>1. /\ boot.pc = "publish" /\ UNCHANGED <<daemon, cellKey, witness, evidence, logged>>
        /\ boot'.pc # "persist" /\ boot'.pc # "publish"
        /\ boot'.pc \in Restarting => boot'.restart = boot.restart
    BY <1>18, SMTT(30) DEF PersistManifest, Unmeasured, BootTypes, Stops, Down, Restarting
  <2>2. \/ UNCHANGED manifest /\ boot'.pc = "down"
        \/ manifest' = [of |-> boot.target, key |-> cellKey.id]
    BY <1>18 DEF PersistManifest, Stops, Down
  <2>3. manifest' = [of |-> boot.target, key |-> cellKey.id] => manifest' # NoFile
    BY <2>1, NoFileAssumption, SMTT(30) DEF BootTypes
  <2>4. LeafFirst'
    BY <2>1, <2>2, <2>3 DEF LeafFirst
  <2>5. CommitsAuthorised'
    BY <2>1, <2>2, <2>3 DEF CommitsAuthorised
  <2>6. EvidenceSeen'
    BY <2>1, <2>2, <2>3 DEF EvidenceSeen, Restarting
  <2>7. AttestationIsLogged'
    BY <2>1, <2>2, <2>3 DEF AttestationIsLogged, LeafFirst
  <2> QED
    BY <2>4, <2>5, <2>6, <2>7
<1>19. CASE CheckBoot
  <2>1. /\ boot.pc = "attested" /\ manifest # NoFile
        /\ boot'.pc = "measured" /\ boot'.restart = boot.restart
        /\ logged \subseteq logged' /\ UNCHANGED <<daemon, cellKey, witness, manifest, evidence>>
    BY <1>19 DEF CheckBoot, Measuring, Unmeasured, BootTypes
  <2>2. LeafFirst'
    BY <2>1 DEF LeafFirst
  <2>3. CommitsAuthorised'
    BY <2>1 DEF CommitsAuthorised
  <2>4. EvidenceSeen'
    BY <2>1 DEF EvidenceSeen, Restarting
  <2>5. AttestationIsLogged'
    BY <2>1 DEF AttestationIsLogged
  <2> QED
    BY <2>2, <2>3, <2>4, <2>5
<1>20. CASE CheckBootRefuses
  <2>1. Calm
    BY <1>20, SMTT(30) DEF Calm, BootTypes, Restarting, CheckBootRefuses, Unmeasured, FailsWith, Stops, Down, proofs
  <2> QED
    BY <2>1, CalmKeeps
<1>21. CASE PepdServes \/ AnodServes \/ BrokerdServes
  <2>1. /\ boot'.pc = "serving" \/ boot'.pc = "refusing"
        /\ UNCHANGED <<daemon, logged, cellKey, witness, manifest>>
        /\ evidence' = IF daemon = "pepd" THEN {"registry", "manifest"} ELSE {}
        /\ cellKey.id # 0 /\ (daemon = "pepd" => boot.pc = "measured")
    BY <1>21, Zenon DEF PepdServes, AnodServes, BrokerdServes, Serves, BootTypes, Keyed
  <2>2. LeafFirst'
    BY <2>1 DEF LeafFirst
  <2>3. CommitsAuthorised'
    BY <2>1 DEF CommitsAuthorised
  <2>4. EvidenceSeen'
    BY <2>1 DEF EvidenceSeen, Restarting
  <2>5. AttestationIsLogged'
    BY <2>1 DEF AttestationIsLogged
  <2> QED
    BY <2>2, <2>3, <2>4, <2>5
<1>22. CASE UNCHANGED bootVars
  <2>1. Calm
    BY <1>22 DEF Calm, BootTypes, Restarting, bootVars, proofs
  <2> QED
    BY <2>1, CalmKeeps
<1> QED
  BY <1>1, <1>2, <1>3, <1>4, <1>5, <1>6, <1>7, <1>8, <1>9, <1>10, <1>11, <1>12, <1>13,
     <1>14, <1>15, <1>16, <1>17, <1>18, <1>19, <1>20, <1>21, <1>22, Zenon
     DEF BootNext, Environment, Provision, MeasuredBoot

\* Together, every step keeps all that a later one relies on.
LEMMA BootNextInv == BootInv /\ [BootNext]_bootVars => BootInv'
BY TypesNext, ProofsNext, OthersNext DEF BootInv

\* The steps behind AttestedByProof and RestartsRefuse: WitnessPersist alone
\* writes a witness, PepdServes alone leaves "measured" to serve.
LEMMA AttestStep ==
  ASSUME BootInv, [BootNext]_bootVars, witness' # witness, witness' # NoFile
  PROVE  \/ witness = NoFile /\ logged = {StartLeaf("provisioning", witness'.version)}
         \/ witness # NoFile /\ witness.version = witness'.version
         \/ \E p \in signedProofs :
              /\ p.what = "provisioning" /\ p.to = witness'.version
              /\ IF witness = NoFile
                   THEN p.from = NoVersion
                   ELSE p.from = witness.version /\ p.by = Keyring[witness.version]
<1>1. WitnessPersist
  <2>1. CASE Environment
    BY <2>1, Zenon DEF Environment, EditFiles, SignProof, ProofExpires, Erase, BootCrash
  <2>2. CASE PepdLoads \/ AnodLoads \/ BrokerdLoads \/ LoadOrGenerateCellKey \/ WriteVKey
    BY <2>2 DEF PepdLoads, AnodLoads, BrokerdLoads, Begins, LoadOrGenerateCellKey, WriteVKey
  <2>3. CASE Provision
    BY <2>3 DEF Provision, CheckCommits, CheckFaults, CheckBoots, CheckRefuses
  <2>4. CASE MeasuredBoot
    BY <2>4 DEF MeasuredBoot, GenesisMeasuredBoot, VerifyTransitionProof,
                TransitionMeasuredBoot, PersistManifest, CheckBoot, CheckBootRefuses,
                EngageManifest, Unmeasured
  <2>5. CASE PepdServes \/ AnodServes \/ BrokerdServes
    BY <2>5 DEF PepdServes, AnodServes, BrokerdServes, Serves
  <2> QED
    BY <2>1, <2>2, <2>3, <2>4, <2>5 DEF BootNext, bootVars
<1>2. boot.pc = "persist" /\ witness'.version = boot.target
  BY <1>1, SMTT(30) DEF WitnessPersist
<1>3. Authorised(witness'.version)
  BY <1>2 DEF BootInv, CommitsAuthorised
<1> QED
  BY <1>3 DEF Authorised

LEMMA ServeStep ==
  ASSUME BootInv, [BootNext]_bootVars, boot.pc = "measured", boot'.pc = "serving"
  PROVE  evidence = {}
<1>1. PepdServes
  <2>1. CASE Environment
    <3>1. boot' = boot \/ boot' = Down
      BY <2>1, Zenon DEF Environment, EditFiles, SignProof, ProofExpires, Erase, BootCrash
    <3> QED
      BY <3>1 DEF Down
  <2>2. CASE PepdLoads \/ AnodLoads \/ BrokerdLoads \/ LoadOrGenerateCellKey \/ WriteVKey
    BY <2>2 DEF PepdLoads, AnodLoads, BrokerdLoads, Begins, Down, LoadOrGenerateCellKey,
                WriteVKey
  <2>3. CASE Provision
    BY <2>3 DEF Provision, CheckCommits, CheckFaults, CheckBoots, CheckRefuses, WitnessPersist
  <2>4. CASE MeasuredBoot
    BY <2>4 DEF MeasuredBoot, GenesisMeasuredBoot, VerifyTransitionProof, Measuring,
                TransitionMeasuredBoot, PersistManifest, CheckBoot, CheckBootRefuses
  <2>5. CASE AnodServes \/ BrokerdServes
    BY <2>5 DEF AnodServes, BrokerdServes
  <2> QED
    BY <2>1, <2>2, <2>3, <2>4, <2>5 DEF BootNext, bootVars
<1>2. "pc" \in DOMAIN boot
  BY DEF BootInv, BootTypes
<1>3. ~boot.restart
  BY <1>1, <1>2 DEF PepdServes, Serves
<1> QED
  BY <1>3 DEF BootInv, EvidenceSeen, Restarting

\* A witness or a manifest signed by the key of the registry directory is backed
\* by a leaf of its log, for any files, keyrings, number of edits, erasures and
\* crashes (commit and commitLocked, whose leaf precedes the file).
THEOREM AttestationLogged == BootSpec => []AttestationIsLogged
<1>1. BootInv => AttestationIsLogged
  BY DEF BootInv
<1> QED
  BY BootInitInv, BootNextInv, <1>1, PTL DEF BootSpec

\* The attested provisioning changes only as ProvisioningGuard.Check authorises:
\* a first start on an empty log, the same files again, or a proof of exactly
\* this transition by the attested keyring.
THEOREM AttestationByProof == BootSpec => AttestedByProof
<1> QED
  BY BootInitInv, BootNextInv, AttestStep, PTL DEF BootSpec, AttestedByProof

\* A pepd that finds the registry or the manifest of an earlier service never
\* takes traffic before a quorum confirms it (detectRestart, StartRefused).
THEOREM RestartsAreRefused == BootSpec => RestartsRefuse
<1> QED
  BY BootInitInv, BootNextInv, ServeStep, PTL DEF BootSpec, RestartsRefuse

(***************************************************************************)
(* The mirror.  What a promotion read is carried by the handler, then by   *)
(* the journal, and read again from the journal after a restart, while the *)
(* file may be replaced at any point.                                      *)
(***************************************************************************)
AnchoredIn(files, r) == \E f \in files : BundleAnchored(f, r)
SignedIn(files, n, end) == \E f \in files : \E e \in AnchorEntries(f, n) : e.end = end
RecordedIn(log, r) == \E i \in DOMAIN log : log[i].inLog /\ log[i].receipt = r
Entries == [receipt : Receipts, inLog : BOOLEAN]

MirrorTypes ==
  /\ DOMAIN promoter = Promoters
  /\ journalled \in Seq(Entries)
  /\ Verifies(file) => file \in signedFiles

HandlersAnchored ==
  \A p \in Promoters :
    /\ promoter[p].pc \in {"window", "retain"} =>
         promoter[p].receipt \in Receipts /\ AnchoredIn(signedFiles, promoter[p].receipt)
    /\ promoter[p].pc = "retain" => RecordedIn(journalled, promoter[p].receipt)

RestoresAnchored ==
  /\ restoring # "up" => \A p \in Promoters : promoter[p].pc = "idle"
  /\ restoring = "window" =>
       /\ RecordedIn(journalled, LastEntry.receipt)
       /\ AnchoredIn(signedFiles, LastEntry.receipt)

GateAnchored ==
  gate.cell # NoCell =>
    /\ \E r \in Receipts : /\ r.cell = gate.cell /\ r.epoch = gate.epoch
                           /\ RecordedIn(journalled, r) /\ AnchoredIn(signedFiles, r)
    /\ SignedIn(signedFiles, gate.epoch, gate.end)

MirrorInv == MirrorTypes /\ HandlersAnchored /\ RestoresAnchored /\ GateAnchored

\* A mirror starts with no promotion and its gate empty.
LEMMA MirrorInitInv == MirrorInit => MirrorInv
BY SMTT(30) DEF MirrorInit, MirrorInv, MirrorTypes, HandlersAnchored, RestoresAnchored, GateAnchored,
       NoPromotion, Quiet

\* A file that is read to verify is one the controllers signed.
LEMMA ReadIsSigned ==
  ASSUME MirrorTypes
  PROVE  /\ \A r : BundleAnchored(file, r) => AnchoredIn(signedFiles, r)
         /\ \A n : \A e \in AnchorEntries(file, n) : SignedIn(signedFiles, n, e.end)
BY DEF MirrorTypes, BundleAnchored, AnchorEntries, AnchoredIn, SignedIn

\* More files and more records take nothing away.
LEMMA FilesGrow ==
  ASSUME NEW files, NEW more, files \subseteq more
  PROVE  /\ \A r : AnchoredIn(files, r) => AnchoredIn(more, r)
         /\ \A n, end : SignedIn(files, n, end) => SignedIn(more, n, end)
BY DEF AnchoredIn, SignedIn

\* A leaf that is in the log is recorded from then on.
LEMMA JournalGrows ==
  ASSUME NEW log \in Seq(Entries), NEW entry \in Entries
  PROVE  /\ Append(log, entry) \in Seq(Entries)
         /\ \A r : RecordedIn(log, r) => RecordedIn(Append(log, entry), r)
         /\ entry.inLog => RecordedIn(Append(log, entry), entry.receipt)
<1> DEFINE longer == Append(log, entry)
<1>1. /\ longer \in Seq(Entries)
      /\ DOMAIN log \subseteq DOMAIN longer
      /\ \A i \in DOMAIN log : longer[i] = log[i]
      /\ Len(longer) \in DOMAIN longer
      /\ longer[Len(longer)] = entry
  OBVIOUS
<1> HIDE DEF longer
<1>2. \A r : RecordedIn(log, r) => RecordedIn(longer, r)
  BY <1>1 DEF RecordedIn
<1>3. entry.inLog => RecordedIn(longer, entry.receipt)
  BY <1>1, Zenon DEF RecordedIn
<1> QED
  BY <1>1, <1>2, <1>3, Zenon DEF longer

\* What the log records is a receipt.
LEMMA RecordedReceipts ==
  ASSUME NEW log \in Seq(Entries), NEW r, RecordedIn(log, r)
  PROVE  r \in Receipts
<1>1. PICK i \in DOMAIN log : log[i].receipt = r
  BY DEF RecordedIn
<1>2. log[i] \in Entries
  BY <1>1
<1> QED
  BY <1>1, <1>2, Zenon DEF Entries

\* Every step of a handler, of a restart and of the anchors keeps it.
LEMMA MirrorNextInv == MirrorInv /\ [MirrorNext]_mirrorVars => MirrorInv'
<1> SUFFICES ASSUME MirrorInv, [MirrorNext]_mirrorVars
             PROVE  MirrorInv'
  OBVIOUS
<1> USE DEF MirrorInv, MirrorTypes
<1>1. ASSUME NEW p \in Promoters, NEW r \in Receipts, Promote(p, r) PROVE MirrorInv'
  <2>1. AnchoredIn(signedFiles, r)
    BY <1>1, ReadIsSigned DEF Promote
  <2>2. HandlersAnchored'
    BY <1>1, <2>1 DEF Promote, HandlersAnchored
  <2> QED
    BY <1>1, <2>2 DEF Promote, RestoresAnchored, GateAnchored
<1>2. ASSUME NEW p \in Promoters, RefuseWindow(p) PROVE MirrorInv'
  BY <1>2 DEF RefuseWindow, Quiet, HandlersAnchored, RestoresAnchored, GateAnchored
<1>3. ASSUME NEW p \in Promoters, NEW inLog \in BOOLEAN, PromotionLeaf(p, inLog)
      PROVE  MirrorInv'
  <2> DEFINE receipt == promoter[p].receipt
  <2>1. /\ promoter[p].pc = "window" /\ UNCHANGED <<file, gate, restoring, signedFiles>>
        /\ receipt \in Receipts /\ AnchoredIn(signedFiles, receipt)
    BY <1>3 DEF PromotionLeaf, HandlersAnchored
  <2>2. /\ journalled' \in Seq(Entries)
        /\ \A r : RecordedIn(journalled, r) => RecordedIn(journalled', r)
        /\ inLog => RecordedIn(journalled', receipt)
    <3>1. [receipt |-> receipt, inLog |-> inLog] \in Entries
      BY <2>1, Zenon DEF Entries
    <3>2. journalled' = Append(journalled, [receipt |-> receipt, inLog |-> inLog])
      BY <1>3 DEF PromotionLeaf
    <3> QED
      BY <3>1, <3>2, JournalGrows
  <2>3. DOMAIN promoter' = Promoters /\ \A q \in Promoters \ {p} : promoter'[q] = promoter[q]
    BY <1>3 DEF PromotionLeaf
  <2>4. \/ inLog /\ promoter'[p].pc = "retain" /\ promoter'[p].receipt = receipt
        \/ promoter'[p].pc = "idle"
    BY <1>3, SMTT(30) DEF PromotionLeaf, Quiet
  <2> HIDE DEF receipt
  <2>5. HandlersAnchored'
    BY <2>1, <2>2, <2>3, <2>4 DEF HandlersAnchored
  <2>6. RestoresAnchored'
    BY <2>1 DEF RestoresAnchored
  <2>7. GateAnchored'
    BY <2>1, <2>2 DEF GateAnchored
  <2> QED
    BY <2>1, <2>2, <2>3, <2>5, <2>6, <2>7
<1>4. ASSUME NEW p \in Promoters, Retain(p) PROVE MirrorInv'
  <2>1. /\ promoter[p].pc = "retain" /\ promoter' = [promoter EXCEPT ![p] = Quiet]
        /\ UNCHANGED <<file, journalled, restoring, signedFiles>>
    BY <1>4 DEF Retain
  <2>2. HandlersAnchored' /\ RestoresAnchored'
    BY <2>1 DEF Quiet, HandlersAnchored, RestoresAnchored
  <2>3. CASE UNCHANGED gate
    BY <2>1, <2>2, <2>3 DEF GateAnchored
  <2>4. ASSUME NEW e \in AnchorEntries(file, promoter[p].receipt.epoch),
               gate' = [cell |-> promoter[p].receipt.cell,
                        epoch |-> promoter[p].receipt.epoch, end |-> e.end]
        PROVE  GateAnchored'
    <3>1. SignedIn(signedFiles, promoter[p].receipt.epoch, e.end)
      BY ReadIsSigned
    <3> QED
      BY <2>1, <2>4, <3>1 DEF HandlersAnchored, GateAnchored
  <2> QED
    BY <1>4, <2>1, <2>2, <2>3, <2>4 DEF Retain
<1>5. CASE MirrorCrash
  BY <1>5 DEF MirrorCrash, NoPromotion, Quiet, HandlersAnchored, RestoresAnchored, GateAnchored
<1>6. CASE RestoreBundle
  <2>1. /\ restoring = "bundle"
        /\ UNCHANGED <<file, promoter, gate, journalled, signedFiles>>
    BY <1>6 DEF RestoreBundle
  <2>2. CASE Restorable
    <3>1. AnchoredIn(signedFiles, LastEntry.receipt)
      BY <2>2, ReadIsSigned DEF Restorable
    <3>2. RecordedIn(journalled, LastEntry.receipt)
      BY <2>2 DEF Restorable, RecordedIn, LastEntry
    <3> QED
      BY <2>1, <3>1, <3>2 DEF HandlersAnchored, RestoresAnchored, LastEntry, GateAnchored
  <2>3. CASE restoring' = "up"
    BY <2>1, <2>3 DEF HandlersAnchored, RestoresAnchored, GateAnchored
  <2> QED
    BY <1>6, <2>2, <2>3 DEF RestoreBundle
<1>7. CASE RestoreWindow
  <2> DEFINE r == LastEntry.receipt
  <2>1. /\ restoring = "window" /\ restoring' = "up"
        /\ UNCHANGED <<file, promoter, journalled, signedFiles>>
    BY <1>7 DEF RestoreWindow
  <2>2. \/ UNCHANGED gate
        \/ \E e \in AnchorEntries(file, r.epoch) :
             gate' = [cell |-> r.cell, epoch |-> r.epoch, end |-> e.end]
    BY <1>7 DEF RestoreWindow
  <2>3. RecordedIn(journalled, r) /\ AnchoredIn(signedFiles, r)
    BY <2>1 DEF RestoresAnchored
  <2> HIDE DEF r
  <2>4. r \in Receipts
    BY <2>3, RecordedReceipts
  <2>5. GateAnchored'
    <3>1. \A e \in AnchorEntries(file, r.epoch) : SignedIn(signedFiles, r.epoch, e.end)
      BY ReadIsSigned
    <3> QED
      BY <2>1, <2>2, <2>3, <2>4, <3>1 DEF GateAnchored
  <2> QED
    BY <2>1, <2>5 DEF HandlersAnchored, RestoresAnchored
<1>8. CASE MirrorTick
  BY <1>8 DEF MirrorTick, HandlersAnchored, RestoresAnchored, LastEntry, GateAnchored
<1>9. ASSUME NEW f \in AnchorFiles, ReplaceFile(f) PROVE MirrorInv'
  <2>1. signedFiles \subseteq signedFiles' /\ (Verifies(file') => file' \in signedFiles')
        /\ UNCHANGED <<promoter, gate, journalled, restoring>>
    BY <1>9 DEF ReplaceFile
  <2>2. /\ \A r : AnchoredIn(signedFiles, r) => AnchoredIn(signedFiles', r)
        /\ \A n, end : SignedIn(signedFiles, n, end) => SignedIn(signedFiles', n, end)
    BY <2>1, FilesGrow, Zenon
  <2> QED
    BY <2>1, <2>2, Zenon DEF HandlersAnchored, RestoresAnchored, LastEntry, GateAnchored
<1>10. ASSUME NEW n \in MirrorEpochs \cup {NoAuthority}, EpochChanges(n) PROVE MirrorInv'
  BY <1>10 DEF EpochChanges, HandlersAnchored, RestoresAnchored, LastEntry, GateAnchored
<1>11. CASE UNCHANGED mirrorVars
  BY <1>11 DEF mirrorVars, HandlersAnchored, RestoresAnchored, LastEntry, GateAnchored
<1> QED
  BY <1>1, <1>2, <1>3, <1>4, <1>5, <1>6, <1>7, <1>8, <1>9, <1>10, <1>11, Zenon DEF MirrorNext

\* Critical systems fail over only to a cell whose promotion is in the log, for a
\* bundle and before an end of window the controllers signed, for any number of
\* handlers, files, promotions and restarts (PromotionController.Promote,
\* mirrorGate.Restore and mirrorGate.Status).
THEOREM FailoverAnchored == MirrorSpec => []FailoverIsAnchored
<1>1. MirrorInv => FailoverIsAnchored
  BY DEF MirrorInv, GateAnchored, FailoverIsAnchored, MirrorAvailable, Logged, AnchoredIn,
         RecordedIn, SignedIn
<1> QED
  BY MirrorInitInv, MirrorNextInv, <1>1, PTL DEF MirrorSpec

-----------------------------------------------------------------------------
(***************************************************************************)
(* The anchorer.  Its records are at most FutureSkew ahead of the clock    *)
(* that received them, and the chain, the backlog and the record in hand   *)
(* are in the order of the heads they anchor.                              *)
(***************************************************************************)
AnchorRecords ==
  {r \in [size : Nat, at : Int, received : Int] : r.at <= r.received + FutureSkew}

Sorted(s) == \A i, j \in DOMAIN s : i <= j => s[i].size <= s[j].size
UpTo(s, n) == \A i \in DOMAIN s : s[i].size <= n
Before(s, t) == \A j \in DOMAIN t : UpTo(s, t[j].size)

AnchorTypes ==
  /\ time \in Nat /\ head \in Nat
  /\ chain \in Seq(AnchorRecords) /\ backlog \in Seq(AnchorRecords)
  /\ last \in AnchorRecords
  /\ cycle \in [pc : {"rest", "flush", "flushed", "head", "stamp", "append", "appended"},
                rec : AnchorRecords]
  /\ cycle.pc \in {"flush", "flushed"} => backlog # <<>>
  /\ DOMAIN check = Checkers

LastIsOnChain == last # NoAnchor => \E i \in DOMAIN chain : chain[i] = last

InOrder ==
  /\ Sorted(chain) /\ Sorted(backlog) /\ Before(chain, backlog)
  /\ UpTo(chain, head) /\ UpTo(backlog, head)
  /\ cycle.pc \in {"stamp", "append"} =>
       /\ UpTo(chain, cycle.rec.size) /\ UpTo(backlog, cycle.rec.size)
       /\ cycle.rec.size <= head

AnchorInv == AnchorTypes /\ LastIsOnChain /\ InOrder

\* A sorted sequence grows by a record that is not before its others.
LEMMA Appends ==
  ASSUME NEW s \in Seq(AnchorRecords), NEW r \in AnchorRecords
  PROVE  /\ Append(s, r) \in Seq(AnchorRecords)
         /\ \A x : (\E i \in DOMAIN s : s[i] = x) => \E i \in DOMAIN Append(s, r) : Append(s, r)[i] = x
         /\ \E i \in DOMAIN Append(s, r) : Append(s, r)[i] = r
         /\ \A i \in DOMAIN Append(s, r) : Append(s, r)[i] = r \/ (i \in DOMAIN s /\ Append(s, r)[i] = s[i])
         /\ Sorted(s) /\ UpTo(s, r.size) => Sorted(Append(s, r))
<1> DEFINE t == Append(s, r)
<1>1. t \in Seq(AnchorRecords) /\ Len(s) \in Nat
  OBVIOUS
<1>2. DOMAIN s = 1..Len(s) /\ DOMAIN t = 1..(Len(s) + 1)
  OBVIOUS
<1>3. /\ \A i \in 1..Len(s) : t[i] = s[i]
      /\ t[Len(s) + 1] = r
  OBVIOUS
<1> HIDE DEF t
<1>4. r.size \in Nat /\ \A i \in DOMAIN s : s[i].size \in Nat
  <2>1. \A i \in DOMAIN s : s[i] \in AnchorRecords
    OBVIOUS
  <2> QED
    BY <2>1 DEF AnchorRecords
<1>5. ASSUME NEW i \in DOMAIN t
      PROVE  t[i] = r \/ (i \in DOMAIN s /\ t[i] = s[i])
  <2>1. i \in 1..Len(s) \/ i = Len(s) + 1
    BY <1>1, <1>2
  <2>2. CASE i \in 1..Len(s)
    <3>1. t[i] = s[i] /\ i \in DOMAIN s
      BY <1>2, <1>3, <2>2
    <3> QED
      BY <3>1
  <2>3. CASE i = Len(s) + 1
    <3>1. t[i] = r
      BY <1>3, <2>3
    <3> QED
      BY <3>1
  <2> QED
    BY <2>1, <2>2, <2>3
<1>6. ASSUME Sorted(s), UpTo(s, r.size) PROVE Sorted(t)
  <2> SUFFICES ASSUME NEW i \in DOMAIN t, NEW j \in DOMAIN t, i <= j
               PROVE  t[i].size <= t[j].size
    BY DEF Sorted
  <2>1. CASE j \in DOMAIN s
    <3>1. i \in DOMAIN s
      BY <1>1, <1>2, <2>1
    <3>2. t[i] = s[i] /\ t[j] = s[j] /\ s[i].size <= s[j].size
      BY <1>2, <1>3, <1>6, <2>1, <3>1 DEF Sorted
    <3> QED
      BY <3>2
  <2>2. CASE j \notin DOMAIN s
    <3>1. t[j] = r
      BY <1>5, <2>2
    <3>2. t[i].size <= r.size
      BY <1>4, <1>5, <1>6 DEF UpTo
    <3> QED
      BY <3>1, <3>2
  <2> QED
    BY <2>1, <2>2
<1>7. \E i \in DOMAIN t : t[i] = r
  BY <1>1, <1>2, <1>3
<1>8. \A x : (\E i \in DOMAIN s : s[i] = x) =>
               \E i \in DOMAIN t : t[i] = x
  BY <1>1, <1>2, <1>3
<1> QED
  BY <1>1, <1>5, <1>6, <1>7, <1>8, Zenon DEF t

\* The first of a sorted sequence is the smallest; the rest stays sorted.
LEMMA HeadsAndTails ==
  ASSUME NEW s \in Seq(AnchorRecords), s # <<>>
  PROVE  /\ Head(s) \in AnchorRecords /\ Tail(s) \in Seq(AnchorRecords)
         /\ \E i \in DOMAIN s : Head(s) = s[i]
         /\ \A i \in DOMAIN Tail(s) : \E j \in DOMAIN s : Tail(s)[i] = s[j]
         /\ Sorted(s) => Sorted(Tail(s)) /\ \A j \in DOMAIN s : Head(s).size <= s[j].size
<1>1. Len(s) \in Nat \ {0} /\ DOMAIN s = 1..Len(s) /\ Head(s) = s[1]
  OBVIOUS
<1>2. /\ Tail(s) \in Seq(AnchorRecords) /\ DOMAIN Tail(s) = 1..(Len(s) - 1)
      /\ \A i \in 1..(Len(s) - 1) : Tail(s)[i] = s[i + 1]
  OBVIOUS
<1>3. Head(s) \in AnchorRecords /\ \E i \in DOMAIN s : Head(s) = s[i]
  BY <1>1
<1>4. \A i \in DOMAIN Tail(s) : i + 1 \in DOMAIN s /\ Tail(s)[i] = s[i + 1]
  BY <1>1, <1>2
<1>5. Sorted(s) => Sorted(Tail(s))
  BY <1>1, <1>2, <1>4, SMTT(30) DEF Sorted
<1>6. Sorted(s) => \A j \in DOMAIN s : Head(s).size <= s[j].size
  BY <1>1 DEF Sorted
<1> QED
  BY <1>2, <1>3, <1>4, <1>5, <1>6

\* An anchorer starts with nothing anchored.
LEMMA AnchorInitInv == AnchorInit => AnchorInv
<1> SUFFICES ASSUME AnchorInit PROVE AnchorInv
  OBVIOUS
<1>1. NoAnchor \in AnchorRecords
  BY AnchorAssumption DEF NoAnchor, AnchorRecords
<1>2. AnchorTypes
  BY <1>1 DEF AnchorInit, AnchorTypes, Resting
<1>3. LastIsOnChain /\ InOrder
  BY DEF AnchorInit, LastIsOnChain, InOrder, Sorted, UpTo, Before, Resting
<1> QED
  BY <1>2, <1>3 DEF AnchorInv

\* pushBacklog keeps the order: the record in hand is after all others.
LEMMA PushInOrder ==
  ASSUME backlog \in Seq(AnchorRecords), NEW rec \in AnchorRecords, Push(rec),
         Sorted(backlog), UpTo(backlog, rec.size), UpTo(backlog, head), rec.size <= head
  PROVE  /\ backlog' \in Seq(AnchorRecords)
         /\ Sorted(backlog') /\ UpTo(backlog', head)
         /\ \A j \in DOMAIN backlog' :
              backlog'[j] = rec \/ (j \in DOMAIN backlog /\ backlog'[j] = backlog[j])
<1>1. CASE UNCHANGED backlog
  BY <1>1
<1>2. CASE backlog' = Append(backlog, rec)
  <2>1. /\ backlog' \in Seq(AnchorRecords) /\ Sorted(backlog')
        /\ \A j \in DOMAIN backlog' :
              backlog'[j] = rec \/ (j \in DOMAIN backlog /\ backlog'[j] = backlog[j])
    BY <1>2, Appends, SMTT(30)
  <2>2. UpTo(backlog', head)
    BY <2>1 DEF UpTo
  <2> QED
    BY <2>1, <2>2
<1> QED
  BY <1>1, <1>2 DEF Push

\* An append to the master chain keeps its order, whatever its outcome.
LEMMA WrittenInOrder ==
  ASSUME chain \in Seq(AnchorRecords), NEW rec \in AnchorRecords, NEW outcome,
         Written(rec, outcome),
         Sorted(chain), UpTo(chain, rec.size), UpTo(chain, head), rec.size <= head
  PROVE  /\ chain' \in Seq(AnchorRecords)
         /\ Sorted(chain') /\ UpTo(chain', head)
         /\ \A n : UpTo(chain, n) /\ rec.size <= n => UpTo(chain', n)
         /\ \A x : (\E i \in DOMAIN chain : chain[i] = x) => \E i \in DOMAIN chain' : chain'[i] = x
         /\ outcome = "done" => \E i \in DOMAIN chain' : chain'[i] = rec
<1>1. CASE chain' = chain /\ outcome = "refused"
  BY <1>1
<1>2. CASE chain' = Append(chain, rec)
  <2>1. /\ chain' \in Seq(AnchorRecords) /\ Sorted(chain')
        /\ \A j \in DOMAIN chain' : chain'[j] = rec \/ (j \in DOMAIN chain /\ chain'[j] = chain[j])
        /\ \E i \in DOMAIN chain' : chain'[i] = rec
        /\ \A x : (\E i \in DOMAIN chain : chain[i] = x) => \E i \in DOMAIN chain' : chain'[i] = x
    <3>1. Sorted(Append(chain, rec))
      BY Appends
    <3>2. chain' \in Seq(AnchorRecords) /\ \E i \in DOMAIN chain' : chain'[i] = rec
      BY <1>2, Appends
    <3>3. \A j \in DOMAIN chain' : chain'[j] = rec \/ (j \in DOMAIN chain /\ chain'[j] = chain[j])
      BY <1>2, Appends, SMTT(30)
    <3>4. \A x : (\E i \in DOMAIN chain : chain[i] = x) => \E i \in DOMAIN chain' : chain'[i] = x
      BY <1>2, Appends, SMTT(30)
    <3> QED
      BY <1>2, <3>1, <3>2, <3>3, <3>4
  <2>2. \A n : UpTo(chain, n) /\ rec.size <= n => UpTo(chain', n)
    BY <2>1 DEF UpTo
  <2> QED
    BY <2>1, <2>2
<1> QED
  BY <1>1, <1>2 DEF Written

\* updateLast retains an anchor the master chain holds.
LEMMA StoreOnChain ==
  ASSUME AnchorInv, NEW rec \in AnchorRecords, NEW pc, StoreLast(rec, pc),
         \A x : (\E i \in DOMAIN chain : chain[i] = x) => \E i \in DOMAIN chain' : chain'[i] = x,
         \E i \in DOMAIN chain' : chain'[i] = rec
  PROVE  LastIsOnChain' /\ last' \in AnchorRecords /\ cycle'.pc = pc
         /\ cycle' \in [pc : {pc}, rec : AnchorRecords]
<1>1. NoAnchor \in AnchorRecords
  BY AnchorAssumption, SMTT(30) DEF NoAnchor, AnchorRecords
<1> QED
  BY <1>1, Zenon DEF AnchorInv, AnchorTypes, LastIsOnChain, StoreLast, NoAnchor

\* A head that is read, not yet dated.
LEMMA HeadRecord ==
  ASSUME NEW n \in Nat
  PROVE  /\ [size |-> n, at |-> -1, received |-> -1] \in AnchorRecords
         /\ [size |-> n, at |-> -1, received |-> -1].size = n
<1>1. FutureSkew \in Nat
  BY AnchorAssumption
<1>2. -1 <= -1 + FutureSkew
  BY <1>1
<1>3. -1 \in Int
  OBVIOUS
<1> QED
  BY <1>2, <1>3 DEF AnchorRecords

\* Every step of the cycle, of a check and of the cell keeps it.
LEMMA AnchorNextInv == AnchorInv /\ [AnchorNext]_anchorVars => AnchorInv'
<1> SUFFICES ASSUME AnchorInv, [AnchorNext]_anchorVars PROVE AnchorInv'
  OBVIOUS
<1>1. /\ NoAnchor \in AnchorRecords
      /\ \A r \in AnchorRecords : r.size \in Nat
      /\ Resting = [pc |-> "rest", rec |-> NoAnchor]
  BY AnchorAssumption DEF NoAnchor, AnchorRecords, Resting
<1> USE DEF AnchorInv
<1>2. CASE Begin
  BY <1>1, <1>2 DEF Begin, AfterFlush, AnchorTypes, LastIsOnChain, InOrder
<1>3. CASE Flushed
  <2>1. /\ backlog # <<>> /\ backlog' = Tail(backlog)
        /\ cycle' = [pc |-> AfterFlush(backlog'), rec |-> NoAnchor]
        /\ UNCHANGED <<time, head, chain, last, check>>
    BY <1>1, <1>3 DEF Flushed, AnchorTypes
  <2>2. /\ backlog' \in Seq(AnchorRecords) /\ Sorted(backlog')
        /\ \A i \in DOMAIN backlog' : \E j \in DOMAIN backlog : backlog'[i] = backlog[j]
    BY <2>1, HeadsAndTails DEF AnchorTypes, InOrder
  <2>3. UpTo(backlog', head) /\ Before(chain, backlog')
    BY <2>2 DEF InOrder, UpTo, Before
  <2>4. AnchorTypes'
    BY <1>1, <2>1, <2>2 DEF AnchorTypes, AfterFlush
  <2>5. LastIsOnChain'
    BY <2>1 DEF LastIsOnChain
  <2>6. InOrder'
    BY <2>1, <2>2, <2>3 DEF InOrder, AfterFlush
  <2> QED
    BY <2>4, <2>5, <2>6
<1>4. CASE ReadHead
  <2> DEFINE rec == [size |-> head, at |-> -1, received |-> -1]
  <2>1. /\ cycle' = [pc |-> "stamp", rec |-> rec]
        /\ UNCHANGED <<time, head, chain, last, backlog, check>>
    BY <1>4 DEF ReadHead, NoAnchor
  <2>2. head \in Nat /\ head <= head
    BY SMTT(30) DEF AnchorTypes
  <2>3. rec \in AnchorRecords /\ rec.size = head
    BY <2>2, HeadRecord
  <2> HIDE DEF rec
  <2>4. AnchorTypes'
    BY <2>1, <2>3 DEF AnchorTypes
  <2>5. LastIsOnChain'
    BY <2>1 DEF LastIsOnChain
  <2>6. InOrder'
    BY <2>1, <2>2, <2>3 DEF InOrder
  <2> QED
    BY <2>4, <2>5, <2>6
<1>5. ASSUME NEW t \in GenTimes, Stamp(t) PROVE AnchorInv'
  <2>1. CASE cycle' = Resting
    BY <1>1, <1>5, <2>1, SMTT(30) DEF Stamp, AnchorTypes, LastIsOnChain, InOrder
  <2>2. CASE /\ Accepts(t)
             /\ cycle' = [pc |-> "append",
                          rec |-> [cycle.rec EXCEPT !.at = t, !.received = time]]
    <3>1. t \in Int /\ time \in Nat /\ cycle.rec \in AnchorRecords
      BY AnchorAssumption, SMTT(30) DEF GenTimes, AnchorTypes
    <3>2. cycle'.rec \in AnchorRecords /\ cycle'.rec.size = cycle.rec.size /\ cycle'.pc = "append"
      <4>1. cycle.rec \in [size : Nat, at : Int, received : Int]
        BY <3>1 DEF AnchorRecords
      <4>2. cycle'.rec = [size |-> cycle.rec.size, at |-> t, received |-> time]
        BY <2>2, <4>1, Zenon
      <4>3. t <= time + FutureSkew
        BY <2>2 DEF Accepts
      <4>4. [size |-> cycle.rec.size, at |-> t, received |-> time] \in AnchorRecords
        BY <3>1, <4>1, <4>3, SMTT(30) DEF AnchorRecords
      <4> QED
        BY <2>2, <4>2, <4>4, Zenon
    <3>3. cycle' \in [pc : {"append"}, rec : AnchorRecords]
      BY <2>2, <3>2
    <3>4. cycle.pc = "stamp" /\ UNCHANGED <<time, head, chain, last, backlog, check>>
      BY <1>5 DEF Stamp
    <3>5. AnchorTypes'
      BY <3>3, <3>4 DEF AnchorTypes
    <3>6. LastIsOnChain' /\ InOrder'
      BY <3>2, <3>4 DEF LastIsOnChain, InOrder
    <3> QED
      BY <3>5, <3>6
  <2> QED
    BY <1>5, <2>1, <2>2 DEF Stamp
<1>6. CASE NoStamp
  BY <1>1, <1>6 DEF NoStamp, AnchorTypes, LastIsOnChain, InOrder
<1>7. CASE Defer
  <2>1. cycle.rec \in AnchorRecords /\ cycle.pc = "append"
    BY <1>7 DEF Defer, AnchorTypes
  <2>2. /\ backlog' \in Seq(AnchorRecords) /\ Sorted(backlog') /\ UpTo(backlog', head)
        /\ \A j \in DOMAIN backlog' :
             backlog'[j] = cycle.rec \/ (j \in DOMAIN backlog /\ backlog'[j] = backlog[j])
    BY <1>7, <2>1, PushInOrder DEF Defer, AnchorTypes, InOrder
  <2>3. Before(chain, backlog')
    BY <2>1, <2>2 DEF InOrder, Before
  <2> QED
    BY <1>1, <1>7, <2>2, <2>3 DEF Defer, AnchorTypes, LastIsOnChain, InOrder
<1>8. CASE Appended
  BY <1>1, <1>8 DEF Appended, AnchorTypes, LastIsOnChain, InOrder
<1>9. ASSUME NEW o \in Outcomes, FlushOne(o) PROVE AnchorInv'
  <2> DEFINE rec == Head(backlog)
  <2>1. /\ rec \in AnchorRecords
        /\ \E j \in DOMAIN backlog : rec = backlog[j]
        /\ \A j \in DOMAIN backlog : rec.size <= backlog[j].size
    BY <1>9, HeadsAndTails DEF FlushOne, AnchorTypes, InOrder
  <2>2. Written(rec, o) /\ cycle.pc = "flush" /\ UNCHANGED <<time, head, backlog, check>>
    BY <1>9 DEF FlushOne
  <2> HIDE DEF rec
  <2>3. UpTo(chain, rec.size) /\ rec.size <= head
    BY <2>1 DEF InOrder, Before, UpTo
  <2>4. /\ chain' \in Seq(AnchorRecords)
        /\ Sorted(chain') /\ UpTo(chain', head)
        /\ \A n : UpTo(chain, n) /\ rec.size <= n => UpTo(chain', n)
        /\ \A x : (\E i \in DOMAIN chain : chain[i] = x) => \E i \in DOMAIN chain' : chain'[i] = x
        /\ o = "done" => \E i \in DOMAIN chain' : chain'[i] = rec
    BY <2>1, <2>2, <2>3, WrittenInOrder, Zenon DEF AnchorTypes, InOrder
  <2>5. Before(chain', backlog)
    BY <2>1, <2>4 DEF InOrder, Before
  <2>6. /\ LastIsOnChain' /\ last' \in AnchorRecords
        /\ cycle' \in [pc : {"flushed", "head"}, rec : AnchorRecords]
    <3>1. CASE o = "done"
      BY <1>9, <2>1, <2>4, <3>1, StoreOnChain DEF FlushOne, rec
    <3>2. CASE o # "done"
      BY <1>9, <2>4, <3>2, Zenon DEF FlushOne, LastIsOnChain, AnchorTypes
    <3> QED
      BY <3>1, <3>2
  <2>7. AnchorTypes'
    BY <2>2, <2>4, <2>6, Zenon DEF AnchorTypes
  <2>8. InOrder'
    BY <2>2, <2>4, <2>5, <2>6, Zenon DEF InOrder
  <2> QED
    BY <2>6, <2>7, <2>8
<1>10. ASSUME NEW o \in Outcomes, AppendAnchor(o) PROVE AnchorInv'
  <2> DEFINE rec == cycle.rec
  <2>1. /\ rec \in AnchorRecords /\ UpTo(chain, rec.size) /\ rec.size <= head
        /\ backlog = <<>> /\ Written(rec, o) /\ UNCHANGED <<time, head, check>>
    BY <1>10 DEF AppendAnchor, Deferred, AnchorTypes, InOrder
  <2>2. /\ chain' \in Seq(AnchorRecords)
        /\ Sorted(chain') /\ UpTo(chain', head)
        /\ \A n : UpTo(chain, n) /\ rec.size <= n => UpTo(chain', n)
        /\ \A x : (\E i \in DOMAIN chain : chain[i] = x) => \E i \in DOMAIN chain' : chain'[i] = x
        /\ o = "done" => \E i \in DOMAIN chain' : chain'[i] = rec
    BY <2>1, WrittenInOrder, Zenon DEF AnchorTypes, InOrder
  <2>3. CASE o = "done"
    <3>1. StoreLast(rec, "appended") /\ UNCHANGED backlog
      BY <1>10, <2>3 DEF AppendAnchor
    <3>2. /\ LastIsOnChain' /\ last' \in AnchorRecords
          /\ cycle' \in [pc : {"appended"}, rec : AnchorRecords]
      BY <2>1, <2>2, <2>3, <3>1, StoreOnChain, Zenon
    <3>3. AnchorTypes'
      BY <2>1, <2>2, <3>1, <3>2 DEF AnchorTypes
    <3>4. InOrder'
      BY <2>1, <2>2, <3>1, <3>2, SMTT(30) DEF InOrder, Before
    <3> QED
      BY <3>2, <3>3, <3>4
  <2>4. CASE o # "done"
    <3>1. Push(rec) /\ cycle' = Resting /\ UNCHANGED last
      BY <1>10, <2>4 DEF AppendAnchor
    <3>2. /\ backlog' \in Seq(AnchorRecords) /\ Sorted(backlog') /\ UpTo(backlog', head)
          /\ \A j \in DOMAIN backlog' :
               backlog'[j] = rec \/ (j \in DOMAIN backlog /\ backlog'[j] = backlog[j])
      BY <2>1, <3>1, PushInOrder, SMTT(30) DEF AnchorTypes, InOrder, UpTo
    <3>3. \A j \in DOMAIN backlog' : backlog'[j] = rec
      BY <2>1, <3>2
    <3>4. rec.size <= rec.size
      BY <1>1, <2>1, SMTT(30)
    <3>5. Before(chain', backlog')
      BY <2>1, <2>2, <3>3, <3>4 DEF Before
    <3>6. AnchorTypes'
      <4>1. cycle'.pc = "rest" /\ cycle' \in [pc : {"rest"}, rec : AnchorRecords]
        BY <1>1, <3>1 DEF Resting
      <4> QED
        BY <2>1, <2>2, <3>1, <3>2, <4>1 DEF AnchorTypes
    <3>7. LastIsOnChain'
      BY <2>2, <3>1 DEF LastIsOnChain
    <3>8. InOrder'
      BY <1>1, <2>1, <2>2, <3>1, <3>2, <3>5, Zenon DEF InOrder
    <3> QED
      BY <3>6, <3>7, <3>8
  <2> QED
    BY <2>3, <2>4
<1>11. ASSUME NEW c \in Checkers, CheckLag(c) \/ FireTrip(c) \/ Emits(c) PROVE AnchorInv'
  BY <1>11, Zenon DEF CheckLag, FireTrip, Emits, anchorer, AnchorTypes, LastIsOnChain, InOrder
<1>12. CASE CellGrows
  <2>1. ASSUME NEW s \in Seq(AnchorRecords), UpTo(s, head) PROVE UpTo(s, head + 1)
    <3>1. SUFFICES ASSUME NEW i \in DOMAIN s PROVE s[i].size <= head + 1
      BY DEF UpTo
    <3>2. s[i] \in AnchorRecords
      OBVIOUS
    <3>3. s[i].size \in Nat /\ head \in Nat /\ s[i].size <= head
      BY <1>1, <2>1, <3>2 DEF UpTo, AnchorTypes
    <3> QED
      BY <3>3
  <2>2. AnchorTypes'
    BY <1>12, SMTT(30) DEF CellGrows, anchorer, AnchorTypes
  <2>3. UpTo(chain, head + 1) /\ UpTo(backlog, head + 1)
    BY <2>1 DEF AnchorTypes, InOrder
  <2>4. cycle.rec.size \in Nat /\ head \in Nat
    BY <1>1 DEF AnchorTypes
  <2>5. InOrder'
    BY <1>12, <2>3, <2>4 DEF CellGrows, anchorer, InOrder
  <2>6. LastIsOnChain'
    BY <1>12 DEF CellGrows, anchorer, LastIsOnChain
  <2> QED
    BY <2>2, <2>5, <2>6
<1>13. CASE AnchorTime
  BY <1>13, SMTT(30) DEF AnchorTime, anchorer, AnchorTypes, LastIsOnChain, InOrder
<1>14. CASE UNCHANGED anchorVars
  BY <1>14 DEF anchorVars, anchorer, AnchorTypes, LastIsOnChain, InOrder
<1> QED
  BY <1>2, <1>3, <1>4, <1>5, <1>6, <1>7, <1>8, <1>9, <1>10, <1>11, <1>12, <1>13, <1>14
     DEF AnchorNext

\* The master chain never anchors a shorter head after a longer one, for any
\* bound of the backlog and any outcome of the appends (AnchorOnce,
\* flushBacklog, pushBacklog).
THEOREM ChainInOrder == AnchorSpec => []AnchorsInOrder
<1>1. AnchorInv => AnchorsInOrder
  <2> SUFFICES ASSUME AnchorInv, NEW i \in 1..(Len(chain) - 1)
               PROVE  chain[i].size <= chain[i + 1].size
    BY DEF AnchorsInOrder
  <2>1. Len(chain) \in Nat /\ DOMAIN chain = 1..Len(chain)
    BY SMTT(30) DEF AnchorInv, AnchorTypes
  <2>2. i \in DOMAIN chain /\ i + 1 \in DOMAIN chain /\ i <= i + 1
    BY <2>1
  <2> QED
    BY <2>2 DEF AnchorInv, InOrder, Sorted
<1> QED
  BY AnchorInitInv, AnchorNextInv, <1>1, PTL DEF AnchorSpec

\* The step behind it: CheckLag alone lets an epoch token pass.
LEMMA PassStep ==
  ASSUME AnchorInv, [AnchorNext]_anchorVars,
         NEW c \in Checkers, check[c] = "idle", check'[c] = "passed"
  PROVE  \E i \in DOMAIN chain : time - chain[i].received <= AnchorMaxLag + FutureSkew
<1>1. ~Overdue(last)
  <2>1. ASSUME NEW d \in Checkers, CheckLag(d) PROVE ~Overdue(last)
    BY <2>1 DEF CheckLag, AnchorInv, AnchorTypes
  <2>2. ASSUME NEW d \in Checkers, FireTrip(d) \/ Emits(d) PROVE FALSE
    BY <2>2 DEF FireTrip, Emits, AnchorInv, AnchorTypes
  <2>3. ASSUME UNCHANGED check PROVE FALSE
    BY <2>3
  <2>4. CASE \/ Begin \/ Flushed \/ ReadHead \/ NoStamp \/ Defer \/ Appended
             \/ CellGrows \/ AnchorTime \/ UNCHANGED anchorVars
    BY <2>3, <2>4 DEF Begin, Flushed, ReadHead, NoStamp, Defer, Appended, CellGrows,
                      AnchorTime, anchorVars
  <2>5. ASSUME NEW o \in Outcomes, FlushOne(o) \/ AppendAnchor(o) PROVE FALSE
    BY <2>3, <2>5 DEF FlushOne, AppendAnchor
  <2>6. ASSUME NEW t \in GenTimes, Stamp(t) PROVE FALSE
    BY <2>3, <2>6 DEF Stamp
  <2> QED
    BY <2>1, <2>2, <2>4, <2>5, <2>6 DEF AnchorNext
<1>2. PICK i \in DOMAIN chain : chain[i] = last
  BY <1>1 DEF Overdue, AnchorInv, LastIsOnChain
<1>3. /\ last.at \in Int /\ last.received \in Int /\ last.at <= last.received + FutureSkew
      /\ time \in Nat /\ AnchorMaxLag \in Nat /\ FutureSkew \in Nat
  BY AnchorAssumption DEF AnchorInv, AnchorTypes, AnchorRecords
<1>4. time - last.at <= AnchorMaxLag
  BY <1>1, <1>3 DEF Overdue, Lag
<1>5. time - last.received <= AnchorMaxLag + FutureSkew
  BY <1>3, <1>4
<1> QED
  BY <1>2, <1>5

\* An epoch token passes Check only on an anchor of the master chain received at
\* most MaxLag and the tolerated skew ago, for any TSA skew, backlog and number
\* of concurrent checks (Check, updateLast).
THEOREM FreshIsAnchored == AnchorSpec => FreshMeansAnchored
<1>1. AnchorInv /\ [AnchorNext]_anchorVars =>
        \A c \in Checkers : check[c] = "idle" /\ check'[c] = "passed" =>
          \E i \in DOMAIN chain : time - chain[i].received <= AnchorMaxLag + FutureSkew
  BY PassStep
<1> QED
  BY AnchorInitInv, AnchorNextInv, <1>1, PTL DEF AnchorSpec, FreshMeansAnchored
=============================================================================
